---------------------------- MODULE MessageFormat ----------------------------
(***************************************************************************)
(* How a message of the lattice agreement travels as text, and what        *)
(* becomes of it when the datagram fills the receive buffer: the format of *)
(* latticeagreement.cpp, the header and the buffer of udp.hpp, and the "@" *)
(* acknowledgement of perfectlink.cpp.                                     *)
(*                                                                         *)
(* One process, datum.src, hands one message to its link for datum.dst and *)
(* resends it until it is acknowledged.  Text is a sequence of characters. *)
(* A datagram that is lost is one that is sent again.                      *)
(*                                                                         *)
(* receive_udp reads up to MAXLINE characters into a buffer of MAXLINE and *)
(* ends them with buffer[n] = '\0': a datagram of MAXLINE characters or    *)
(* more has it write behind the buffer, which C++ leaves undefined.  Where *)
(* nothing is kept behind the buffer the process goes on with the first    *)
(* MAXLINE characters; a build that finds the write out ends the process.  *)
(* Both are possible here, at every such datagram.                         *)
(***************************************************************************)
EXTENDS Integers, Sequences, FiniteSets, SequencesExt

CONSTANTS MaxLine, \* MAXLINE
          Data     \* the messages, as [src, dst, type, val, num, round]

ASSUME MaxLineAssumption == MaxLine \in Nat \ {0}
ASSUME DataAssumption ==
  \A m \in Data : /\ m.src \in Nat \ {0} /\ m.dst \in Nat \ {0}
                  /\ m.type \in {"P", "A", "N", "F"}
                  /\ m.val \subseteq Nat /\ IsFiniteSet(m.val)
                  /\ m.num \in Nat /\ m.round \in Nat

VARIABLES
  datum,          \* the message of this behaviour
  not_delivered,  \* the <<process, host, text>> that a process resends
  ack_queue,      \* the <<process, host, text>> that a process acknowledges
  handled,        \* <<process, sender, type, val, num, round>>, as the handler reads it
  overrun,        \* the processes that have written behind their buffer
  ended           \* those of them that have ended by it

vars == <<datum, not_delivered, ack_queue, handled, overrun, ended>>

-----------------------------------------------------------------------------
(* Formatting.                                                             *)

Digit == <<"0", "1", "2", "3", "4", "5", "6", "7", "8", "9">>

Decimal[n \in Nat] ==
  IF n < 10 THEN <<Digit[n + 1]>> ELSE Append(Decimal[n \div 10], Digit[(n % 10) + 1])

\* The order in which the numbers of a std::set come out.
Ascending(S) ==
  CHOOSE s \in [1 .. Cardinality(S) -> S] :
    \A i \in 1 .. Cardinality(S) - 1 : s[i] < s[i + 1]

Listed(S) == FlattenSeq([i \in 1 .. Cardinality(S) |->
               (IF i = 1 THEN <<>> ELSE <<",">>) \o Decimal[Ascending(S)[i]]])

\* A FIN carries its round as its only value and its sender as its number.
Body(m) == <<m.type>> \o Listed(m.val) \o <<"/">> \o Decimal[m.num]

Wrapped(m) == Body(m) \o <<"?">> \o Decimal[m.round]

\* send_udp.
Datagram(from, text) == Decimal[from] \o <<":">> \o text

-----------------------------------------------------------------------------
(* Parsing.                                                                *)

\* The first place of one of the characters cs, or 0.
Find(text, cs) == SelectInSeq(text, LAMBDA c : c \in cs)

\* stoi, and extraction from a stream: the digits at the beginning.
Digits(text) == LET n == SelectInSeq(text, LAMBDA c : ~Contains(Digit, c))
                IN  IF n = 0 THEN text ELSE SubSeq(text, 1, n - 1)

Value(c) == SelectInSeq(Digit, LAMBDA x : x = c) - 1

ToInt(digits) ==
  LET read[i \in 0 .. Len(digits)] ==
        IF i = 0 THEN 0 ELSE 10 * read[i - 1] + Value(digits[i])
  IN  read[Len(digits)]

From(text, i) == SubSeq(text, i, Len(text))

\* recvfrom drops what does not fit the buffer; buffer[n] = '\0' needs one place more.
Overruns(datagram) == Len(datagram) >= MaxLine

Buffered(datagram) ==
  IF Len(datagram) <= MaxLine THEN datagram ELSE SubSeq(datagram, 1, MaxLine)

\* receive_udp: what the buffer holds, split at the first colon.
Receive(datagram) ==
  LET text  == Buffered(datagram)
      colon == Find(text, {":"})
  IN  IF colon = 0 \/ Digits(text) = <<>>
        THEN [from |-> -1, text |-> <<>>]
        ELSE [from |-> ToInt(Digits(text)), text |-> From(text, colon + 1)]

\* Broken variant: a message without a round number passes for one of round 0.
RoundOrZero(text) ==
  LET mark == Find(text, {"?"})
  IN  IF mark = 0 \/ Digits(From(text, mark + 1)) = <<>>
        THEN 0 ELSE ToInt(Digits(From(text, mark + 1)))

\* deformat_round_wrapper_lattice.
Round(text) ==
  LET mark == Find(text, {"?"})
  IN  IF mark = 0 \/ Digits(From(text, mark + 1)) = <<>>
        THEN -1 ELSE ToInt(Digits(From(text, mark + 1)))

\* The numbers of a list, separated by commas, and the one behind the slash.
Numbers(list) ==
  [val |-> {ToInt(Digits(From(list, i))) : i \in {1} \cup {j + 1 : j \in
              {x \in 1 .. Len(list) : list[x] = ","}}},
   num |-> ToInt(Digits(From(list, Find(list, {"/"}) + 1)))]

\* Broken variant: an empty set is not treated apart.
NumbersOnly(list) == Numbers(list)

\* deformat_lattice, behind the type.  An empty set leaves "/k" alone.
Parameters(list) ==
  IF list[1] = "/" THEN [val |-> {}, num |-> ToInt(Digits(Tail(list)))]
                   ELSE Numbers(list)

\* What the handler at p makes of the text.  Its number and its values are read
\* only if the round is that of p; a text without a round is thrown away.
Read(p, mes) ==
  IF Round(mes.text) = -1
    THEN <<p, mes.from, "none", {}, 0, -1>>
    ELSE LET list == SubSeq(mes.text, 2, Find(mes.text, {"?"}) - 1)
         IN  <<p, mes.from, mes.text[1], Parameters(list).val, Parameters(list).num,
               Round(mes.text)>>

-----------------------------------------------------------------------------
Init == /\ datum \in Data
        /\ not_delivered = {<<datum.src, datum.dst, Wrapped(datum)>>}
        /\ ack_queue = {}
        /\ handled = {}
        /\ overrun = {}
        /\ ended = {}

\* Broken variant: an acknowledgement erases what is resent to that host.
ErasedOfHost(p, mes) == {e \in not_delivered : e[1] = p /\ e[2] = mes.from}

\* The entry erased by an acknowledgement.
Erased(p, mes) == {<<p, mes.from, SubSeq(mes.text, 1, Find(mes.text, {"@"}) - 1)>>}

\* What p does with what it has received.  A text without "@", be it what is left of
\* an acknowledgement, is queued for acknowledgement and given to the handler.
Handle(p, mes) ==
  IF mes.from > 0
    THEN IF Find(mes.text, {"@"}) # 0
      THEN /\ not_delivered' = not_delivered \ Erased(p, mes)
           /\ UNCHANGED <<ack_queue, handled>>
      ELSE /\ ack_queue' = ack_queue \cup {<<p, mes.from, mes.text>>}
           /\ handled' = handled \cup {Read(p, mes)}
           /\ UNCHANGED not_delivered
    ELSE UNCHANGED <<not_delivered, ack_queue, handled>>

\* receiverPerfectLinks at p, for one datagram.
ReceiveUdp(p, datagram) ==
  /\ p \notin ended
  /\ overrun' = overrun \cup (IF Overruns(datagram) THEN {p} ELSE {})
  /\ \/ /\ Handle(p, Receive(datagram))
        /\ UNCHANGED ended
     \/ /\ Overruns(datagram)
        /\ ended' = ended \cup {p}
        /\ UNCHANGED <<not_delivered, ack_queue, handled>>
  /\ UNCHANGED datum

\* A copy of the message arrives, or an acknowledgement.
ReceiveData == \E e \in not_delivered : ReceiveUdp(e[2], Datagram(e[1], e[3]))

ReceiveAck == \E a \in ack_queue : ReceiveUdp(a[2], Datagram(a[1], a[3] \o <<"@">>))

Next == ReceiveData \/ ReceiveAck

Spec == Init /\ [][Next]_vars

-----------------------------------------------------------------------------
(* Properties.                                                             *)

\* The message as it was meant.
AsSent == <<datum.dst, datum.src, datum.type, datum.val, datum.num, datum.round>>

AtReceiver == {h \in handled : h[1] = datum.dst}

\* Where the message and its acknowledgement, one character longer, leave the buffer
\* a place, nothing is written behind it; and a process that has not overrun its
\* buffer has handled the message as it was meant and nothing else, also with an
\* empty set or with numbers that begin alike, and not at the sender.
ReadAsSent ==
  /\ Len(Datagram(datum.src, Wrapped(datum))) < MaxLine
       /\ Len(Datagram(datum.dst, Wrapped(datum))) + 1 < MaxLine
         => overrun = {}
  /\ \A h \in handled : h[1] \notin overrun => h = AsSent

\* A receiver that goes on with a cut-off message never takes it for a smaller set or
\* another proposal: the round number, which comes last, is missing, or is itself
\* what was cut.
CutIsRefused ==
  \A h \in AtReceiver :
    h[6] = -1 \/ (/\ SubSeq(h, 1, 5) = SubSeq(AsSent, 1, 5)
                  /\ IsPrefix(Decimal[h[6]], Decimal[datum.round]))

\* The sender stops resending only when the whole message has been handed over,
\* although a message that is cut off is acknowledged too, and so is an
\* acknowledgement that is cut off.
ResentUntilRead == not_delivered = {} => AsSent \in handled

=============================================================================
