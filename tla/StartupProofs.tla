----------------------------- MODULE StartupProofs -----------------------------
(***************************************************************************)
(* Proofs about Startup, for any set of processes, any command lines, any  *)
(* configurations and hosts files and any width of an int.                 *)
(***************************************************************************)
EXTENDS Startup, SequenceLemmas, FiniteSetTheorems

-----------------------------------------------------------------------------
(* The configuration.                                                      *)

\* NumbersRead is the length of the longest run of numbers, n at most.
LEMMA NumbersReadIs ==
  ASSUME NEW words \in Seq(Word), NEW n \in Nat
  PROVE  LET k == NumbersRead(words, n)
         IN  /\ k \in 0 .. n
             /\ k <= Len(words)
             /\ \A i \in 1 .. k : IsNumber(words[i])
             /\ k = n \/ k = Len(words) \/ ~IsNumber(words[k + 1])
<1> DEFINE Fits(k) == /\ k <= Len(words)
                      /\ \A i \in 1 .. k : IsNumber(words[i])
                      /\ k = n \/ k = Len(words) \/ ~IsNumber(words[k + 1])
           T == {k \in 0 .. n : k = n \/ k = Len(words) \/ ~IsNumber(words[k + 1])}
<1>1. Len(words) \in Nat
  BY LenProperties
<1>2. T # {} /\ T \in SUBSET Nat
  OBVIOUS
<1>3. PICK k \in T : \A j \in T : k <= j
  <2> HIDE DEF T
  <2> QED BY <1>2, SmallestNumber
<1>4. k <= Len(words)
  BY <1>1, <1>3
<1>5. ASSUME NEW i \in 1 .. k PROVE IsNumber(words[i])
  <2>1. i - 1 \in 0 .. n /\ i - 1 < k /\ i - 1 + 1 = i /\ i - 1 # n /\ i - 1 # Len(words)
    BY <1>1, <1>3, <1>4
  <2>2. i - 1 \notin T
    <3>1. k \in Nat
      BY <1>2
    <3> HIDE DEF T
    <3>2. i - 1 \in T => k <= i - 1
      BY <1>3
    <3> QED BY <2>1, <3>1, <3>2
  <2> QED BY <2>1, <2>2
<1>6. \E j \in 0 .. n : Fits(j)
  BY <1>3, <1>4, <1>5
<1> HIDE DEF T
<1>7. NumbersRead(words, n) = CHOOSE j \in 0 .. n : Fits(j)
  BY DEF NumbersRead
<1> HIDE DEF Fits
<1>8. NumbersRead(words, n) \in 0 .. n /\ Fits(NumbersRead(words, n))
  BY <1>6, <1>7, Zenon
<1> QED BY <1>8 DEF Fits

\* A file of words, read as one sequence of words.
LEMMA WordsType ==
  ASSUME NEW content \in Seq(Seq(Word))
  PROVE  Words(content) \in Seq(Word)
BY FlattenType DEF Words

\* A complete header begins with three numbers, of which the first is no negative one
\* if assign does not throw.
LEMMA HeaderNumbers ==
  ASSUME NEW content \in Seq(Seq(Word)), HeaderComplete(content)
  PROVE  /\ Len(Words(content)) >= 3
         /\ \A i \in 1 .. 3 : Words(content)[i] \in Int
         /\ ~AssignThrows(content) => Words(content)[1] \in Nat
         /\ Words(content) # <<>>
<1> DEFINE words == Words(content)
           k == NumbersRead(words, HeaderWords)
<1>1. words \in Seq(Word) /\ HeaderWords \in Nat
  BY WordsType DEF HeaderWords
<1> HIDE DEF words
<1>2. k <= Len(words) /\ \A i \in 1 .. k : IsNumber(words[i])
  BY <1>1, NumbersReadIs
<1>3. k = 3
  BY DEF HeaderComplete, HeaderWords, words
<1> HIDE DEF k
<1>4. Len(words) >= 3 /\ \A i \in 1 .. 3 : IsNumber(words[i])
  BY <1>2, <1>3
<1>5. \A i \in 1 .. 3 : words[i] \in Int
  <2>1. \A i \in 1 .. Len(words) : words[i] \in Word
    BY <1>1, ElementOfSeq
  <2>2. \A i \in 1 .. 3 : i \in 1 .. Len(words)
    BY <1>1, <1>4, LenProperties
  <2> QED BY <1>4, <2>1, <2>2 DEF Word, IsNumber
<1>6. words # <<>>
  BY <1>4, EmptySeq
<1>7. ~AssignThrows(content) => words[1] \in Nat
  BY <1>5 DEF AssignThrows, words
<1> QED BY <1>4, <1>5, <1>6, <1>7 DEF words

LEMMA LimitsOfInt == MinInt \in Int /\ MaxInt \in Int
BY IntRangeAssumption DEF MinInt, MaxInt

\* A number that an int can hold is read as it is.
LEMMA ExtractedNumber ==
  ASSUME NEW w \in Int, IsNumber(w) PROVE Extracted(w) = w
BY LimitsOfInt DEF Extracted, IsNumber

\* message_to_send is the first number, and there are as many proposals.
LEMMA HeaderRounds ==
  ASSUME NEW content \in Seq(Seq(Word)), HeaderComplete(content), ~AssignThrows(content)
  PROVE  /\ MessageToSend(content, Anything) = {Words(content)[1]}
         /\ Words(content)[1] \in Nat
         /\ Len(ProposalsLattice(content)) = Words(content)[1]
<1>1. Words(content)[1] \in Nat /\ Words(content) # <<>>
  BY HeaderNumbers
<1>2. IsNumber(Words(content)[1])
  <2>1. NumbersRead(Words(content), HeaderWords) = 3
    BY DEF HeaderComplete, HeaderWords
  <2>2. \A i \in 1 .. NumbersRead(Words(content), HeaderWords) : IsNumber(Words(content)[i])
    BY WordsType, NumbersReadIs DEF HeaderWords
  <2> QED BY <2>1, <2>2
<1>3. MessageToSend(content, Anything) = {Words(content)[1]}
  <2>1. Extracted(Words(content)[1]) = Words(content)[1]
    BY <1>1, <1>2, LimitsOfInt, ExtractedNumber
  <2> QED BY <1>1, <2>1 DEF MessageToSend
<1>4. Len(ProposalsLattice(content)) = Words(content)[1]
  BY <1>1 DEF ProposalsLattice
<1> QED BY <1>1, <1>3, <1>4

\* message_to_send is an int, whatever the file.
LEMMA RoundsAreInt ==
  ASSUME NEW content \in Seq(Seq(Word))
  PROVE  MessageToSend(content, Anything) \subseteq Int
<1>1. CASE Words(content) = <<>>
  BY <1>1, AnythingAssumption DEF MessageToSend
<1>2. CASE Words(content) # <<>>
  <2>1. 1 \in 1 .. Len(Words(content))
    BY <1>2, WordsType, EmptySeq
  <2>2. Words(content)[1] \in Word
    BY <2>1, WordsType, ElementOfSeq
  <2>3. Extracted(Words(content)[1]) \in Int
    BY <2>2, LimitsOfInt DEF Extracted, Word
  <2> QED BY <1>2, <2>3 DEF MessageToSend
<1> QED BY <1>1, <1>2

-----------------------------------------------------------------------------
(* The lines of the configuration.                                         *)

\* The words before a line, one line after the other.
LEMMA BeforeStep ==
  ASSUME NEW content \in Seq(Seq(Word)), NEW i \in 1 .. Len(content)
  PROVE  /\ content[i] \in Seq(Word) /\ Len(content[i]) \in Nat
         /\ Before(content, i) \in Nat
         /\ Before(content, i + 1) = Before(content, i) + Len(content[i])
<1> DEFINE before == FlattenSeq(SubSeq(content, 1, i - 1))
<1>1. content[i] \in Seq(Word) /\ Len(content) \in Nat
  BY ElementOfSeq, LenProperties
<1>2. before \in Seq(Word) /\ FlattenSeq(SubSeq(content, 1, i)) = before \o content[i]
  BY FlattenPrefix
<1>3. (i + 1) - 1 = i
  BY <1>1
<1>4. Before(content, i) = Len(before) /\ Before(content, i + 1) = Len(before \o content[i])
  BY <1>2, <1>3 DEF Before, Words
<1> HIDE DEF before
<1> QED BY <1>1, <1>2, <1>4, LenProperties, ConcatProperties

LEMMA BeforeEnds ==
  ASSUME NEW content \in Seq(Seq(Word))
  PROVE  /\ Before(content, 1) = 0
         /\ Before(content, Len(content) + 1) = Len(Words(content))
<1>1. Len(content) \in Nat
  BY LenProperties
<1>2. 1 - 1 = 0 /\ (Len(content) + 1) - 1 = Len(content)
  BY <1>1
<1>3. SubSeq(content, 1, 0) = <<>>
  BY SubSeqEmpty
<1>4. SubSeq(content, 1, Len(content)) = content
  BY SubSeqFull
<1>5. Len(<<>>) = 0
  BY EmptySeq
<1> QED BY <1>2, <1>3, <1>4, <1>5, FlattenEmpty DEF Before, Words

\* What is left of the lines behind the first n words.
LEMMA AfterType ==
  ASSUME NEW content \in Seq(Seq(Word)), NEW n \in Nat
  PROVE  /\ After(content, n) \in Seq(Seq(Word))
         /\ Len(After(content, n)) = Len(content)
         /\ \A i \in 1 .. Len(content) :
              After(content, n)[i] =
                IF Before(content, i) >= n THEN content[i]
                  ELSE SubSeq(content[i], n - Before(content, i) + 1, Len(content[i]))
<1> DEFINE rest == [i \in 1 .. Len(content) |->
                      IF Before(content, i) >= n THEN content[i]
                        ELSE SubSeq(content[i], n - Before(content, i) + 1, Len(content[i]))]
<1>1. Len(content) \in Nat
  BY LenProperties
<1>2. ASSUME NEW i \in 1 .. Len(content) PROVE rest[i] \in Seq(Word)
  <2>1. content[i] \in Seq(Word) /\ Len(content[i]) \in Nat /\ Before(content, i) \in Nat
    BY BeforeStep
  <2>2. CASE Before(content, i) >= n
    BY <2>1, <2>2
  <2>3. CASE ~(Before(content, i) >= n)
    <3> DEFINE j == n - Before(content, i) + 1
    <3>1. j \in Int /\ j >= 1
      BY <2>1, <2>3
    <3> HIDE DEF j
    <3>2. \A k \in j .. Len(content[i]) : k \in 1 .. Len(content[i])
      BY <2>1, <3>1
    <3>3. \A k \in j .. Len(content[i]) : content[i][k] \in Word
      BY <2>1, <3>2, ElementOfSeq
    <3>4. SubSeq(content[i], j, Len(content[i])) \in Seq(Word)
      BY <2>1, <3>1, <3>3, SubSeqProperties
    <3> QED BY <2>3, <3>4 DEF j
  <2> QED BY <2>2, <2>3
<1>3. rest = After(content, n) /\ DOMAIN rest = 1 .. Len(content)
  BY DEF After
<1>4. rest \in [1 .. Len(content) -> Seq(Word)]
  BY <1>2
<1>5. \A i \in 1 .. Len(content) :
        rest[i] = IF Before(content, i) >= n THEN content[i]
                    ELSE SubSeq(content[i], n - Before(content, i) + 1, Len(content[i]))
  OBVIOUS
<1> HIDE DEF rest
<1>6. rest \in Seq(Seq(Word)) /\ Len(rest) = Len(content)
  <2>1. rest \in Seq(Seq(Word))
    <3> DEFINE S == Seq(Word)
               size == Len(content)
    <3>1. size \in Nat /\ rest \in [1 .. size -> S]
      BY <1>1, <1>4
    <3> HIDE DEF S, size
    <3>2. rest \in Seq(S)
      BY <3>1
    <3> QED BY <3>2 DEF S
  <2>2. Len(rest) \in Nat /\ 1 .. Len(rest) = 1 .. Len(content)
    BY <1>3, <2>1, LenProperties
  <2> QED BY <1>1, <2>1, <2>2
<1> QED BY <1>3, <1>5, <1>6

\* What NonBlank computes on the way.
IsKept(kept, lines) ==
  /\ kept[0] = <<>>
  /\ \A i \in 1 .. Len(lines) :
       kept[i] = IF lines[i] = <<>> THEN kept[i - 1] ELSE Append(kept[i - 1], lines[i])

LEMMA NonBlankDef ==
  ASSUME NEW A, NEW lines \in Seq(Seq(A))
  PROVE  \E kept \in [0 .. Len(lines) -> Seq(Seq(A))] :
           IsKept(kept, lines) /\ NonBlank(lines) = kept[Len(lines)]
<1> DEFINE n == Len(lines)
           S == Seq(Seq(A))
           start == <<>>
           step == [i \in 1 .. n |-> [s \in S |-> IF lines[i] = <<>> THEN s
                                                    ELSE Append(s, lines[i])]]
           Def(f) == [i \in 0 .. n |->
                        IF i = 0 THEN <<>>
                        ELSE IF lines[i] = <<>> THEN f[i - 1] ELSE Append(f[i - 1], lines[i])]
           g == CHOOSE f : f = Def(f)
<1>1. n \in Nat /\ start \in S /\ \A i \in 1 .. n : lines[i] \in Seq(A)
  BY LenProperties, ElementOfSeq, EmptySeq
<1>2. \A i \in 1 .. n : \A s \in S : step[i][s] \in S
  BY <1>1, AppendProperties
<1> HIDE DEF n, step
<1>3. PICK f : IsStepwise(f, n, S, start, step)
  <2> HIDE DEF S, start
  <2> QED BY <1>1, <1>2, StepwiseFunction
<1>4. f \in [0 .. n -> S] /\ f[0] = <<>> /\ \A i \in 1 .. n : f[i] = step[i][f[i - 1]]
  BY <1>3 DEF IsStepwise
<1>5. ASSUME NEW i \in 1 .. n
      PROVE  f[i] = IF lines[i] = <<>> THEN f[i - 1] ELSE Append(f[i - 1], lines[i])
  <2>1. f[i - 1] \in S
    BY <1>1, <1>4
  <2> QED BY <1>4, <2>1 DEF step
<1>6. f = Def(f)
  <2>1. \A i \in 0 .. n : i = 0 \/ i \in 1 .. n
    BY <1>1
  <2>2. \A i \in 0 .. n :
          f[i] = IF i = 0 THEN <<>>
                 ELSE IF lines[i] = <<>> THEN f[i - 1] ELSE Append(f[i - 1], lines[i])
    BY <1>1, <1>4, <1>5, <2>1
  <2> QED BY <1>4, <2>2
<1> HIDE DEF Def
<1>7. g = Def(g)
  BY <1>6, Zenon
<1>8. NonBlank(lines) = g[n]
  BY Zenon DEF NonBlank, Def, n
<1> HIDE DEF g
<1>9. g[0] = <<>> /\ IsKept(g, lines)
  <2>1. 0 \in 0 .. n /\ \A i \in 1 .. n : i \in 0 .. n /\ i # 0
    BY <1>1
  <2>2. \A i \in 0 .. n :
          g[i] = IF i = 0 THEN <<>>
                 ELSE IF lines[i] = <<>> THEN g[i - 1] ELSE Append(g[i - 1], lines[i])
    BY <1>7 DEF Def
  <2> QED BY <2>1, <2>2 DEF IsKept, n
<1>10. g \in [0 .. n -> S]
  <2> DEFINE T == {i \in 0 .. n : g[i] \in S}
  <2>1. 0 \in T
    <3>1. 0 \in 0 .. n
      BY <1>1
    <3>2. g[0] \in S
      BY <1>9, EmptySeq
    <3> HIDE DEF S
    <3> QED BY <3>1, <3>2
  <2>2. ASSUME NEW i \in 0 .. n - 1, i \in T PROVE i + 1 \in T
    <3>1. i + 1 \in 1 .. n /\ (i + 1) - 1 = i
      BY <1>1
    <3>2. g[i + 1] = IF lines[i + 1] = <<>> THEN g[i] ELSE Append(g[i], lines[i + 1])
      BY <1>9, <3>1 DEF IsKept, n
    <3>3. g[i + 1] \in S
      BY <1>1, <2>2, <3>1, <3>2, AppendProperties
    <3> QED BY <3>1, <3>3
  <2> HIDE DEF T
  <2>3. \A i \in 0 .. n : i \in T
    <3>1. \A i \in 0 .. n - 1 : i \in T => i + 1 \in T
      BY <2>2
    <3> QED BY <1>1, <2>1, <3>1, InductionUpTo
  <2>4. \A i \in 0 .. n : g[i] \in S
    BY <2>3 DEF T
  <2>5. g = [i \in 0 .. n |-> g[i]]
    BY <1>7 DEF Def
  <2> QED BY <2>4, <2>5
<1> QED BY <1>8, <1>9, <1>10 DEF n

\* A proposal is a finite set of numbers, one for each line that was read.
LEMMA ProposalTypes ==
  ASSUME NEW content \in Seq(Seq(Word)), ~AssignThrows(content)
  PROVE  /\ ProposalLines(content) \in Seq(Seq(Word))
         /\ ProposalsLattice(content) \in Seq(SUBSET Int)
<1> DEFINE rest == After(content, HeaderWords)
           lines == ProposalLines(content)
<1>1. lines \in Seq(Seq(Word))
  <2>1. rest \in Seq(Seq(Word))
    BY AfterType DEF HeaderWords
  <2> HIDE DEF rest
  <2>2. PICK kept \in [0 .. Len(rest) -> Seq(Seq(Word))] : NonBlank(rest) = kept[Len(rest)]
    BY <2>1, NonBlankDef
  <2>3. Len(rest) \in 0 .. Len(rest)
    BY <2>1, LenProperties
  <2> QED BY <2>2, <2>3 DEF ProposalLines, rest
<1>2. ASSUME NEW line \in Seq(Word) PROVE NumberSet(line) \in SUBSET Int
  <2> DEFINE k == NumbersRead(line, Len(line))
  <2>1. Len(line) \in Nat
    BY LenProperties
  <2>2. k \in Nat /\ k <= Len(line) /\ \A i \in 1 .. k : IsNumber(line[i])
    BY <2>1, NumbersReadIs
  <2> HIDE DEF k
  <2>3. \A i \in 1 .. k : i \in 1 .. Len(line)
    BY <2>1, <2>2
  <2>4. \A i \in 1 .. k : line[i] \in Int
    BY <2>2, <2>3, ElementOfSeq DEF Word, IsNumber
  <2> QED BY <2>4 DEF NumberSet, k
<1>3. CASE HeaderComplete(content)
  <2> DEFINE n == Words(content)[1]
  <2>1. n \in Nat
    BY <1>3, HeaderNumbers
  <2>2. ASSUME NEW i \in 1 .. n
        PROVE (IF i <= Len(lines) THEN NumberSet(lines[i]) ELSE {}) \in SUBSET Int
    <3>1. CASE i <= Len(lines)
      <4>1. i \in 1 .. Len(lines)
        BY <1>1, <2>1, <3>1, LenProperties
      <4> QED BY <1>1, <1>2, <3>1, <4>1, ElementOfSeq
    <3> QED BY <3>1
  <2> HIDE DEF n, lines
  <2>3. [i \in 1 .. n |-> IF i <= Len(lines) THEN NumberSet(lines[i]) ELSE {}]
          \in Seq(SUBSET Int)
    <3>1. [i \in 1 .. n |-> IF i <= Len(lines) THEN NumberSet(lines[i]) ELSE {}]
            \in [1 .. n -> SUBSET Int]
      BY <2>2
    <3> QED BY <2>1, <3>1, IsASeq
  <2> QED BY <1>1, <1>3, <2>3 DEF ProposalsLattice, n, lines
<1>4. CASE ~HeaderComplete(content)
  BY <1>1, <1>4, EmptySeq DEF ProposalsLattice
<1> QED BY <1>3, <1>4

-----------------------------------------------------------------------------
(* The two readers of the configuration.                                   *)

\* The words before a line only get more from line to line.
LEMMA BeforeGrows ==
  ASSUME NEW content \in Seq(Seq(Word)),
         NEW i \in 1 .. Len(content) + 1, NEW j \in i .. Len(content) + 1
  PROVE  Before(content, i) \in Nat /\ Before(content, j) \in Nat
         /\ Before(content, i) <= Before(content, j)
<1> DEFINE n == Len(content) + 1
           T == {d \in 0 .. n - i : /\ Before(content, i + d) \in Nat
                                    /\ Before(content, i) <= Before(content, i + d)}
<1>1. Len(content) \in Nat /\ Len(Words(content)) \in Nat
  BY LenProperties, WordsType
<1>2. \A k \in 1 .. n : Before(content, k) \in Nat
  <2>1. \A k \in 1 .. n : k \in 1 .. Len(content) \/ k = Len(content) + 1
    BY <1>1
  <2> HIDE DEF n
  <2> QED BY <1>1, <2>1, BeforeStep, BeforeEnds
<1>3. 0 \in T
  BY <1>1, <1>2
<1>4. ASSUME NEW d \in 0 .. (n - i) - 1, d \in T PROVE d + 1 \in T
  <2>1. i + d \in 1 .. Len(content) /\ (i + d) + 1 = i + (d + 1) /\ d + 1 \in 0 .. n - i
    BY <1>1
  <2>2. /\ Before(content, i + (d + 1)) = Before(content, i + d) + Len(content[i + d])
        /\ Len(content[i + d]) \in Nat
    BY <2>1, BeforeStep
  <2>3. Before(content, i) \in Nat /\ Before(content, i + d) \in Nat
        /\ Before(content, i) <= Before(content, i + d)
    BY <1>1, <1>2, <1>4
  <2> QED BY <2>1, <2>2, <2>3
<1>5. \A d \in 0 .. n - i : d \in T
  <2>1. n - i \in Nat
    BY <1>1
  <2> HIDE DEF T, n
  <2> QED BY <1>3, <1>4, <2>1, InductionUpTo
<1>6. j - i \in 0 .. n - i /\ i + (j - i) = j
  BY <1>1
<1>7. i \in 1 .. n /\ j \in 1 .. n
  BY <1>1
<1> HIDE DEF n
<1> QED BY <1>2, <1>5, <1>6, <1>7

\* The header ends in some line.
LEMMA HeaderLineIs ==
  ASSUME NEW content \in Seq(Seq(Word)), HeaderComplete(content)
  PROVE  LET h == HeaderLine(content)
         IN  /\ h \in 1 .. Len(content)
             /\ Before(content, h) < HeaderWords
             /\ Before(content, h + 1) >= HeaderWords
<1> DEFINE n == Len(content)
           T == {i \in 1 .. n : Before(content, i + 1) >= 3}
           Ends(i) == Before(content, i) < HeaderWords /\ Before(content, i + 1) >= HeaderWords
<1>1. n \in Nat /\ Before(content, 1) = 0 /\ Before(content, n + 1) >= 3
  BY LenProperties, BeforeEnds, HeaderNumbers
<1>2. n \in T /\ T \in SUBSET Nat
  <2>1. n # 0
    BY <1>1
  <2> QED BY <1>1, <2>1
<1>3. PICK i \in T : \A j \in T : i <= j
  <2> HIDE DEF T
  <2> QED BY <1>2, SmallestNumber
<1>4. i \in 1 .. n /\ Before(content, i + 1) >= 3
  OBVIOUS
<1>5. Before(content, i) < 3
  <2>1. CASE i = 1
    BY <1>1, <2>1
  <2>2. CASE i # 1
    <3>1. i - 1 \in 1 .. n /\ (i - 1) + 1 = i /\ ~(i <= i - 1)
      BY <1>4, <2>2
    <3>2. i - 1 \notin T
      <4> HIDE DEF T
      <4> QED BY <1>3, <3>1
    <3>3. ~(Before(content, i) >= 3)
      BY <3>1, <3>2
    <3>4. Before(content, i) \in Nat
      BY <1>4, BeforeStep
    <3> QED BY <3>3, <3>4
  <2> QED BY <2>1, <2>2
<1>6. \E k \in 1 .. n : Ends(k)
  BY <1>4, <1>5 DEF HeaderWords
<1>7. HeaderLine(content) = CHOOSE k \in 1 .. n : Ends(k)
  BY DEF HeaderLine
<1> HIDE DEF Ends
<1>8. HeaderLine(content) \in 1 .. n /\ Ends(HeaderLine(content))
  BY <1>6, <1>7, Zenon
<1> QED BY <1>8 DEF Ends

\* In a plain file the header takes up whole lines.
LEMMA PlainAfter ==
  ASSUME NEW content \in Seq(Seq(Word)), IsPlain(content)
  PROVE  LET h == HeaderLine(content)
             rest == After(content, HeaderWords)
         IN  /\ \A i \in 1 .. h : rest[i] = <<>>
             /\ \A i \in h + 1 .. Len(content) : rest[i] = content[i]
<1> DEFINE h == HeaderLine(content)
           n == Len(content)
           rest == After(content, HeaderWords)
<1>1. n \in Nat /\ HeaderWords = 3 /\ 3 \in Nat
  BY LenProperties DEF HeaderWords
<1>2. h \in 1 .. n /\ Before(content, h) < 3 /\ Before(content, h + 1) = 3
  BY HeaderLineIs DEF IsPlain, HeaderWords
<1>3. \A i \in 1 .. n :
        rest[i] = IF Before(content, i) >= 3 THEN content[i]
                    ELSE SubSeq(content[i], 3 - Before(content, i) + 1, Len(content[i]))
  BY <1>1, AfterType
<1> HIDE DEF h, rest
<1>4. ASSUME NEW i \in 1 .. h PROVE rest[i] = <<>>
  <2>1. i \in 1 .. n /\ i \in 1 .. n + 1 /\ h \in i .. n + 1
        /\ i + 1 \in 1 .. n + 1 /\ h + 1 \in i + 1 .. n + 1
    BY <1>1, <1>2
  <2>2. /\ Before(content, i) \in Nat /\ Before(content, h) \in Nat
        /\ Before(content, i) <= Before(content, h)
        /\ Before(content, i + 1) <= Before(content, h + 1)
    BY <2>1, BeforeGrows
  <2>3. /\ Len(content[i]) \in Nat
        /\ Before(content, i + 1) = Before(content, i) + Len(content[i])
    BY <2>1, BeforeStep
  <2>4. /\ Before(content, i) < 3
        /\ Before(content, i) + Len(content[i]) <= 3
    BY <1>2, <2>2, <2>3
  <2>5. Len(content[i]) < 3 - Before(content, i) + 1 /\ ~(Before(content, i) >= 3)
        /\ 3 - Before(content, i) + 1 \in Int /\ Len(content[i]) \in Int
    BY <2>2, <2>3, <2>4
  <2> QED BY <1>3, <2>1, <2>5, SubSeqEmpty
<1>5. ASSUME NEW i \in h + 1 .. n PROVE rest[i] = content[i]
  <2>1. i \in 1 .. n /\ h + 1 \in 1 .. n + 1 /\ i \in h + 1 .. n + 1
    BY <1>1, <1>2
  <2>2. Before(content, i) >= 3
    BY <1>2, <2>1, BeforeGrows
  <2> QED BY <1>3, <2>1, <2>2
<1> QED BY <1>4, <1>5 DEF h, rest

\* The proposal lines of a plain file are the lines behind the header, up to the
\* blank ones at the end.
LEMMA PlainLines ==
  ASSUME NEW content \in Seq(Seq(Word)), IsPlain(content)
  PROVE  \E b \in Nat :
           /\ HeaderLine(content) + b <= Len(content)
           /\ Len(ProposalLines(content)) = b
           /\ \A i \in 1 .. b : ProposalLines(content)[i] = content[HeaderLine(content) + i]
           /\ \A i \in HeaderLine(content) + b + 1 .. Len(content) : content[i] = <<>>
<1> DEFINE h == HeaderLine(content)
           n == Len(content)
           rest == After(content, HeaderWords)
           T == {b \in 0 .. n - h : b = n - h \/ content[h + b + 1] = <<>>}
<1>1. n \in Nat /\ h \in 1 .. n
  BY LenProperties, HeaderLineIs DEF IsPlain
<1>2. rest \in Seq(Seq(Word)) /\ Len(rest) = n
  BY AfterType DEF HeaderWords
<1>3. /\ \A i \in 1 .. h : rest[i] = <<>>
      /\ \A i \in h + 1 .. n : rest[i] = content[i] /\ content[i] \in Seq(Word)
  <2>1. \A i \in h + 1 .. n : i \in 1 .. n
    BY <1>1
  <2> QED BY <2>1, PlainAfter, ElementOfSeq
<1>4. \A i, j \in h + 1 .. n : i < j /\ content[i] = <<>> => content[j] = <<>>
  BY DEF IsPlain
<1> HIDE DEF rest, h
<1>5. PICK b \in T : \A c \in T : b <= c
  <2>1. n - h \in T /\ T \in SUBSET Nat
    BY <1>1
  <2> HIDE DEF T
  <2> QED BY <2>1, SmallestNumber
<1>6. b \in Nat /\ h + b <= n
  BY <1>1
<1>7. ASSUME NEW i \in h + b + 1 .. n PROVE content[i] = <<>>
  <2>1. b # n - h /\ content[h + b + 1] = <<>>
    BY <1>1, <1>5
  <2>2. h + b + 1 \in h + 1 .. n /\ i \in h + 1 .. n
    BY <1>1, <1>6, <2>1
  <2>3. i = h + b + 1 \/ h + b + 1 < i
    BY <1>1, <1>6
  <2> QED BY <1>4, <2>1, <2>2, <2>3
<1>8. ASSUME NEW i \in 1 .. b PROVE content[h + i] # <<>>
  <2>1. i - 1 \in 0 .. n - h /\ i - 1 # n - h /\ h + (i - 1) + 1 = h + i /\ ~(b <= i - 1)
    BY <1>1, <1>6
  <2>2. i - 1 \notin T
    <3> HIDE DEF T
    <3> QED BY <1>5, <2>1
  <2> QED BY <2>1, <2>2
<1> HIDE DEF T
<1>9. PICK kept \in [0 .. n -> Seq(Seq(Word))] :
        IsKept(kept, rest) /\ NonBlank(rest) = kept[n]
  BY <1>2, NonBlankDef
<1>10. /\ kept[0] = <<>>
       /\ \A i \in 1 .. n :
            kept[i] = IF rest[i] = <<>> THEN kept[i - 1] ELSE Append(kept[i - 1], rest[i])
  BY <1>2, <1>9 DEF IsKept
<1>11. kept[h] = <<>>
  <2> DEFINE U == {i \in 0 .. h : kept[i] = <<>>}
  <2>1. 0 \in U
    BY <1>1, <1>10
  <2>2. ASSUME NEW i \in 0 .. h - 1, i \in U PROVE i + 1 \in U
    <3>1. i + 1 \in 1 .. h /\ i + 1 \in 1 .. n /\ (i + 1) - 1 = i /\ i + 1 \in 0 .. h
      BY <1>1
    <3> QED BY <1>3, <1>10, <2>2, <3>1
  <2>3. h \in U
    <3>1. h \in Nat /\ h \in 0 .. h
      BY <1>1
    <3> HIDE DEF U
    <3> QED BY <2>1, <2>2, <3>1, InductionUpTo
  <2> QED BY <2>3
<1>12. Len(kept[h + b]) = b /\ \A i \in 1 .. b : kept[h + b][i] = content[h + i]
  <2> DEFINE U == {m \in 0 .. b : /\ Len(kept[h + m]) = m
                                  /\ \A i \in 1 .. m : kept[h + m][i] = content[h + i]}
  <2>1. 0 \in U
    <3>1. h + 0 = h /\ Len(<<>>) = 0
      BY <1>1, EmptySeq
    <3> QED BY <1>6, <1>11, <3>1
  <2>2. ASSUME NEW m \in 0 .. b - 1, m \in U PROVE m + 1 \in U
    <3>1. /\ h + m + 1 \in 1 .. n /\ h + m + 1 \in h + 1 .. n /\ (h + m + 1) - 1 = h + m
          /\ m + 1 \in 1 .. b /\ h + (m + 1) = h + m + 1 /\ h + m \in 0 .. n
          /\ m + 1 \in 0 .. b
      BY <1>1, <1>6
    <3>2. rest[h + m + 1] = content[h + m + 1] /\ content[h + m + 1] \in Seq(Word)
      BY <1>3, <3>1
    <3>3. content[h + m + 1] # <<>>
      BY <1>8, <3>1
    <3>4. kept[h + m + 1] = Append(kept[h + m], content[h + m + 1])
      BY <1>10, <3>1, <3>2, <3>3
    <3>5. kept[h + m] \in Seq(Seq(Word))
      BY <3>1
    <3>6. Len(kept[h + m]) = m /\ \A i \in 1 .. m : kept[h + m][i] = content[h + i]
      BY <2>2
    <3>7. /\ Len(kept[h + m + 1]) = m + 1
          /\ \A i \in 1 .. m : kept[h + m + 1][i] = kept[h + m][i]
          /\ kept[h + m + 1][m + 1] = content[h + m + 1]
      BY <3>2, <3>4, <3>5, <3>6, AppendProperties
    <3>8. ASSUME NEW i \in 1 .. m + 1 PROVE kept[h + m + 1][i] = content[h + i]
      <4>1. CASE i = m + 1
        BY <3>1, <3>7, <4>1
      <4>2. CASE i # m + 1
        <5>1. i \in 1 .. m
          BY <4>2
        <5> QED BY <3>6, <3>7, <5>1
      <4> QED BY <4>1, <4>2
    <3> QED BY <3>1, <3>7, <3>8
  <2>3. b \in U
    <3>1. b \in 0 .. b
      BY <1>6
    <3> HIDE DEF U
    <3> QED BY <1>6, <2>1, <2>2, <3>1, InductionUpTo
  <2> QED BY <2>3
<1>13. kept[n] = kept[h + b]
  <2> DEFINE r == n - (h + b)
             U == {d \in 0 .. r : kept[h + b + d] = kept[h + b]}
  <2>1. r \in Nat /\ h + b + r = n /\ h + b + 0 = h + b
    BY <1>1, <1>6
  <2>2. 0 \in U
    BY <2>1
  <2>3. ASSUME NEW d \in 0 .. r - 1, d \in U PROVE d + 1 \in U
    <3>1. /\ h + b + d + 1 \in h + b + 1 .. n /\ h + b + d + 1 \in 1 .. n
          /\ h + b + d + 1 \in h + 1 .. n
          /\ (h + b + d + 1) - 1 = h + b + d /\ h + b + (d + 1) = h + b + d + 1
          /\ d + 1 \in 0 .. r
      BY <1>1, <1>6
    <3>2. rest[h + b + d + 1] = <<>>
      BY <1>3, <1>7, <3>1
    <3>3. kept[h + b + d + 1] = kept[h + b + d]
      BY <1>10, <3>1, <3>2
    <3> QED BY <2>3, <3>1, <3>3
  <2>4. r \in U
    <3>1. r \in 0 .. r
      BY <2>1
    <3> HIDE DEF U, r
    <3> QED BY <2>1, <2>2, <2>3, <3>1, InductionUpTo
  <2> QED BY <2>1, <2>4
<1>14. ProposalLines(content) = kept[h + b]
  BY <1>9, <1>13 DEF ProposalLines, rest
<1> QED BY <1>6, <1>7, <1>12, <1>14 DEF h

\* So the two readers read the same.
LEMMA PlainIsReadAlike ==
  ASSUME NEW content \in Seq(Seq(Word)), IsPlain(content), ~AssignThrows(content)
  PROVE  ProposalsLattice(content) = VerifierProposals(content)
<1> DEFINE h == HeaderLine(content)
           n == Len(content)
           w == Words(content)[1]
           lines == ProposalLines(content)
<1>1. HeaderComplete(content) /\ w \in Nat /\ n \in Nat /\ h \in 1 .. n
  BY HeaderNumbers, HeaderLineIs, LenProperties DEF IsPlain
<1>2. PICK b \in Nat : /\ h + b <= n /\ Len(lines) = b
                       /\ \A i \in 1 .. b : lines[i] = content[h + i]
                       /\ \A i \in h + b + 1 .. n : content[i] = <<>>
  BY PlainLines
<1>3. NumberSet(<<>>) = {}
  <2>1. <<>> \in Seq(Word) /\ Len(<<>>) = 0
    BY EmptySeq
  <2>2. NumbersRead(<<>>, 0) \in 0 .. 0
    BY <2>1, NumbersReadIs
  <2> QED BY <2>1, <2>2 DEF NumberSet
<1> HIDE DEF h, n, w, lines
<1>4. ASSUME NEW i \in 1 .. w
      PROVE  (IF i <= Len(lines) THEN NumberSet(lines[i]) ELSE {}) =
             (IF h + i <= n THEN NumberSet(content[h + i]) ELSE {})
  <2>1. CASE i <= b
    <3>1. i \in 1 .. b /\ h + i <= n
      BY <1>1, <1>2, <2>1
    <3> QED BY <1>2, <2>1, <3>1
  <2>2. CASE b < i /\ h + i <= n
    <3>1. h + i \in h + b + 1 .. n /\ ~(i <= b)
      BY <1>1, <1>2, <2>2
    <3> QED BY <1>2, <1>3, <2>2, <3>1
  <2>3. CASE b < i /\ ~(h + i <= n)
    BY <1>1, <1>2, <2>3
  <2> QED BY <1>1, <2>1, <2>2, <2>3
<1>5. [i \in 1 .. w |-> IF i <= Len(lines) THEN NumberSet(lines[i]) ELSE {}] =
      [i \in 1 .. w |-> IF h + i <= n THEN NumberSet(content[h + i]) ELSE {}]
  BY <1>4
<1> QED BY <1>1, <1>5 DEF ProposalsLattice, VerifierProposals, h, n, w, lines

-----------------------------------------------------------------------------
(* The hosts.                                                              *)

Entry == [id : Nat, port : Nat]

\* The sorted hosts are the hosts, each at one place, in the order of their ids.
LEMMA SortedIs ==
  ASSUME NEW entries \in Seq(Entry)
  PROVE  /\ Sorted(entries) \in Seq(Entry)
         /\ Len(Sorted(entries)) = Len(entries)
         /\ \A i \in 1 .. Len(entries) : \E j \in 1 .. Len(entries) : Sorted(entries)[i] = entries[j]
         /\ \A i \in 1 .. Len(entries) - 1 : Sorted(entries)[i].id <= Sorted(entries)[i + 1].id
<1> DEFINE n == Len(entries)
           key == [i \in 1 .. n |-> entries[i].id]
           Orders == {g \in [1 .. n -> 1 .. n] : IsInjective(g)}
           put(f) == [i \in 1 .. n |-> entries[f[i]]]
           Good(s) == \A i \in 1 .. n - 1 : s[i].id <= s[i + 1].id
<1>1. n \in Nat /\ \A i \in 1 .. n : entries[i] \in Entry
  BY LenProperties, ElementOfSeq
<1>2. key \in [1 .. n -> Nat]
  BY <1>1 DEF Entry
<1>3. PICK f : IsOrder(f, n, key)
  <2> HIDE DEF n, key
  <2> QED BY <1>1, <1>2, OrderExists
<1> HIDE DEF n
<1>4. f \in Orders /\ Good(put(f))
  <2>1. f \in [1 .. n -> 1 .. n] /\ \A i \in 1 .. n - 1 : key[f[i]] <= key[f[i + 1]]
    BY <1>3 DEF IsOrder
  <2>2. \A i \in 1 .. n : put(f)[i].id = key[f[i]]
    BY <2>1
  <2>3. \A i \in 1 .. n - 1 : i \in 1 .. n /\ i + 1 \in 1 .. n
    BY <1>1
  <2>4. f \in Orders
    BY <1>3 DEF IsOrder
  <2> HIDE DEF put, key, Orders
  <2> QED BY <2>1, <2>2, <2>3, <2>4
<1>5. Sorted(entries) = CHOOSE s \in {put(g) : g \in Orders} : Good(s)
  BY DEF Sorted, n
<1> HIDE DEF Good
<1>6. Sorted(entries) \in {put(g) : g \in Orders} /\ Good(Sorted(entries))
  <2>1. \E s \in {put(g) : g \in Orders} : Good(s)
    BY <1>4
  <2> HIDE DEF put, Orders
  <2> QED BY <1>5, <2>1, Zenon
<1>7. PICK g \in Orders : Sorted(entries) = put(g)
  BY <1>6
<1>8. g \in [1 .. n -> 1 .. n]
  OBVIOUS
<1>9. Sorted(entries) \in [1 .. n -> Entry]
  BY <1>1, <1>7, <1>8
<1>10. Sorted(entries) \in Seq(Entry)
  BY <1>1, <1>9
<1>11. Len(Sorted(entries)) = n
  <2>1. Len(Sorted(entries)) \in Nat /\ 1 .. Len(Sorted(entries)) = 1 .. n
    BY <1>9, <1>10, LenProperties
  <2> QED BY <1>1, <2>1
<1>12. \A i \in 1 .. n : \E j \in 1 .. n : Sorted(entries)[i] = entries[j]
  BY <1>7, <1>8
<1> QED BY <1>6, <1>10, <1>11, <1>12 DEF Good, n

\* Numbers from 1 to n that increase are all of them.
LEMMA IncreasingIsIdentity ==
  ASSUME NEW n \in Nat, NEW s \in [1 .. n -> 1 .. n],
         \A i \in 1 .. n - 1 : s[i] < s[i + 1]
  PROVE  \A i \in 1 .. n : s[i] = i
<1> DEFINE Low == {i \in 0 .. n : i = 0 \/ s[i] >= i}
           High == {j \in 0 .. n : j = n \/ s[n - j] <= n - j}
<1>1. \A i \in 0 .. n : i \in Low
  <2>1. 0 \in Low
    OBVIOUS
  <2>2. ASSUME NEW i \in 0 .. n - 1, i \in Low PROVE i + 1 \in Low
    <3>1. i + 1 \in 0 .. n /\ s[i + 1] \in 1 .. n
      OBVIOUS
    <3>2. s[i + 1] >= i + 1
      <4>1. CASE i = 0
        BY <3>1, <4>1
      <4>2. CASE i # 0
        <5>1. i \in 1 .. n - 1 /\ s[i] >= i /\ s[i] \in 1 .. n
          BY <2>2, <4>2
        <5> QED BY <3>1, <5>1
      <4> QED BY <4>1, <4>2
    <3> QED BY <3>1, <3>2
  <2> HIDE DEF Low
  <2> QED BY <2>1, <2>2, InductionUpTo
<1>2. \A j \in 0 .. n : j \in High
  <2>1. 0 \in High
    BY DEF High
  <2>2. ASSUME NEW j \in 0 .. n - 1, j \in High PROVE j + 1 \in High
    <3>1. j + 1 \in 0 .. n
      OBVIOUS
    <3>2. CASE j + 1 = n
      BY <3>1, <3>2
    <3>3. CASE j + 1 # n
      <4>1. n - (j + 1) \in 1 .. n - 1 /\ n - (j + 1) + 1 = n - j /\ n - j \in 1 .. n
        BY <3>3
      <4>2. s[n - (j + 1)] < s[n - j] /\ s[n - j] <= n - j
        BY <2>2, <4>1
      <4>3. s[n - (j + 1)] \in 1 .. n /\ s[n - j] \in 1 .. n
        BY <4>1
      <4>4. s[n - (j + 1)] <= n - (j + 1)
        BY <4>2, <4>3
      <4> QED BY <3>1, <4>4
    <3> QED BY <3>2, <3>3
  <2> HIDE DEF High
  <2> QED BY <2>1, <2>2, InductionUpTo
<1>3. ASSUME NEW i \in 1 .. n PROVE s[i] = i
  <2>1. s[i] >= i
    BY <1>1
  <2>2. n - i \in 0 .. n /\ n - i # n /\ n - (n - i) = i
    OBVIOUS
  <2>3. s[i] <= i
    BY <1>2, <2>2
  <2> QED BY <2>1, <2>3
<1> QED BY <1>3

\* A hosts file that is accepted has nothing but entries.
LEMMA AcceptedHosts ==
  ASSUME NEW entries \in HostsFiles, HostsAccepted(entries)
  PROVE  entries \in Seq(Entry)
<1>1. entries \in Seq(Entry \cup {Junk})
  BY HostsAssumption DEF HostsAccepted, Entry
<1>2. Len(entries) \in Nat /\ entries \in [1 .. Len(entries) -> Entry \cup {Junk}]
  BY <1>1, LenProperties
<1>3. entries \in [1 .. Len(entries) -> Entry]
  <2>1. \A i \in 1 .. Len(entries) : entries[i] # Junk
    BY DEF HostsAccepted, IsEntry
  <2> QED BY <1>2, <2>1
<1> DEFINE n == Len(entries)
<1>4. n \in Nat /\ entries \in [1 .. n -> Entry]
  BY <1>2, <1>3
<1> HIDE DEF n
<1> QED BY <1>4

\* When no id is there twice, entry i of the sorted hosts is that of host i.
LEMMA CompactHosts ==
  ASSUME NEW entries \in HostsFiles, HostsAccepted(entries),
         IsInjective([i \in 1 .. Len(Sorted(entries)) |-> Sorted(entries)[i].id])
  PROVE  \A i \in 1 .. Len(Sorted(entries)) : Sorted(entries)[i].id = i
<1> DEFINE n == Len(entries)
           s == Sorted(entries)
           ids == [i \in 1 .. n |-> s[i].id]
<1>1. entries \in Seq(Entry)
  BY AcceptedHosts
<1>2. /\ s \in Seq(Entry) /\ Len(s) = n /\ n \in Nat
      /\ \A i \in 1 .. n : \E j \in 1 .. n : s[i] = entries[j]
      /\ \A i \in 1 .. n - 1 : s[i].id <= s[i + 1].id
  BY <1>1, SortedIs, LenProperties
<1>3. \A j \in 1 .. n : entries[j].id \in Nat /\ 1 <= entries[j].id /\ entries[j].id <= n
  <2>1. \A j \in 1 .. n : entries[j] \in Entry
    BY <1>1, ElementOfSeq
  <2> QED BY <2>1 DEF HostsAccepted, Compact, Ids, Entry
<1>4. IsInjective(ids)
  BY <1>2
<1> HIDE DEF s, n
<1>5. ids \in [1 .. n -> 1 .. n]
  <2>1. ASSUME NEW i \in 1 .. n PROVE s[i].id \in 1 .. n
    <3>1. PICK j \in 1 .. n : s[i] = entries[j]
      BY <1>2
    <3>2. entries[j].id \in Nat /\ 1 <= entries[j].id /\ entries[j].id <= n
      BY <1>3
    <3>3. entries[j].id \in 1 .. n
      <4>1. n \in Nat
        BY <1>2
      <4> QED BY <3>2, <4>1
    <3> QED BY <3>1, <3>3
  <2> QED BY <2>1
<1>6. \A i \in 1 .. n - 1 : ids[i] < ids[i + 1]
  <2>1. \A i \in 1 .. n - 1 : i \in 1 .. n /\ i + 1 \in 1 .. n /\ i # i + 1
    BY <1>2
  <2>2. \A i \in 1 .. n - 1 : ids[i] <= ids[i + 1]
    BY <1>2, <2>1
  <2>3. \A i \in 1 .. n - 1 : ids[i] # ids[i + 1]
    <3>1. \A i, j \in 1 .. n : ids[i] = ids[j] => i = j
      <4>1. DOMAIN ids = 1 .. n
        OBVIOUS
      <4> HIDE DEF ids
      <4> QED BY <1>4, <4>1 DEF IsInjective
    <3> HIDE DEF ids
    <3> QED BY <2>1, <3>1
  <2> HIDE DEF ids
  <2>4. \A i \in 1 .. n - 1 : ids[i] \in Nat /\ ids[i + 1] \in Nat
    BY <1>5, <2>1
  <2> QED BY <2>2, <2>3, <2>4
<1>7. \A i \in 1 .. n : ids[i] = i
  <2> HIDE DEF ids
  <2> QED BY <1>2, <1>5, <1>6, IncreasingIsIdentity
<1> QED BY <1>2, <1>7 DEF s

-----------------------------------------------------------------------------
(* What a process has done on its way to where it is.                      *)

\* The types of the state.
TypeInv ==
  /\ args \in [Proc -> Start]
  /\ hostsFile \in HostsFiles
  /\ pc \in [Proc -> Going \cup Ended]
  /\ addr \in [Proc -> {<<>>, Sorted(hostsFile)}]
  /\ message_to_send \in [Proc -> Int]
  /\ proposals_lattice \in [Proc -> Seq(SUBSET Int)]
  /\ round_num \in [Proc -> Nat]
  /\ file \in [OutputPaths -> Seq(Proc \X Nat)]

\* Nothing is read from a command line before it is accepted, and so on: each
\* step of main relies on the ones before.
ParsedInv ==
  \A p \in Proc :
    pc[p] \in {"hosts", "clear", "config", "bind", "run", "idle", "undefined"} =>
      Accepted(args[p])
HostsInv ==
  \A p \in Proc : pc[p] \in {"clear", "config", "bind", "run", "idle", "undefined"} =>
    HostsAccepted(hostsFile)
ConfigInv ==
  \A p \in Proc : pc[p] \in {"bind", "run", "idle", "undefined"} =>
    /\ Config(p) # NoFile /\ ~AssignThrows(Config(p))
    /\ message_to_send[p] \in MessageToSend(Config(p), Anything)
    /\ proposals_lattice[p] = ProposalsLattice(Config(p))
BoundInv ==
  \A p \in Proc :
    /\ pc[p] \in {"run", "idle", "undefined"} => addr[p] = Sorted(hostsFile)
    /\ Bound(p) => EmId(p) \in 0 .. Len(addr[p])

PathInv == TypeInv /\ ParsedInv /\ HostsInv /\ ConfigInv /\ BoundInv

LEMMA PathInit == Init => PathInv
<1> SUFFICES ASSUME Init PROVE PathInv
  OBVIOUS
<1>1. /\ file \in [OutputPaths -> Seq(Proc \X Nat)]
      /\ proposals_lattice \in [Proc -> Seq(SUBSET Int)]
  BY EmptySeq DEF Init
<1>2. TypeInv
  BY <1>1 DEF Init, TypeInv, Going
<1> QED BY <1>2 DEF Init, PathInv, ParsedInv, HostsInv, ConfigInv, BoundInv, Bound

\* The output file and the configuration that an accepted command line names.
LEMMA AcceptedTypes ==
  ASSUME TypeInv, NEW p \in Proc, Accepted(args[p])
  PROVE  /\ OutputPath(p) \in OutputPaths
         /\ Config(p) = NoFile \/ Config(p) \in Seq(Seq(Word))
<1>1. args[p] \in Start
  BY DEF TypeInv
<1>2. OutputPath(p) \in OutputPaths
  BY <1>1 DEF OutputPaths, OutputPath
<1>3. Config(p) = NoFile \/ Config(p) \in Seq(Seq(Word))
  BY <1>1, StartAssumption DEF Accepted, ParseConfigPath, Config, Word
<1> QED BY <1>2, <1>3

LEMMA PathNext == PathInv /\ [Next]_vars => PathInv'
<1> SUFFICES ASSUME PathInv, [Next]_vars PROVE PathInv'
  OBVIOUS
<1> USE DEF PathInv
<1>0. ASSUME NEW p \in Proc, NEW to \in Going \cup Ended, Goes(p, pc[p], to)
      PROVE  pc' \in [Proc -> Going \cup Ended]
  BY <1>0 DEF Goes, TypeInv
<1>1. ASSUME NEW p \in Proc, Parse(p) PROVE PathInv'
  <2>1. /\ pc' = [pc EXCEPT ![p] = IF Accepted(args[p]) THEN "hosts" ELSE "failure"]
        /\ UNCHANGED <<inputVars, addr, configVars, round_num, file>>
    BY <1>1 DEF Parse, Goes
  <2>2. TypeInv'
    BY <2>1 DEF TypeInv, inputVars, configVars, Going, Ended, OutputPaths
  <2>3. ParsedInv' /\ HostsInv' /\ ConfigInv' /\ BoundInv'
    BY <2>1 DEF TypeInv, ParsedInv, HostsInv, ConfigInv, BoundInv, inputVars, configVars,
                Config, Bound, EmId
  <2> QED BY <2>2, <2>3
<1>2. ASSUME NEW p \in Proc, ReadHosts(p) PROVE PathInv'
  <2>1. /\ pc[p] = "hosts"
        /\ pc' = [pc EXCEPT ![p] = IF HostsAccepted(hostsFile) THEN "clear" ELSE "abort"]
        /\ UNCHANGED <<inputVars, addr, configVars, round_num, file>>
    BY <1>2 DEF ReadHosts, Goes
  <2>2. TypeInv'
    BY <2>1 DEF TypeInv, inputVars, configVars, Going, Ended, OutputPaths
  <2>3. ParsedInv' /\ HostsInv' /\ ConfigInv' /\ BoundInv'
    BY <2>1 DEF TypeInv, ParsedInv, HostsInv, ConfigInv, BoundInv, inputVars, configVars,
                Config, Bound, EmId
  <2> QED BY <2>2, <2>3
<1>3. ASSUME NEW p \in Proc, ClearOutputFile(p) PROVE PathInv'
  <2>1. /\ pc[p] = "clear"
        /\ pc' = [pc EXCEPT ![p] = "config"]
        /\ file' = Cleared(p)
        /\ UNCHANGED <<inputVars, addr, configVars, round_num>>
    BY <1>3 DEF ClearOutputFile, Goes
  <2>2. file' \in [OutputPaths -> Seq(Proc \X Nat)]
    BY <2>1, EmptySeq DEF Cleared, TypeInv
  <2>3. TypeInv'
    BY <2>1, <2>2 DEF TypeInv, inputVars, configVars, Going, Ended, OutputPaths
  <2>4. ParsedInv' /\ HostsInv' /\ ConfigInv' /\ BoundInv'
    BY <2>1 DEF TypeInv, ParsedInv, HostsInv, ConfigInv, BoundInv, inputVars, configVars,
                Config, Bound, EmId
  <2> QED BY <2>3, <2>4
<1>4. ASSUME NEW p \in Proc, Configure(p) PROVE PathInv'
  <2>1. pc[p] = "config" /\ Accepted(args[p])
    BY <1>4 DEF Configure, Goes, ParsedInv
  <2>2. CASE Config(p) = NoFile \/ AssignThrows(Config(p))
    <3>1. /\ pc' = [pc EXCEPT ![p] = "abort"]
          /\ UNCHANGED <<inputVars, addr, proposals_lattice, round_num, file>>
          /\ \/ message_to_send' = message_to_send
             \/ /\ Config(p) # NoFile /\ AssignThrows(Config(p))
                /\ message_to_send' = [message_to_send EXCEPT ![p] = Words(Config(p))[1]]
      BY <1>4, <2>2 DEF Configure, Goes, configVars
    <3>a. message_to_send' \in [Proc -> Int]
      <4>1. ASSUME Config(p) # NoFile, AssignThrows(Config(p))
            PROVE  Words(Config(p))[1] \in Int
        BY <2>1, <4>1, AcceptedTypes, HeaderNumbers DEF AssignThrows
      <4> QED BY <3>1, <4>1 DEF TypeInv
    <3>2. TypeInv'
      BY <3>1, <3>a DEF TypeInv, inputVars, Going, Ended, OutputPaths
    <3>3. ParsedInv' /\ HostsInv' /\ ConfigInv' /\ BoundInv'
      BY <2>1, <3>1 DEF TypeInv, ParsedInv, HostsInv, ConfigInv, BoundInv, inputVars,
                        Config, Bound, EmId
    <3> QED BY <3>2, <3>3
  <2>3. CASE Config(p) # NoFile /\ ~AssignThrows(Config(p))
    <3>1. /\ pc' = [pc EXCEPT ![p] = "bind"]
          /\ \E n \in MessageToSend(Config(p), Anything) :
               message_to_send' = [message_to_send EXCEPT ![p] = n]
          /\ proposals_lattice' =
               [proposals_lattice EXCEPT ![p] = ProposalsLattice(Config(p))]
          /\ UNCHANGED <<inputVars, addr, round_num, file>>
      BY <1>4, <2>3 DEF Configure, Goes
    <3>2. PICK n \in MessageToSend(Config(p), Anything) :
            message_to_send' = [message_to_send EXCEPT ![p] = n]
      BY <3>1
    <3>3. n \in Int
      BY <2>1, <2>3, AcceptedTypes, RoundsAreInt
    <3>4. TypeInv'
      <4>1. message_to_send' \in [Proc -> Int]
        BY <3>2, <3>3 DEF TypeInv
      <4>2. ProposalsLattice(Config(p)) \in Seq(SUBSET Int)
        BY <2>1, <2>3, AcceptedTypes, ProposalTypes
      <4>3. proposals_lattice' \in [Proc -> Seq(SUBSET Int)]
        BY <3>1, <4>2 DEF TypeInv
      <4> QED BY <3>1, <4>1, <4>3 DEF TypeInv, inputVars, Going, Ended, OutputPaths
    <3>5. ConfigInv'
      BY <2>3, <3>1, <3>2 DEF TypeInv, ConfigInv, inputVars, Config
    <3>6. ParsedInv' /\ HostsInv' /\ BoundInv'
      BY <2>1, <3>1 DEF TypeInv, ParsedInv, HostsInv, BoundInv, inputVars, Bound, EmId
    <3> QED BY <3>4, <3>5, <3>6
  <2> QED BY <2>2, <2>3
<1>5. ASSUME NEW p \in Proc, Bind(p) PROVE PathInv'
  <2>1. /\ pc[p] = "bind"
        /\ addr' = [addr EXCEPT ![p] = Sorted(hostsFile)]
        /\ UNCHANGED <<inputVars, configVars, round_num, file>>
    BY <1>5 DEF Bind
  <2>2. PICK to \in {"run", "success", "undefined"} :
          /\ pc' = [pc EXCEPT ![p] = to]
          /\ to = "run" => EmId(p) \in 0 .. Len(addr'[p])
    BY <1>5 DEF Bind, Goes
  <2>3. addr'[p] = Sorted(hostsFile)
    BY <2>1 DEF TypeInv
  <2>4. TypeInv'
    <3>1. pc' \in [Proc -> Going \cup Ended]
      BY <2>2 DEF TypeInv, Going, Ended
    <3>2. addr' \in [Proc -> {<<>>, Sorted(hostsFile)}]
      BY <2>1 DEF TypeInv
    <3>3. /\ args' = args /\ hostsFile' = hostsFile /\ message_to_send' = message_to_send
          /\ proposals_lattice' = proposals_lattice /\ round_num' = round_num /\ file' = file
      BY <2>1 DEF inputVars, configVars
    <3> QED BY <3>1, <3>2, <3>3 DEF TypeInv, OutputPaths
  <2>5. ParsedInv' /\ HostsInv' /\ ConfigInv'
    BY <2>1, <2>2 DEF TypeInv, ParsedInv, HostsInv, ConfigInv, inputVars, configVars, Config
  <2>6. BoundInv'
    BY <2>1, <2>2, <2>3 DEF TypeInv, BoundInv, inputVars, Bound, EmId
  <2> QED BY <2>4, <2>5, <2>6
<1>6. ASSUME NEW p \in Proc, Round(p) PROVE PathInv'
  <2>1. /\ pc[p] = "run"
        /\ UNCHANGED <<inputVars, addr, configVars>>
        /\ \/ pc' = [pc EXCEPT ![p] = "undefined"] /\ UNCHANGED <<round_num, file>>
           \/ /\ pc' = [pc EXCEPT ![p] = "run"]
              /\ file' = Appended(p)
              /\ round_num' = [round_num EXCEPT ![p] = @ + 1]
    BY <1>6 DEF Round, Goes
  <2>2. file' \in [OutputPaths -> Seq(Proc \X Nat)]
    <3>1. OutputPath(p) \in OutputPaths
      BY <2>1, AcceptedTypes DEF ParsedInv
    <3>2. <<p, round_num[p]>> \in Proc \X Nat /\ file[OutputPath(p)] \in Seq(Proc \X Nat)
      BY <3>1 DEF TypeInv
    <3>3. Append(file[OutputPath(p)], <<p, round_num[p]>>) \in Seq(Proc \X Nat)
      BY <3>2, AppendProperties
    <3> QED BY <2>1, <3>3 DEF Appended, TypeInv
  <2>3. PICK to \in {"run", "undefined"} : pc' = [pc EXCEPT ![p] = to]
    BY <2>1
  <2>4. TypeInv'
    <3>1. pc' \in [Proc -> Going \cup Ended]
      BY <2>3 DEF TypeInv, Going, Ended
    <3>2. round_num' \in [Proc -> Nat]
      <4>1. round_num \in [Proc -> Nat]
        BY DEF TypeInv
      <4>2. \/ round_num' = round_num
            \/ round_num' = [round_num EXCEPT ![p] = round_num[p] + 1]
        BY <2>1
      <4> QED BY <4>1, <4>2
    <3>3. /\ args' = args /\ hostsFile' = hostsFile /\ message_to_send' = message_to_send
          /\ proposals_lattice' = proposals_lattice /\ addr' = addr
      BY <2>1 DEF inputVars, configVars
    <3> QED BY <2>2, <3>1, <3>2, <3>3 DEF TypeInv, OutputPaths
  <2>5. ParsedInv' /\ HostsInv' /\ ConfigInv' /\ BoundInv'
    BY <2>1, <2>3 DEF TypeInv, ParsedInv, HostsInv, ConfigInv, BoundInv, inputVars, configVars,
                Config, Bound, EmId
  <2> QED BY <2>4, <2>5
<1>7. ASSUME NEW p \in Proc, Finish(p) PROVE PathInv'
  <2>1. /\ pc[p] = "run" /\ pc' = [pc EXCEPT ![p] = "idle"]
        /\ UNCHANGED <<inputVars, addr, configVars, round_num, file>>
    BY <1>7 DEF Finish, Goes
  <2>2. TypeInv'
    BY <2>1 DEF TypeInv, inputVars, configVars, Going, Ended, OutputPaths
  <2>3. ParsedInv' /\ HostsInv' /\ ConfigInv' /\ BoundInv'
    BY <2>1 DEF TypeInv, ParsedInv, HostsInv, ConfigInv, BoundInv, inputVars, configVars,
                Config, Bound, EmId
  <2> QED BY <2>2, <2>3
<1>8. ASSUME NEW p \in Proc, Stop(p) PROVE PathInv'
  <2>1. /\ pc' = [pc EXCEPT ![p] = "success"]
        /\ UNCHANGED <<inputVars, addr, configVars, round_num, file>>
    BY <1>8 DEF Stop
  <2>2. TypeInv'
    BY <2>1 DEF TypeInv, inputVars, configVars, Going, Ended, OutputPaths
  <2>3. ParsedInv' /\ HostsInv' /\ ConfigInv' /\ BoundInv'
    BY <2>1 DEF TypeInv, ParsedInv, HostsInv, ConfigInv, BoundInv, inputVars, configVars,
                Config, Bound, EmId
  <2> QED BY <2>2, <2>3
<1>9. CASE UNCHANGED vars
  <2>1. TypeInv'
    BY <1>9 DEF vars, TypeInv, inputVars, configVars, OutputPaths
  <2>2. ParsedInv' /\ HostsInv' /\ ConfigInv' /\ BoundInv'
    BY <1>9 DEF vars, ParsedInv, HostsInv, ConfigInv, BoundInv, inputVars, configVars,
                Config, Bound, EmId
  <2> QED BY <2>1, <2>2
<1> QED BY <1>1, <1>2, <1>3, <1>4, <1>5, <1>6, <1>7, <1>8, <1>9 DEF Next

-----------------------------------------------------------------------------
(* What a step does, as far as the properties below see it.                *)

\* Where a process may be that has written a line.
Written == {"run", "idle", "success", "undefined"}

\* All but p stay as they are, and so do the inputs.
OthersStay(p) ==
  /\ UNCHANGED inputVars
  /\ \A q \in Proc \ {p} : /\ pc'[q] = pc[q]
                           /\ addr'[q] = addr[q]
                           /\ round_num'[q] = round_num[q]

\* A step in which p neither clears its file, nor binds, nor writes.
Walks(p) ==
  /\ UNCHANGED <<addr, round_num, file>>
  /\ pc'[p] \in {"run", "idle"} => Bound(p)
  /\ pc[p] \in Written => pc'[p] \in Written
  /\ pc'[p] = "undefined" =>
       /\ pc[p] = "run" /\ OutOfRange(p)
       /\ round_num[p] < message_to_send[p]

Clears(p) ==
  /\ pc[p] = "clear" /\ pc'[p] = "config"
  /\ file' = Cleared(p)
  /\ UNCHANGED <<addr, round_num>>

Binds(p) ==
  /\ pc[p] = "bind"
  /\ addr'[p] = Sorted(hostsFile)
  /\ \/ pc'[p] = "undefined" /\ EmId(p) \notin 0 .. Len(addr'[p])
     \/ /\ pc'[p] = "run"
        /\ EmId(p) \in 0 .. Len(addr'[p])
        /\ PortIsFree(p, Port(addr'[p], EmId(p)))
     \/ pc'[p] = "success"
  /\ UNCHANGED <<round_num, file>>

Writes(p) ==
  /\ pc[p] = "run" /\ pc'[p] = "run"
  /\ file' = Appended(p)
  /\ round_num'[p] = round_num[p] + 1
  /\ UNCHANGED addr

LEMMA StepOfOne ==
  PathInv /\ Next =>
    \E p \in Proc : OthersStay(p) /\ (Walks(p) \/ Clears(p) \/ Binds(p) \/ Writes(p))
<1> SUFFICES ASSUME PathInv, Next
             PROVE  \E p \in Proc : /\ OthersStay(p)
                                    /\ Walks(p) \/ Clears(p) \/ Binds(p) \/ Writes(p)
  OBVIOUS
<1>0. /\ pc \in [Proc -> Going \cup Ended]
      /\ DOMAIN addr = Proc /\ DOMAIN round_num = Proc
  BY DEF PathInv, TypeInv
<1>1. ASSUME NEW p \in Proc, NEW to, pc' = [pc EXCEPT ![p] = to],
             UNCHANGED <<inputVars, addr, round_num, file>>,
             to \in {"run", "idle"} => Bound(p),
             pc[p] \in Written => to \in Written,
             to # "undefined"
      PROVE  OthersStay(p) /\ Walks(p)
  BY <1>0, <1>1 DEF OthersStay, Walks
<1>2. ASSUME NEW p \in Proc, Parse(p) PROVE OthersStay(p) /\ Walks(p)
  <2> DEFINE to == IF Accepted(args[p]) THEN "hosts" ELSE "failure"
  <2>1. /\ pc[p] = "parse" /\ pc' = [pc EXCEPT ![p] = to]
        /\ UNCHANGED <<inputVars, addr, round_num, file>>
    BY <1>2 DEF Parse, Goes
  <2>2. to \in {"hosts", "failure"}
    OBVIOUS
  <2> HIDE DEF to
  <2> QED BY <1>1, <2>1, <2>2 DEF Written
<1>3. ASSUME NEW p \in Proc, ReadHosts(p) PROVE OthersStay(p) /\ Walks(p)
  <2> DEFINE to == IF HostsAccepted(hostsFile) THEN "clear" ELSE "abort"
  <2>1. /\ pc[p] = "hosts" /\ pc' = [pc EXCEPT ![p] = to]
        /\ UNCHANGED <<inputVars, addr, round_num, file>>
    BY <1>3 DEF ReadHosts, Goes
  <2>2. to \in {"clear", "abort"}
    OBVIOUS
  <2> HIDE DEF to
  <2> QED BY <1>1, <2>1, <2>2 DEF Written
<1>4. ASSUME NEW p \in Proc, ClearOutputFile(p) PROVE OthersStay(p) /\ Clears(p)
  BY <1>0, <1>4 DEF ClearOutputFile, Goes, OthersStay, Clears
<1>5. ASSUME NEW p \in Proc, Configure(p) PROVE OthersStay(p) /\ Walks(p)
  <2>1. PICK to \in {"abort", "bind"} :
          /\ pc[p] = "config" /\ pc' = [pc EXCEPT ![p] = to]
          /\ UNCHANGED <<inputVars, addr, round_num, file>>
    BY <1>5 DEF Configure, Goes, configVars
  <2> QED BY <1>1, <2>1 DEF Written
<1>6. ASSUME NEW p \in Proc, Bind(p) PROVE OthersStay(p) /\ Binds(p)
  BY <1>0, <1>6 DEF Bind, Goes, OthersStay, Binds
<1>7. ASSUME NEW p \in Proc, Round(p) PROVE OthersStay(p) /\ (Walks(p) \/ Writes(p))
  BY <1>0, <1>7 DEF Round, Goes, OthersStay, Walks, Writes, Bound, Written
<1>8. ASSUME NEW p \in Proc, Finish(p) PROVE OthersStay(p) /\ Walks(p)
  <2>1. /\ pc[p] = "run" /\ pc' = [pc EXCEPT ![p] = "idle"]
        /\ UNCHANGED <<inputVars, addr, round_num, file>>
    BY <1>8 DEF Finish, Goes
  <2> QED BY <1>1, <2>1 DEF Written, Bound
<1>9. ASSUME NEW p \in Proc, Stop(p) PROVE OthersStay(p) /\ Walks(p)
  <2>1. /\ pc' = [pc EXCEPT ![p] = "success"]
        /\ UNCHANGED <<inputVars, addr, round_num, file>>
    BY <1>9 DEF Stop
  <2> QED BY <1>1, <2>1 DEF Written
<1> QED BY <1>2, <1>3, <1>4, <1>5, <1>6, <1>7, <1>8, <1>9 DEF Next

-----------------------------------------------------------------------------
(* Undefined behaviour, and the sender an id stands for.                   *)

\* A round that starts past the last proposal was counted by an incomplete header.
LEMMA UndefinedNext == PathInv /\ UndefinedOnlyIf /\ [Next]_vars => UndefinedOnlyIf'
<1> SUFFICES ASSUME PathInv, UndefinedOnlyIf, [Next]_vars PROVE UndefinedOnlyIf'
  OBVIOUS
<1>1. CASE UNCHANGED vars
  BY <1>1 DEF vars, inputVars, UndefinedOnlyIf, EmId, Config
<1>2. CASE Next
  <2>1. PICK p \in Proc : OthersStay(p) /\ (Walks(p) \/ Clears(p) \/ Binds(p) \/ Writes(p))
    BY <1>2, StepOfOne
  <2>2. /\ \A q \in Proc : EmId(q)' = EmId(q) /\ Config(q)' = Config(q)
        /\ \A q \in Proc \ {p} : pc'[q] = pc[q] /\ addr'[q] = addr[q]
    BY <2>1 DEF OthersStay, inputVars, EmId, Config
  <2>3. ASSUME pc'[p] = "undefined"
        PROVE  EmId(p) \notin 0 .. Len(addr'[p]) \/ ~HeaderComplete(Config(p))
    <3>1. CASE Binds(p)
      BY <2>3, <3>1 DEF Binds
    <3>2. CASE Walks(p)
      <4>1. /\ pc[p] = "run" /\ OutOfRange(p)
            /\ round_num[p] < message_to_send[p]
        BY <2>3, <3>2 DEF Walks
      <4>2. SUFFICES ASSUME HeaderComplete(Config(p)) PROVE FALSE
        OBVIOUS
      <4>3. /\ Config(p) \in Seq(Seq(Word)) /\ ~AssignThrows(Config(p))
            /\ message_to_send[p] \in MessageToSend(Config(p), Anything)
            /\ proposals_lattice[p] = ProposalsLattice(Config(p))
        BY <4>1, AcceptedTypes DEF PathInv, ParsedInv, ConfigInv
      <4>4. Len(proposals_lattice[p]) = message_to_send[p] /\ message_to_send[p] \in Nat
        BY <4>2, <4>3, HeaderRounds
      <4>5. round_num[p] \in Nat
        BY DEF PathInv, TypeInv
      <4> QED BY <4>1, <4>4, <4>5 DEF OutOfRange
    <3>3. CASE Clears(p) \/ Writes(p)
      BY <2>3, <3>3 DEF Clears, Writes
    <3> QED BY <2>1, <3>1, <3>2, <3>3
  <2>4. ASSUME NEW q \in Proc, pc'[q] = "undefined"
        PROVE  EmId(q)' \notin 0 .. Len(addr'[q]) \/ ~HeaderComplete(Config(q)')
    <3>1. CASE q = p
      BY <2>2, <2>3, <2>4, <3>1
    <3>2. CASE q # p
      BY <2>2, <2>4, <3>2 DEF UndefinedOnlyIf
    <3> QED BY <3>1, <3>2
  <2> QED BY <2>4 DEF UndefinedOnlyIf
<1> QED BY <1>1, <1>2

\* Two processes with one id have one port, and only one of them finds it free.
LEMMA SenderNext == PathInv /\ UniqueSender /\ [Next]_vars => UniqueSender'
<1> SUFFICES ASSUME PathInv, UniqueSender, [Next]_vars PROVE UniqueSender'
  OBVIOUS
<1>1. CASE UNCHANGED vars
  BY <1>1 DEF vars, inputVars, UniqueSender, EmId, Bound, Port
<1>2. CASE Next
  <2>1. PICK p \in Proc : OthersStay(p) /\ (Walks(p) \/ Clears(p) \/ Binds(p) \/ Writes(p))
    BY <1>2, StepOfOne
  <2>2. /\ \A q \in Proc : EmId(q)' = EmId(q)
        /\ \A q \in Proc \ {p} : pc'[q] = pc[q] /\ addr'[q] = addr[q]
    BY <2>1 DEF OthersStay, inputVars, EmId
  <2>3. \A q \in Proc : Bound(q) => addr[q] = Sorted(hostsFile)
    BY DEF PathInv, BoundInv, Bound
  <2>4. CASE ~Binds(p)
    <3>1. \A q \in Proc : addr'[q] = addr[q] /\ (Bound(q)' => Bound(q))
      BY <2>1, <2>2, <2>4 DEF Walks, Clears, Writes, Bound
    <3> QED BY <2>2, <3>1 DEF UniqueSender, Port
  <2>5. CASE Binds(p)
    <3>1. addr'[p] = Sorted(hostsFile)
      BY <2>5 DEF Binds
    <3>2. \A q \in Proc : Bound(q)' => addr'[q] = Sorted(hostsFile) /\ (q = p \/ Bound(q))
      BY <2>2, <2>3, <3>1 DEF Bound
    <3>3. ASSUME NEW q \in Proc, q # p, Bound(p)', Bound(q)', EmId(p) = EmId(q)
          PROVE  Port(addr'[p], EmId(p)) = 0
      <4>1. PortIsFree(p, Port(addr'[p], EmId(p)))
        BY <2>5, <3>3 DEF Binds, Bound
      <4>2. Bound(q) /\ addr[q] = addr'[p]
        BY <2>3, <3>1, <3>2, <3>3
      <4> QED BY <3>3, <4>1, <4>2 DEF PortIsFree
    <3>4. ASSUME NEW q \in Proc, NEW r \in Proc, q # r, Bound(q)', Bound(r)', EmId(q) = EmId(r)
          PROVE  Port(addr'[q], EmId(q)) = 0
      <4>1. addr'[q] = addr'[r] /\ addr'[q] = Sorted(hostsFile)
        BY <3>2, <3>4
      <4>2. CASE q = p \/ r = p
        BY <3>3, <3>4, <4>1, <4>2
      <4>3. CASE q # p /\ r # p
        <5>1. Bound(q) /\ Bound(r) /\ addr[q] = addr'[q]
          BY <2>2, <3>2, <3>4, <4>3
        <5> QED BY <3>4, <5>1 DEF UniqueSender
      <4> QED BY <4>2, <4>3
    <3> QED BY <2>2, <3>4 DEF UniqueSender, Port
  <2> QED BY <2>4, <2>5
<1> QED BY <1>1, <1>2

-----------------------------------------------------------------------------
(* The lines of an output file.                                            *)

\* A line is written by a process that runs, or has ended since, to its own file.
WriterInv ==
  \A o \in OutputPaths : \A j \in 1 .. Len(file[o]) :
    LET p == file[o][j][1]
    IN  Accepted(args[p]) /\ OutputPath(p) = o /\ pc[p] \in Written

\* Files that cannot be opened stay empty.
UnwrittenInv == ~writable => \A o \in OutputPaths : file[o] = <<>>

\* A process that runs and has written to a file of its own wrote the last line there.
LastInv ==
  \A p \in Proc : Bound(p) /\ IsOwn(OutputPath(p)) =>
    LET lines == file[OutputPath(p)]
    IN  (\E j \in 1 .. Len(lines) : lines[j][1] = p) =>
          lines[Len(lines)] = <<p, round_num[p] - 1>>

LineInv == UniqueSender /\ WriterInv /\ UnwrittenInv /\ LastInv /\ LinesInOrder

\* A file that is one's own was one's own before.
LEMMA OwnBefore ==
  ASSUME PathInv, NEW p \in Proc, OthersStay(p),
         Walks(p) \/ Clears(p) \/ Binds(p) \/ Writes(p), NEW o, IsOwn(o)'
  PROVE  IsOwn(o)
<1>1. \A q \in Proc : /\ EmId(q)' = EmId(q) /\ OutputPath(q)' = OutputPath(q)
                      /\ Accepted(args[q])' <=> Accepted(args[q])
  BY DEF OthersStay, inputVars, EmId, OutputPath
<1>2. ASSUME NEW q \in Proc, HasPort(q)' PROVE HasPort(q)
  <2>1. CASE addr'[q] = addr[q]
    BY <1>1, <1>2, <2>1 DEF HasPort, Port
  <2>2. CASE addr'[q] # addr[q]
    <3>1. q = p /\ Binds(p)
      BY <2>2 DEF OthersStay, Walks, Clears, Writes
    <3>2. addr'[p] = Sorted(hostsFile) /\ HostsAccepted(hostsFile) /\ hostsFile \in HostsFiles
      BY <3>1 DEF Binds, PathInv, HostsInv, TypeInv
    <3>3. addr[p] = <<>>
      BY <2>2, <3>1, <3>2 DEF PathInv, TypeInv
    <3>4. Len(addr'[p]) \in Nat
      BY <3>2, AcceptedHosts, SortedIs, LenProperties
    <3>5. SUFFICES ASSUME EmId(p) \in 0 .. Len(addr[p]) PROVE Port(addr[p], EmId(p)) # 0
      BY <3>1 DEF HasPort
    <3>6. EmId(p) = 0
      <4>1. Len(<<>>) = 0
        BY EmptySeq
      <4> QED BY <3>3, <3>5, <4>1
    <3>7. EmId(p) \in 0 .. Len(addr'[p]) /\ Port(addr'[p], EmId(p)) = 0
      BY <3>4, <3>6 DEF Port
    <3> QED BY <1>1, <1>2, <3>1, <3>7 DEF HasPort, Port
  <2> QED BY <2>1, <2>2
<1> QED BY <1>1, <1>2 DEF IsOwn

\* Lines and processes are never moved to another file.
LEMMA WriterNext == PathInv /\ WriterInv /\ Next => WriterInv'
<1> SUFFICES ASSUME PathInv, WriterInv, Next PROVE WriterInv'
  OBVIOUS
<1>1. PICK p \in Proc : OthersStay(p) /\ (Walks(p) \/ Clears(p) \/ Binds(p) \/ Writes(p))
  BY StepOfOne
<1>2. /\ \A q \in Proc : /\ Accepted(args[q])' <=> Accepted(args[q])
                         /\ OutputPath(q)' = OutputPath(q)
      /\ OutputPaths' = OutputPaths
  BY <1>1 DEF OthersStay, inputVars, OutputPath, OutputPaths
<1>3. \A q \in Proc : pc[q] \in Written => pc'[q] \in Written
  BY <1>1 DEF OthersStay, Walks, Clears, Binds, Writes, Written
<1>4. /\ file \in [OutputPaths -> Seq(Proc \X Nat)]
      /\ round_num[p] \in Nat
  BY DEF PathInv, TypeInv
<1> DEFINE Fits(line, o) == /\ line \in Proc \X Nat
                            /\ Accepted(args[line[1]]) /\ OutputPath(line[1]) = o
                            /\ pc'[line[1]] \in Written
<1>5. ASSUME NEW o \in OutputPaths, NEW j \in 1 .. Len(file[o]) PROVE Fits(file[o][j], o)
  <2>1. file[o][j] \in Proc \X Nat
    BY <1>4, ElementOfSeq
  <2>2. file[o][j][1] \in Proc
    BY <2>1
  <2> QED BY <1>3, <2>1, <2>2 DEF WriterInv
<1>6. ASSUME NEW o \in OutputPaths, NEW j \in 1 .. Len(file'[o]) PROVE Fits(file'[o][j], o)
  <2> HIDE DEF Fits
  <2>1. CASE file'[o] = file[o]
    BY <1>5, <1>6, <2>1
  <2>2. CASE file'[o] # file[o] /\ Clears(p)
    <3>1. file'[o] = <<>>
      BY <1>4, <2>2 DEF Clears, Cleared
    <3> QED BY <3>1, EmptySeq
  <2>3. CASE file'[o] # file[o] /\ Writes(p)
    <3>1. o = OutputPath(p) /\ file'[o] = Append(file[o], <<p, round_num[p]>>)
      BY <1>4, <2>3 DEF Writes, Appended
    <3>2. <<p, round_num[p]>> \in Proc \X Nat /\ <<p, round_num[p]>>[1] = p
      BY <1>4
    <3>3. /\ Len(file[o]) \in Nat /\ Len(file'[o]) = Len(file[o]) + 1
          /\ \A i \in 1 .. Len(file[o]) : file'[o][i] = file[o][i]
          /\ file'[o][Len(file[o]) + 1] = <<p, round_num[p]>>
      BY <1>4, <3>1, <3>2, AppendProperties, LenProperties
    <3>4. CASE j \in 1 .. Len(file[o])
      BY <1>5, <3>3, <3>4
    <3>5. CASE j = Len(file[o]) + 1
      <4>1. Accepted(args[p]) /\ pc'[p] \in Written
        BY <2>3 DEF Writes, PathInv, ParsedInv, Written
      <4> QED BY <3>1, <3>2, <3>3, <3>5, <4>1 DEF Fits
    <3> QED BY <3>3, <3>4, <3>5
  <2> QED BY <1>1, <2>1, <2>2, <2>3 DEF Walks, Binds
<1> QED BY <1>2, <1>6 DEF WriterInv

LEMMA UnwrittenNext == PathInv /\ UnwrittenInv /\ Next => UnwrittenInv'
<1> SUFFICES ASSUME PathInv, UnwrittenInv, Next PROVE UnwrittenInv'
  OBVIOUS
<1>1. PICK p \in Proc : OthersStay(p) /\ (Walks(p) \/ Clears(p) \/ Binds(p) \/ Writes(p))
  BY StepOfOne
<1>2. writable' = writable /\ OutputPaths' = OutputPaths
  BY <1>1 DEF OthersStay, inputVars, OutputPaths
<1>3. ~writable => file' = file
  BY <1>1 DEF Walks, Clears, Binds, Writes, Cleared, Appended
<1> QED BY <1>2, <1>3 DEF UnwrittenInv

\* What a process adds to a file that can be opened.
LEMMA WrittenLine ==
  ASSUME PathInv, writable, NEW p \in Proc, Writes(p)
  PROVE  LET o == OutputPath(p)
             n == Len(file[o])
         IN  /\ o \in OutputPaths
             /\ n \in Nat /\ Len(file'[o]) = n + 1
             /\ \A i \in 1 .. n : file'[o][i] = file[o][i]
             /\ file'[o][n + 1] = <<p, round_num[p]>>
             /\ \A x \in OutputPaths : x # o => file'[x] = file[x]
<1> DEFINE o == OutputPath(p)
           line == <<p, round_num[p]>>
<1>1. o \in OutputPaths
  BY AcceptedTypes DEF PathInv, ParsedInv, Writes
<1>2. file \in [OutputPaths -> Seq(Proc \X Nat)] /\ line \in Proc \X Nat
  BY DEF PathInv, TypeInv
<1>3. file' = [file EXCEPT ![o] = Append(file[o], line)]
  BY DEF Writes, Appended
<1> HIDE DEF o, line
<1>4. file[o] \in Seq(Proc \X Nat) /\ file'[o] = Append(file[o], line)
      /\ \A x \in OutputPaths : x # o => file'[x] = file[x]
  BY <1>1, <1>2, <1>3
<1>5. /\ Len(file[o]) \in Nat /\ Len(file'[o]) = Len(file[o]) + 1
      /\ \A i \in 1 .. Len(file[o]) : file'[o][i] = file[o][i]
      /\ file'[o][Len(file[o]) + 1] = line
  BY <1>2, <1>4, AppendProperties, LenProperties
<1> QED BY <1>1, <1>4, <1>5 DEF o, line

\* The last line is that of the only process that runs for the host.
LEMMA LastNext == PathInv /\ LineInv /\ Next => LastInv'
<1> SUFFICES ASSUME PathInv, LineInv, Next,
                    NEW q \in Proc, Bound(q)', IsOwn(OutputPath(q))',
                    NEW j \in 1 .. Len(file'[OutputPath(q)]), file'[OutputPath(q)][j][1] = q
             PROVE  file'[OutputPath(q)][Len(file'[OutputPath(q)])] = <<q, round_num'[q] - 1>>
  <2>1. Next => \A q \in Proc : OutputPath(q)' = OutputPath(q)
    <3> SUFFICES ASSUME Next PROVE \A q \in Proc : OutputPath(q)' = OutputPath(q)
      OBVIOUS
    <3>1. args' = args
      BY DEF Next, Parse, ReadHosts, ClearOutputFile, Configure, Bind, Round, Finish, Stop,
             inputVars
    <3> QED BY <3>1 DEF OutputPath
  <2> QED BY <2>1 DEF LastInv
<1> USE DEF LineInv
<1>1. PICK p \in Proc : OthersStay(p) /\ (Walks(p) \/ Clears(p) \/ Binds(p) \/ Writes(p))
  BY StepOfOne
<1>o. PICK o : o = OutputPath(q)
  OBVIOUS
<1> DEFINE Old == /\ Bound(q) /\ round_num'[q] = round_num[q] /\ file'[o] = file[o]
<1>2. /\ OutputPath(q)' = o
      /\ q # p => pc'[q] = pc[q] /\ round_num'[q] = round_num[q]
  BY <1>o, <1>1 DEF OthersStay, inputVars, OutputPath
<1>3. IsOwn(o)
  <2>1. IsOwn(o)'
    BY <1>2 DEF IsOwn
  <2> QED BY <1>1, <2>1, OwnBefore
<1>4. pc'[q] \in {"run", "idle"} /\ (q # p => Bound(q))
  BY <1>2 DEF Bound
<1>5. ASSUME Old PROVE file'[o][Len(file'[o])] = <<q, round_num'[q] - 1>>
  BY <1>o, <1>3, <1>5 DEF LastInv
<1>6. o \in OutputPaths
  <2>1. Accepted(args[q])
    BY <1>1, <1>4 DEF PathInv, ParsedInv, Bound, Walks, Clears, Binds, Writes
  <2> QED BY <1>o, <2>1, AcceptedTypes DEF PathInv
<1>7. CASE Walks(p)
  BY <1>o, <1>4, <1>5, <1>7 DEF Walks
<1>8. CASE Clears(p)
  <2>1. q # p
    BY <1>4, <1>8 DEF Clears
  <2>2. file'[o] = file[o] \/ file'[o] = <<>>
    BY <1>6, <1>8 DEF Clears, Cleared, PathInv, TypeInv
  <2>3. file'[o] # <<>>
    BY <1>o, EmptySeq
  <2> QED BY <1>o, <1>2, <1>4, <1>5, <2>1, <2>2, <2>3
<1>9. CASE Binds(p)
  <2>1. file'[o] = file[o] /\ round_num'[q] = round_num[q]
    BY <1>9 DEF Binds
  <2>2. q # p
    <3>1. pc[q] \in Written
      BY <1>o, <1>6, <2>1 DEF WriterInv
    <3> QED BY <1>9, <3>1 DEF Binds, Written
  <2> QED BY <1>o, <1>4, <1>5, <2>1, <2>2
<1>10. CASE Writes(p)
  <2>1. writable
    <3>1. ~writable => file'[o] = <<>>
      BY <1>6, <1>10 DEF Writes, Appended, UnwrittenInv
    <3> QED BY <1>o, <3>1, EmptySeq
  <2>2. CASE q = p
    <3>1. round_num'[q] - 1 = round_num[q]
      <4>1. round_num[q] \in Nat
        BY DEF PathInv, TypeInv
      <4> QED BY <1>10, <2>2, <4>1 DEF Writes
    <3> QED BY <1>o, <1>10, <2>1, <2>2, <3>1, WrittenLine
  <2>3. CASE q # p
    <3>1. OutputPath(p) # o
      <4>1. SUFFICES ASSUME OutputPath(p) = o PROVE FALSE
        OBVIOUS
      <4>2. Bound(p) /\ Bound(q)
        BY <1>4, <1>10, <2>3 DEF Bound, Writes
      <4>3. Accepted(args[p]) /\ Accepted(args[q])
        BY <4>2 DEF PathInv, ParsedInv, Bound
      <4>4. EmId(p) = EmId(q) /\ HasPort(p)
        BY <1>o, <1>3, <4>1, <4>3 DEF IsOwn
      <4>5. Port(addr[p], EmId(p)) = 0
        BY <2>3, <4>2, <4>4 DEF UniqueSender
      <4> QED BY <4>2, <4>4, <4>5 DEF HasPort, PathInv, BoundInv
    <3>2. file'[o] = file[o]
      BY <1>6, <1>10, <2>1, <3>1, WrittenLine
    <3> QED BY <1>o, <1>2, <1>4, <1>5, <2>3, <3>2
  <2> QED BY <2>2, <2>3
<1> QED BY <1>1, <1>7, <1>8, <1>9, <1>10

\* A line is added behind the lines of its process, if there are any.
LEMMA LinesNext == PathInv /\ LineInv /\ Next => LinesInOrder'
<1> SUFFICES ASSUME PathInv, LineInv, Next,
                    NEW o \in OutputPaths, IsOwn(o)',
                    NEW j \in 1 .. Len(file'[o]), NEW k \in 1 .. Len(file'[o]),
                    j < k, file'[o][j][1] = file'[o][k][1]
             PROVE  /\ file'[o][j + 1][1] = file'[o][j][1]
                    /\ file'[o][j + 1][2] = file'[o][j][2] + 1
  BY DEF LinesInOrder, OutputPaths
<1> USE DEF LineInv
<1>1. PICK p \in Proc : OthersStay(p) /\ (Walks(p) \/ Clears(p) \/ Binds(p) \/ Writes(p))
  BY StepOfOne
<1>2. IsOwn(o)
  BY <1>1, OwnBefore
<1>3. CASE file'[o] = file[o]
  BY <1>2, <1>3 DEF LinesInOrder
<1>4. CASE file'[o] # file[o]
  <2>1. file'[o] # <<>>
    BY EmptySeq
  <2>2. Writes(p) /\ writable /\ o = OutputPath(p)
    <3>1. ~Clears(p)
      BY <1>4, <2>1 DEF Clears, Cleared, PathInv, TypeInv
    <3> QED BY <1>1, <1>4, <3>1 DEF Walks, Binds, Writes, Appended, PathInv, TypeInv
  <2> DEFINE n == Len(file[o])
  <2>3. /\ n \in Nat /\ Len(file'[o]) = n + 1
        /\ \A i \in 1 .. n : file'[o][i] = file[o][i]
        /\ file'[o][n + 1] = <<p, round_num[p]>>
    BY <2>2, WrittenLine
  <2>4. round_num[p] \in Nat /\ Bound(p)
    BY <2>2 DEF PathInv, TypeInv, Writes, Bound
  <2>5. j \in 1 .. n /\ file'[o][j] = file[o][j]
    BY <2>3
  <2>6. CASE k \in 1 .. n
    <3>1. j + 1 \in 1 .. n
      BY <2>3, <2>6
    <3>2. file'[o][k] = file[o][k] /\ file'[o][j + 1] = file[o][j + 1]
      BY <2>3, <2>6, <3>1
    <3>3. j \in 1 .. Len(file[o]) /\ k \in 1 .. Len(file[o])
          /\ file[o][j][1] = file[o][k][1]
      BY <2>5, <2>6, <3>2
    <3> HIDE DEF n
    <3> QED BY <1>2, <2>5, <3>2, <3>3 DEF LinesInOrder
  <2>7. CASE k = n + 1
    <3>1. file[o][j][1] = p
      BY <2>3, <2>5, <2>7
    <3>2. file[o][n] = <<p, round_num[p] - 1>>
      BY <1>2, <2>2, <2>4, <2>5, <3>1 DEF LastInv
    <3>3. CASE j = n
      <4>1. file'[o][j] = <<p, round_num[p] - 1>> /\ file'[o][j + 1] = <<p, round_num[p]>>
        BY <2>3, <2>5, <3>2, <3>3
      <4>2. round_num[p] = (round_num[p] - 1) + 1
        BY <2>4
      <4> QED BY <4>1, <4>2
    <3>4. CASE j # n
      <4>1. j < n /\ n \in 1 .. n /\ j + 1 \in 1 .. n
        BY <2>3, <2>5, <3>4
      <4>2. file'[o][j + 1] = file[o][j + 1]
        BY <2>3, <4>1
      <4>3. n \in 1 .. Len(file[o]) /\ file[o][j][1] = file[o][n][1]
        BY <3>1, <3>2, <4>1
      <4> HIDE DEF n
      <4> QED BY <1>2, <2>5, <4>1, <4>2, <4>3 DEF LinesInOrder, n
    <3> QED BY <3>3, <3>4
  <2> QED BY <2>3, <2>6, <2>7
<1> QED BY <1>3, <1>4

\* No process has written anything in the initial state.
LEMMA LineInit == Init => UndefinedOnlyIf /\ LineInv
<1> SUFFICES ASSUME Init PROVE UndefinedOnlyIf /\ LineInv
  OBVIOUS
<1>1. \A p \in Proc : pc[p] = "parse"
  BY DEF Init
<1>2. \A o \in OutputPaths : file[o] = <<>> /\ Len(file[o]) = 0
  BY EmptySeq DEF Init
<1>3. UniqueSender /\ UndefinedOnlyIf /\ LastInv
  BY <1>1 DEF UniqueSender, UndefinedOnlyIf, LastInv, Bound
<1>4. WriterInv /\ UnwrittenInv /\ LinesInOrder
  BY <1>2 DEF WriterInv, UnwrittenInv, LinesInOrder
<1> QED BY <1>3, <1>4 DEF LineInv

LEMMA LineNext == PathInv /\ LineInv /\ [Next]_vars => LineInv'
<1> SUFFICES ASSUME PathInv, LineInv, [Next]_vars PROVE LineInv'
  OBVIOUS
<1>1. CASE Next
  <2>1. UniqueSender'
    BY <1>1, SenderNext DEF LineInv
  <2> QED BY <1>1, <2>1, WriterNext, UnwrittenNext, LastNext, LinesNext DEF LineInv
<1>2. CASE UNCHANGED vars
  <2>1. /\ UniqueSender' /\ WriterInv' /\ UnwrittenInv'
    BY <1>2 DEF vars, inputVars, LineInv, UniqueSender, WriterInv, UnwrittenInv, EmId,
                OutputPath, OutputPaths, Bound, Port
  <2>2. \A o : IsOwn(o)' => IsOwn(o)
    BY <1>2 DEF vars, inputVars, IsOwn, HasPort, EmId, OutputPath, Port
  <2>3. LinesInOrder'
    BY <1>2, <2>2 DEF vars, LineInv, LinesInOrder, OutputPaths
  <2>4. LastInv'
    BY <1>2 DEF vars, inputVars, LineInv, LastInv, IsOwn, HasPort, EmId, OutputPath, Bound, Port
  <2> QED BY <2>1, <2>3, <2>4 DEF LineInv
<1> QED BY <1>1, <1>2

-----------------------------------------------------------------------------
(* The properties.                                                         *)

\* Every process is where it is by the steps of main in their order, and has read
\* what its files say.
THEOREM PathHolds == Spec => []PathInv
BY PathInit, PathNext, PTL DEF Spec

\* A process proposes what verify_lattice.cpp takes for its proposals, from any file
\* of the documented form.
THEOREM ReadersAgreeHolds == Spec => []ReadersAgree
<1>1. PathInv => ReadersAgree
  <2> SUFFICES ASSUME PathInv, NEW p \in Proc, Configured(p), IsPlain(Config(p))
               PROVE  proposals_lattice[p] = VerifierProposals(Config(p))
    BY DEF ReadersAgree
  <2>1. /\ Accepted(args[p]) /\ Config(p) # NoFile /\ ~AssignThrows(Config(p))
        /\ proposals_lattice[p] = ProposalsLattice(Config(p))
    BY DEF PathInv, ParsedInv, ConfigInv, Configured
  <2>2. Config(p) \in Seq(Seq(Word))
    BY <2>1, AcceptedTypes DEF PathInv
  <2> QED BY <2>1, <2>2, PlainIsReadAlike
<1> QED BY <1>1, PathHolds, PTL

\* Only an --id that is no host's, or a configuration without a complete header, takes
\* main to undefined behaviour.
THEOREM UndefinedOnlyIfHolds == Spec => []UndefinedOnlyIf
<1>1. Spec => [](PathInv /\ UndefinedOnlyIf)
  BY PathInit, PathNext, LineInit, UndefinedNext, PTL DEF Spec
<1> QED BY <1>1, PTL

\* Sorting puts host i at entry i of addr, for any hosts file without a repeated id
\* that the check of the smallest id, the largest and their number lets through.
THEOREM HostsIndexedHolds == Spec => []HostsIndexed
<1>1. PathInv => HostsIndexed
  <2> SUFFICES ASSUME PathInv, NEW p \in Proc, Bound(p),
                      IsInjective([i \in 1 .. Len(addr[p]) |-> addr[p][i].id])
               PROVE  \A i \in 1 .. Len(addr[p]) : addr[p][i].id = i
    BY DEF HostsIndexed
  <2>1. addr[p] = Sorted(hostsFile) /\ HostsAccepted(hostsFile) /\ hostsFile \in HostsFiles
    BY DEF PathInv, BoundInv, HostsInv, TypeInv, Bound
  <2> QED BY <2>1, CompactHosts
<1> QED BY <1>1, PathHolds, PTL

\* Two processes never run for one host with a port of its own, whatever they were
\* started with.
THEOREM UniqueSenderHolds == Spec => []UniqueSender
<1>1. Spec => [](PathInv /\ LineInv)
  BY PathInit, PathNext, LineInit, LineNext, PTL DEF Spec
<1>2. LineInv => UniqueSender
  BY DEF LineInv
<1> QED BY <1>1, <1>2, PTL

\* Starting a process again while another runs for its host never mixes the lines of
\* their output file nor leaves out a round.
THEOREM LinesInOrderHolds == Spec => []LinesInOrder
<1>1. Spec => [](PathInv /\ LineInv)
  BY PathInit, PathNext, LineInit, LineNext, PTL DEF Spec
<1>2. LineInv => LinesInOrder
  BY DEF LineInv
<1> QED BY <1>1, <1>2, PTL

=============================================================================
