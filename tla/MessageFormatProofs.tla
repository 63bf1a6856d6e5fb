-------------------------- MODULE MessageFormatProofs --------------------------
(***************************************************************************)
(* Proofs about MessageFormat, for messages with any numbers and any size  *)
(* of the buffer.                                                          *)
(***************************************************************************)
EXTENDS MessageFormat, SequenceLemmas, FiniteSetTheorems

Numeral == {"0", "1", "2", "3", "4", "5", "6", "7", "8", "9"}

Comma == ","
Slash == "/"
Query == "?"
Colon == ":"
At    == "@"

Types == {"P", "A", "N", "F"}

Sign == {Comma, Slash, Query, Colon, At} \cup Types

Char == Numeral \cup Sign

Text == Seq(Char)

\* Text of numerals only.
IsNumeric(text) == \A i \in 1 .. Len(text) : text[i] \in Numeral

\* No character of cs is in the text.
Lacks(text, cs) == \A i \in 1 .. Len(text) : text[i] \notin cs

-----------------------------------------------------------------------------
(* Characters.                                                             *)

LEMMA NumeralsAreDigits ==
  /\ Len(Digit) = 10
  /\ \A i \in 1 .. 10 : Digit[i] \in Numeral
  /\ \A c \in Numeral : \E i \in 1 .. 10 : Digit[i] = c
  /\ \A i, j \in 1 .. 10 : Digit[i] = Digit[j] => i = j
<1>1. Len(Digit) = 10
  BY DEF Digit
<1>2. \A i \in 1 .. 10 : Digit[i] \in Numeral
  BY DEF Digit, Numeral
<1>3. \A c \in Numeral : \E i \in 1 .. 10 : Digit[i] = c
  BY DEF Digit, Numeral
<1>4. \A i, j \in 1 .. 10 : Digit[i] = Digit[j] => i = j
  BY DEF Digit
<1> QED BY <1>1, <1>2, <1>3, <1>4

LEMMA ContainsDigit ==
  ASSUME NEW c PROVE Contains(Digit, c) <=> c \in Numeral
<1>1. Contains(Digit, c) <=> \E i \in 1 .. 10 : Digit[i] = c
  BY NumeralsAreDigits DEF Contains
<1> QED BY <1>1, NumeralsAreDigits

LEMMA Marks ==
  /\ Numeral \cap Sign = {}
  /\ Char = Numeral \cup Sign /\ Numeral \subseteq Char
  /\ Comma \in Sign /\ Slash \in Sign /\ Query \in Sign /\ Colon \in Sign /\ At \in Sign
  /\ Types \subseteq Sign
<1>1. Numeral \cap Sign = {}
  BY Zenon DEF Numeral, Sign, Types, Comma, Slash, Query, Colon, At
<1> QED BY <1>1 DEF Char, Sign

\* The marks, and the types, can be told apart.
LEMMA Distinct ==
  /\ Query # Comma /\ Query # Slash /\ Slash # Comma /\ Query # At /\ At # Comma /\ At # Slash
  /\ Query \notin Types /\ At \notin Types
BY Zenon DEF Query, Comma, Slash, At, Types

\* The least of some numbers.
LEMMA MinIs ==
  ASSUME NEW S \in SUBSET Nat, NEW x \in S, \A y \in S : x <= y
  PROVE  Min(S) = x
<1> DEFINE Least(z) == \A y \in S : z =< y
<1>1. Min(S) = CHOOSE z \in S : Least(z)
  BY DEF Min
<1>2. \E z \in S : Least(z)
  OBVIOUS
<1> HIDE DEF Least
<1>3. Min(S) \in S /\ Least(Min(S))
  BY <1>1, <1>2, Zenon
<1>4. Min(S) <= x /\ x <= Min(S) /\ Min(S) \in Nat /\ x \in Nat
  BY <1>3 DEF Least
<1> HIDE <1>1
<1> QED BY <1>4

\* SelectInSeq finds the first place that fits.
FirstOf(text, n, S) == LET I == {i \in 1 .. Len(text) : text[i] \in S}
                       IN  n = IF I # {} THEN Min(I) ELSE 0

LEMMA FirstIs ==
  ASSUME NEW A, NEW text \in Seq(A), NEW S, NEW n, FirstOf(text, n, S),
         NEW k \in 1 .. Len(text), text[k] \in S, \A i \in 1 .. k - 1 : text[i] \notin S
  PROVE  n = k
<1> DEFINE I == {i \in 1 .. Len(text) : text[i] \in S}
<1>1. I \in SUBSET Nat /\ k \in I
  BY LenProperties
<1>2. \A y \in I : k <= y
  OBVIOUS
<1>3. n = Min(I)
  BY <1>1 DEF FirstOf
<1> HIDE DEF I
<1> QED BY <1>1, <1>2, <1>3, MinIs

LEMMA FirstIsNone ==
  ASSUME NEW text, NEW S, NEW n, FirstOf(text, n, S),
         \A i \in 1 .. Len(text) : text[i] \notin S
  PROVE  n = 0
BY DEF FirstOf

LEMMA FindFirst == ASSUME NEW text, NEW cs PROVE FirstOf(text, Find(text, cs), cs)
BY DEF Find, SelectInSeq, FirstOf

LEMMA ValueOfDigit == ASSUME NEW k \in 1 .. 10 PROVE Value(Digit[k]) = k - 1
<1> DEFINE n == SelectInSeq(Digit, LAMBDA x : x = Digit[k])
<1>1. n = IF {i \in 1 .. Len(Digit) : Digit[i] = Digit[k]} # {}
            THEN Min({i \in 1 .. Len(Digit) : Digit[i] = Digit[k]}) ELSE 0
  BY DEF SelectInSeq
<1>2. {i \in 1 .. Len(Digit) : Digit[i] = Digit[k]} = {k}
  BY NumeralsAreDigits
<1>3. Min({k}) = k
  BY MinIs
<1>4. n = k
  BY <1>1, <1>2, <1>3
<1> QED BY <1>4 DEF Value

-----------------------------------------------------------------------------
(* Texts that are put together and taken apart.                            *)

\* Appending a character.
LEMMA OneChar ==
  ASSUME NEW A, NEW c \in A
  PROVE  <<c>> \in Seq(A) /\ Len(<<c>>) = 1 /\ <<c>>[1] = c
OBVIOUS

\* The characters of a concatenation.
LEMMA Concat ==
  ASSUME NEW A, NEW a \in Seq(A), NEW b \in Seq(A)
  PROVE  /\ a \o b \in Seq(A)
         /\ Len(a) \in Nat /\ Len(b) \in Nat
         /\ Len(a \o b) = Len(a) + Len(b)
         /\ \A i \in 1 .. Len(a) : (a \o b)[i] = a[i]
         /\ \A i \in 1 .. Len(b) : (a \o b)[Len(a) + i] = b[i]
<1>1. Len(a) \in Nat /\ Len(b) \in Nat
  BY LenProperties
<1>2. /\ a \o b \in Seq(A) /\ Len(a \o b) = Len(a) + Len(b)
      /\ \A i \in 1 .. Len(a) + Len(b) :
           (a \o b)[i] = IF i <= Len(a) THEN a[i] ELSE b[i - Len(a)]
  BY ConcatProperties
<1>3. ASSUME NEW i \in 1 .. Len(a) PROVE (a \o b)[i] = a[i]
  <2>1. i \in 1 .. Len(a) + Len(b) /\ i <= Len(a)
    BY <1>1
  <2> QED BY <1>2, <2>1
<1>4. ASSUME NEW i \in 1 .. Len(b) PROVE (a \o b)[Len(a) + i] = b[i]
  <2>1. Len(a) + i \in 1 .. Len(a) + Len(b) /\ ~(Len(a) + i <= Len(a))
        /\ (Len(a) + i) - Len(a) = i
    BY <1>1
  <2> QED BY <1>2, <2>1
<1> QED BY <1>1, <1>2, <1>3, <1>4

LEMMA TextConcat ==
  ASSUME NEW a \in Text, NEW b \in Text
  PROVE  /\ a \o b \in Text
         /\ Len(a) \in Nat /\ Len(b) \in Nat
         /\ Len(a \o b) = Len(a) + Len(b)
         /\ \A i \in 1 .. Len(a) : (a \o b)[i] = a[i]
         /\ \A i \in 1 .. Len(b) : (a \o b)[Len(a) + i] = b[i]
BY Concat DEF Text

LEMMA TextAssociative ==
  ASSUME NEW a \in Text, NEW b \in Text, NEW c \in Text
  PROVE  (a \o b) \o c = a \o (b \o c)
BY ConcatAssociative DEF Text

LEMMA TextRegroup ==
  ASSUME NEW a \in Text, NEW b \in Text, NEW c \in Text,
         NEW ab, ab = a \o b, NEW bc, bc = b \o c
  PROVE  ab \o c = a \o bc
BY TextAssociative

LEMMA WholeBeginning ==
  ASSUME NEW text \in Text PROVE SubSeq(text, 1, Len(text)) = text
BY SubSeqFull DEF Text

\* A beginning of a text.
LEMMA Beginning ==
  ASSUME NEW A, NEW a \in Seq(A), NEW k \in 0 .. Len(a)
  PROVE  /\ SubSeq(a, 1, k) \in Seq(A)
         /\ Len(SubSeq(a, 1, k)) = k
         /\ \A i \in 1 .. k : SubSeq(a, 1, k)[i] = a[i]
<1>1. Len(a) \in Nat /\ \A i \in 1 .. Len(a) : a[i] \in A
  BY LenProperties, ElementOfSeq
<1>2. \A i \in 1 .. k : a[i] \in A
  BY <1>1
<1>3. /\ SubSeq(a, 1, k) \in Seq(A)
      /\ Len(SubSeq(a, 1, k)) = IF 1 <= k THEN k - 1 + 1 ELSE 0
      /\ \A i \in 1 .. k - 1 + 1 : SubSeq(a, 1, k)[i] = a[1 + i - 1]
  BY <1>1, <1>2, SubSeqProperties
<1>4. k \in Nat /\ k - 1 + 1 = k /\ \A i \in 1 .. k : 1 + i - 1 = i
  BY <1>1
<1> QED BY <1>3, <1>4

LEMMA TextBeginning ==
  ASSUME NEW a \in Text, NEW k \in 0 .. Len(a)
  PROVE  /\ SubSeq(a, 1, k) \in Text
         /\ Len(SubSeq(a, 1, k)) = k
         /\ \A i \in 1 .. k : SubSeq(a, 1, k)[i] = a[i]
BY Beginning DEF Text

\* A beginning of a concatenation.
LEMMA BeginningOfConcat ==
  ASSUME NEW A, NEW a \in Seq(A), NEW b \in Seq(A), NEW k \in 0 .. Len(a) + Len(b)
  PROVE  SubSeq(a \o b, 1, k) = IF k <= Len(a) THEN SubSeq(a, 1, k)
                                  ELSE a \o SubSeq(b, 1, k - Len(a))
<1>1. /\ a \o b \in Seq(A) /\ Len(a) \in Nat /\ Len(b) \in Nat
      /\ Len(a \o b) = Len(a) + Len(b)
      /\ \A i \in 1 .. Len(a) : (a \o b)[i] = a[i]
      /\ \A i \in 1 .. Len(b) : (a \o b)[Len(a) + i] = b[i]
  BY Concat
<1> DEFINE s == SubSeq(a \o b, 1, k)
<1>2. s \in Seq(A) /\ Len(s) = k /\ \A i \in 1 .. k : s[i] = (a \o b)[i]
  BY <1>1, Beginning
<1> HIDE DEF s
<1>3. CASE k <= Len(a)
  <2> DEFINE t == SubSeq(a, 1, k)
  <2>1. t \in Seq(A) /\ Len(t) = k /\ \A i \in 1 .. k : t[i] = a[i]
    BY <1>1, <1>3, Beginning
  <2> HIDE DEF t
  <2>2. \A i \in 1 .. k : s[i] = t[i]
    BY <1>1, <1>2, <1>3, <2>1
  <2>3. s = t
    BY <1>2, <2>1, <2>2, SeqEqual
  <2> QED BY <1>3, <2>3 DEF s, t
<1>4. CASE ~(k <= Len(a))
  <2> DEFINE u == SubSeq(b, 1, k - Len(a))
             t == a \o u
  <2>1. k - Len(a) \in 0 .. Len(b)
    BY <1>1, <1>4
  <2>2. u \in Seq(A) /\ Len(u) = k - Len(a) /\ \A i \in 1 .. k - Len(a) : u[i] = b[i]
    BY <2>1, Beginning
  <2> HIDE DEF u
  <2>3. /\ t \in Seq(A) /\ Len(t) = Len(a) + Len(u)
        /\ \A i \in 1 .. Len(a) : t[i] = a[i]
        /\ \A i \in 1 .. Len(u) : t[Len(a) + i] = u[i]
    BY <2>2, Concat
  <2> HIDE DEF t
  <2>4. ASSUME NEW i \in 1 .. k PROVE s[i] = t[i]
    <3>1. CASE i <= Len(a)
      BY <1>1, <1>2, <2>3, <3>1
    <3>2. CASE ~(i <= Len(a))
      <4>1. i - Len(a) \in 1 .. k - Len(a) /\ i - Len(a) \in 1 .. Len(b)
            /\ Len(a) + (i - Len(a)) = i
        BY <1>1, <3>2
      <4>2. t[i] = b[i - Len(a)]
        BY <2>2, <2>3, <4>1
      <4>3. s[i] = b[i - Len(a)]
        BY <1>1, <1>2, <4>1
      <4> QED BY <4>2, <4>3
    <3> QED BY <3>1, <3>2
  <2>5. Len(s) = Len(t)
    BY <1>1, <1>2, <2>2, <2>3
  <2>6. s = t
    BY <1>2, <2>3, <2>4, <2>5, SeqEqual
  <2> QED BY <1>4, <2>6 DEF s, t, u
<1> QED BY <1>3, <1>4

\* What is left behind the first of two texts.
LEMMA FromConcat ==
  ASSUME NEW A, NEW a \in Seq(A), NEW b \in Seq(A)
  PROVE  From(a \o b, Len(a) + 1) = b
<1> DEFINE n == Len(a) + Len(b)
           s == SubSeq(a \o b, Len(a) + 1, n)
<1>1. /\ a \o b \in Seq(A) /\ Len(a) \in Nat /\ Len(b) \in Nat
      /\ Len(a \o b) = n
      /\ \A i \in 1 .. Len(b) : (a \o b)[Len(a) + i] = b[i]
  BY Concat
<1>2. \A i \in Len(a) + 1 .. n : i \in 1 .. Len(a \o b)
  BY <1>1
<1>3. \A i \in Len(a) + 1 .. n : (a \o b)[i] \in A
  BY <1>1, <1>2, ElementOfSeq
<1>4. /\ s \in Seq(A)
      /\ Len(s) = IF Len(a) + 1 <= n THEN n - (Len(a) + 1) + 1 ELSE 0
      /\ \A i \in 1 .. n - (Len(a) + 1) + 1 : s[i] = (a \o b)[(Len(a) + 1) + i - 1]
  <2> DEFINE lo == Len(a) + 1
             text == a \o b
  <2>1. lo \in Int /\ n \in Int
    BY <1>1
  <2>2. \A i \in lo .. n : text[i] \in A
    BY <1>3
  <2> HIDE DEF n, lo, text
  <2>3. /\ SubSeq(text, lo, n) \in Seq(A)
        /\ Len(SubSeq(text, lo, n)) = IF lo <= n THEN n - lo + 1 ELSE 0
        /\ \A i \in 1 .. n - lo + 1 : SubSeq(text, lo, n)[i] = text[lo + i - 1]
    BY <2>1, <2>2, SubSeqProperties
  <2> QED BY <2>3 DEF lo, text
<1>5. Len(s) = Len(b)
  BY <1>1, <1>4
<1>6. ASSUME NEW i \in 1 .. Len(b) PROVE s[i] = b[i]
  <2>1. i \in 1 .. n - (Len(a) + 1) + 1 /\ (Len(a) + 1) + i - 1 = Len(a) + i
    BY <1>1
  <2> QED BY <1>1, <1>4, <2>1
<1>7. s = b
  <2> HIDE DEF s
  <2> QED BY <1>4, <1>5, <1>6, SeqEqual
<1> QED BY <1>1, <1>7 DEF From

\* What is left behind a mark.
LEMMA BehindMark ==
  ASSUME NEW a \in Text, NEW c \in Char, NEW b \in Text
  PROVE  From(a \o (<<c>> \o b), Len(a) + 2) = b
<1>1. PICK q \in Text : q = <<c>> /\ Len(q) = 1
  BY OneChar DEF Text
<1>2. PICK x \in Text : x = a \o q /\ Len(x) = Len(a) + Len(q)
  BY TextConcat
<1>3. PICK y \in Text : y = q \o b
  BY TextConcat
<1>4. x \o b = a \o y
  BY <1>2, <1>3, TextRegroup
<1>5. From(x \o b, Len(x) + 1) = b
  BY FromConcat DEF Text
<1>6. Len(x) + 1 = Len(a) + 2
  <2>1. Len(a) \in Nat
    BY TextConcat
  <2> QED BY <1>1, <1>2, <2>1
<1> QED BY <1>1, <1>3, <1>4, <1>5, <1>6

\* The beginning of what begins with a mark.
LEMMA BeginningInFront ==
  ASSUME NEW c \in Char, NEW b \in Text, NEW j \in 1 .. Len(b) + 1
  PROVE  SubSeq(<<c>> \o b, 1, j) = <<c>> \o SubSeq(b, 1, j - 1)
<1>1. PICK q \in Text : q = <<c>> /\ Len(q) = 1
  BY OneChar DEF Text
<1> DEFINE rest == SubSeq(b, 1, j - 1)
<1>2. Len(b) \in Nat /\ j \in 0 .. Len(q) + Len(b) /\ j - 1 \in 0 .. Len(b)
  BY <1>1, LenProperties DEF Text
<1>3. rest \in Text /\ Len(rest) = j - 1
  BY <1>2, TextBeginning
<1>4. SubSeq(q \o b, 1, j) = IF j <= Len(q) THEN SubSeq(q, 1, j)
                               ELSE q \o SubSeq(b, 1, j - Len(q))
  BY <1>2, BeginningOfConcat DEF Text
<1>5. CASE j = 1
  <2> HIDE DEF rest
  <2>1. rest = <<>>
    BY <1>3, <1>5, EmptySeq DEF Text
  <2>2. SubSeq(q, 1, Len(q)) = q /\ q \o <<>> = q
    BY WholeBeginning, ConcatEmptySeq DEF Text
  <2>3. SubSeq(q \o b, 1, j) = SubSeq(q, 1, Len(q))
    <3>1. j <= Len(q) /\ j = Len(q)
      BY <1>1, <1>5
    <3> QED BY <1>4, <3>1
  <2>4. SubSeq(q \o b, 1, j) = q \o rest
    BY <2>1, <2>2, <2>3
  <2> QED BY <1>1, <2>4 DEF rest
<1>6. CASE j # 1
  BY <1>1, <1>2, <1>4, <1>6
<1> QED BY <1>5, <1>6

-----------------------------------------------------------------------------
(* Numbers.                                                                *)

\* What stoi has read so far.
IsReading(read, digits) ==
  /\ read[0] = 0
  /\ \A i \in 1 .. Len(digits) : read[i] = 10 * read[i - 1] + Value(digits[i])

LEMMA ToIntDef ==
  ASSUME NEW A, NEW digits \in Seq(A), \A i \in 1 .. Len(digits) : Value(digits[i]) \in Int
  PROVE  \E read \in [0 .. Len(digits) -> Int] :
           IsReading(read, digits) /\ ToInt(digits) = read[Len(digits)]
<1> DEFINE n == Len(digits)
           step == [i \in 1 .. n |-> [s \in Int |-> 10 * s + Value(digits[i])]]
           Def(f) == [i \in 0 .. n |-> IF i = 0 THEN 0 ELSE 10 * f[i - 1] + Value(digits[i])]
           g == CHOOSE f : f = Def(f)
<1>1. n \in Nat
  BY LenProperties
<1>2. \A i \in 1 .. n : \A s \in Int : step[i][s] \in Int
  OBVIOUS
<1> HIDE DEF n, step
<1>3. PICK f : IsStepwise(f, n, Int, 0, step)
  <2> DEFINE S == Int
             start == 0
  <2>1. start \in S /\ \A i \in 1 .. n : \A s \in S : step[i][s] \in S
    BY <1>2
  <2> HIDE DEF S, start
  <2>2. \E f : IsStepwise(f, n, S, start, step)
    BY <1>1, <2>1, StepwiseFunction
  <2> QED BY <2>2 DEF S, start
<1>4. f \in [0 .. n -> Int] /\ f[0] = 0 /\ \A i \in 1 .. n : f[i] = step[i][f[i - 1]]
  BY <1>3 DEF IsStepwise
<1>5. ASSUME NEW i \in 1 .. n PROVE f[i] = 10 * f[i - 1] + Value(digits[i])
  <2>1. f[i - 1] \in Int
    BY <1>1, <1>4
  <2> QED BY <1>4, <2>1 DEF step
<1>6. f = Def(f)
  <2>1. \A i \in 0 .. n : i = 0 \/ i \in 1 .. n
    BY <1>1
  <2>2. \A i \in 0 .. n : f[i] = IF i = 0 THEN 0 ELSE 10 * f[i - 1] + Value(digits[i])
    BY <1>1, <1>4, <1>5, <2>1
  <2> QED BY <1>4, <2>2
<1> HIDE DEF Def
<1>7. g = Def(g)
  BY <1>6, Zenon
<1>8. ToInt(digits) = g[n]
  BY Zenon DEF ToInt, Def, n
<1> HIDE DEF g
<1>9. g[0] = 0 /\ IsReading(g, digits)
  <2>1. 0 \in 0 .. n /\ \A i \in 1 .. n : i \in 0 .. n /\ i # 0
    BY <1>1
  <2>2. \A i \in 0 .. n : g[i] = IF i = 0 THEN 0 ELSE 10 * g[i - 1] + Value(digits[i])
    BY <1>7 DEF Def
  <2> QED BY <2>1, <2>2 DEF IsReading, n
<1>10. g \in [0 .. n -> Int]
  <2> DEFINE T == {i \in 0 .. n : g[i] \in Int}
  <2>1. 0 \in T
    BY <1>1, <1>9
  <2>2. ASSUME NEW i \in 0 .. n - 1, i \in T PROVE i + 1 \in T
    <3>1. i + 1 \in 1 .. n /\ (i + 1) - 1 = i
      BY <1>1
    <3>2. g[i + 1] = 10 * g[i] + Value(digits[i + 1])
      BY <1>9, <3>1 DEF IsReading, n
    <3>3. Value(digits[i + 1]) \in Int
      BY <3>1 DEF n
    <3> QED BY <2>2, <3>1, <3>2, <3>3
  <2>3. \A i \in 0 .. n : i \in T
    <3> HIDE DEF T
    <3> QED BY <1>1, <2>1, <2>2, InductionUpTo
  <2>4. g = [i \in 0 .. n |-> g[i]]
    BY <1>7 DEF Def
  <2> QED BY <2>3, <2>4
<1> QED BY <1>8, <1>9, <1>10 DEF n

LEMMA ToIntEmpty == ToInt(<<>>) = 0
<1> DEFINE none == <<>>
<1>1. none \in Seq(Int) /\ Len(none) = 0
  BY EmptySeq
<1> HIDE DEF none
<1>a. \A i \in 1 .. Len(none) : Value(none[i]) \in Int
  BY <1>1
<1>2. PICK read \in [0 .. Len(none) -> Int] : IsReading(read, none) /\ ToInt(none) = read[Len(none)]
  BY <1>1, <1>a, ToIntDef
<1>3. ToInt(none) = 0
  BY <1>1, <1>2 DEF IsReading
<1> QED BY <1>3 DEF none

\* One more digit.
LEMMA ToIntAppend ==
  ASSUME NEW A, NEW digits \in Seq(A), NEW c \in A, Value(c) \in Int,
         \A i \in 1 .. Len(digits) : Value(digits[i]) \in Int
  PROVE  ToInt(Append(digits, c)) = 10 * ToInt(digits) + Value(c)
<1> DEFINE n == Len(digits)
           more == Append(digits, c)
<1>1. /\ n \in Nat /\ more \in Seq(A) /\ Len(more) = n + 1
      /\ \A i \in 1 .. n : more[i] = digits[i]
      /\ more[n + 1] = c
  BY LenProperties, AppendProperties
<1>2. \A i \in 1 .. n + 1 : Value(more[i]) \in Int
  <2>1. \A i \in 1 .. n + 1 : i \in 1 .. n \/ i = n + 1
    BY <1>1
  <2> QED BY <1>1, <2>1
<1> HIDE DEF more
<1>3. PICK f \in [0 .. n -> Int] : IsReading(f, digits) /\ ToInt(digits) = f[n]
  BY ToIntDef
<1>4. PICK g \in [0 .. n + 1 -> Int] : IsReading(g, more) /\ ToInt(more) = g[n + 1]
  BY <1>1, <1>2, ToIntDef
<1>5. /\ f[0] = 0 /\ \A i \in 1 .. n : f[i] = 10 * f[i - 1] + Value(digits[i])
      /\ g[0] = 0 /\ \A i \in 1 .. n + 1 : g[i] = 10 * g[i - 1] + Value(more[i])
  BY <1>1, <1>3, <1>4 DEF IsReading
<1> HIDE DEF n
<1>6. f[n] = g[n]
  <2> DEFINE T == {i \in 0 .. n : f[i] = g[i]}
  <2>1. 0 \in T
    BY <1>1, <1>5
  <2>2. ASSUME NEW i \in 0 .. n - 1, i \in T PROVE i + 1 \in T
    <3>1. i + 1 \in 1 .. n /\ i + 1 \in 1 .. n + 1 /\ (i + 1) - 1 = i /\ i + 1 \in 0 .. n
      BY <1>1
    <3>2. f[i + 1] = 10 * f[i] + Value(digits[i + 1])
      BY <1>5, <3>1
    <3>3. g[i + 1] = 10 * g[i] + Value(digits[i + 1])
      BY <1>1, <1>5, <3>1
    <3> QED BY <2>2, <3>1, <3>2, <3>3
  <2>3. n \in T
    <3>1. n \in 0 .. n
      BY <1>1
    <3> HIDE DEF T
    <3> QED BY <1>1, <2>1, <2>2, <3>1, InductionUpTo
  <2> QED BY <2>3
<1>7. g[n + 1] = 10 * g[n] + Value(c)
  <2>1. n + 1 \in 1 .. n + 1 /\ (n + 1) - 1 = n
    BY <1>1
  <2> QED BY <1>1, <1>5, <2>1
<1> QED BY <1>3, <1>4, <1>6, <1>7 DEF more

\* The last digit of a number, and what it is appended to.
LastDigit(n) == Digit[(n % 10) + 1]

LEMMA Division ==
  ASSUME NEW n \in Nat
  PROVE  /\ n \div 10 \in Nat /\ n % 10 \in 0 .. 9
         /\ n = 10 * (n \div 10) + (n % 10)
         /\ n >= 10 => n \div 10 < n
         /\ n < 10 => n % 10 = n
OBVIOUS

LEMMA DigitOf ==
  ASSUME NEW n \in Nat
  PROVE  /\ LastDigit(n) \in Numeral /\ LastDigit(n) \in Char
         /\ Value(LastDigit(n)) = n % 10
         /\ n < 10 => LastDigit(n) = Digit[n + 1]
<1>1. (n % 10) + 1 \in 1 .. 10 /\ ((n % 10) + 1) - 1 = n % 10
  BY Division
<1> QED BY <1>1, NumeralsAreDigits, ValueOfDigit, Division, Marks DEF LastDigit

\* f gives the numbers 0 .. m their digits.
IsDecimal(f, m) ==
  \A n \in 0 .. m : f[n] = IF n < 10 THEN <<Digit[n + 1]>>
                             ELSE Append(f[n \div 10], LastDigit(n))

\* There is only one such function.
LEMMA DecimalsAgree ==
  ASSUME NEW f, NEW g, NEW m \in Nat, NEW k \in Nat, IsDecimal(f, m), IsDecimal(g, k)
  PROVE  \A n \in 0 .. m : n <= k => f[n] = g[n]
<1> DEFINE T == {n \in Nat : n \in 0 .. m /\ n <= k => f[n] = g[n]}
<1>1. ASSUME NEW n \in Nat, \A i \in 0 .. n - 1 : i \in T PROVE n \in T
  <2> SUFFICES ASSUME n \in 0 .. m, n <= k PROVE f[n] = g[n]
    OBVIOUS
  <2>1. n \in 0 .. k /\ \A i \in 0 .. n - 1 : i \in 0 .. m /\ i <= k => f[i] = g[i]
    BY <1>1
  <2>a. /\ f[n] = IF n < 10 THEN <<Digit[n + 1]>> ELSE Append(f[n \div 10], LastDigit(n))
        /\ g[n] = IF n < 10 THEN <<Digit[n + 1]>> ELSE Append(g[n \div 10], LastDigit(n))
    BY <2>1, Zenon DEF IsDecimal
  <2> HIDE DEF T
  <2>2. CASE n < 10
    BY <2>2, <2>a
  <2>3. CASE n >= 10
    <3>1. n \div 10 \in 0 .. n - 1 /\ n \div 10 \in 0 .. m /\ n \div 10 <= k
      BY <2>3, Division
    <3>2. f[n \div 10] = g[n \div 10]
      BY <2>1, <3>1
    <3>3. ~(n < 10)
      BY <2>3
    <3> QED BY <2>a, <3>2, <3>3, Zenon
  <2>4. n < 10 \/ n >= 10
    OBVIOUS
  <2> QED BY <2>2, <2>3, <2>4
<1>2. Nat \subseteq T
  <2> HIDE DEF T
  <2> QED BY <1>1, CompleteInduction
<1> QED BY <1>2

LEMMA DecimalExists ==
  ASSUME NEW m \in Nat PROVE \E f : IsDecimal(f, m)
<1> DEFINE T == {k \in Nat : \E f : DOMAIN f = 0 .. k /\ IsDecimal(f, k)}
<1>1. 0 \in T
  <2> DEFINE f == [n \in 0 .. 0 |-> <<Digit[n + 1]>>]
  <2>1. DOMAIN f = 0 .. 0 /\ IsDecimal(f, 0)
    BY DEF IsDecimal
  <2> HIDE DEF f
  <2> QED BY <2>1
<1>2. ASSUME NEW k \in Nat, k \in T PROVE k + 1 \in T
  <2>1. PICK f : DOMAIN f = 0 .. k /\ IsDecimal(f, k)
    BY <1>2
  <2> DEFINE new == IF k + 1 < 10 THEN <<Digit[k + 1 + 1]>>
                      ELSE Append(f[(k + 1) \div 10], LastDigit(k + 1))
             g == [n \in 0 .. k + 1 |-> IF n = k + 1 THEN new ELSE f[n]]
  <2>2. /\ DOMAIN g = 0 .. k + 1 /\ g[k + 1] = new
        /\ \A n \in 0 .. k : g[n] = f[n]
    OBVIOUS
  <2> HIDE DEF g
  <2>3. IsDecimal(g, k + 1)
    <3> SUFFICES ASSUME NEW n \in 0 .. k + 1
                 PROVE  g[n] = IF n < 10 THEN <<Digit[n + 1]>>
                                 ELSE Append(g[n \div 10], LastDigit(n))
      BY DEF IsDecimal
    <3>1. n >= 10 => n \div 10 \in 0 .. k
      BY Division
    <3>2. n >= 10 => g[n \div 10] = f[n \div 10]
      BY <2>2, <3>1
    <3>3. CASE n = k + 1
      <4>1. g[n] = IF n < 10 THEN <<Digit[n + 1]>> ELSE Append(f[n \div 10], LastDigit(n))
        BY <2>2, <3>3
      <4>2. n < 10 \/ n >= 10
        OBVIOUS
      <4> HIDE DEF new
      <4> QED BY <3>2, <4>1, <4>2
    <3>4. CASE n # k + 1
      <4>1. n \in 0 .. k
        BY <3>4
      <4>2. f[n] = IF n < 10 THEN <<Digit[n + 1]>> ELSE Append(f[n \div 10], LastDigit(n))
        BY <2>1, <4>1 DEF IsDecimal
      <4>3. n < 10 \/ n >= 10
        OBVIOUS
      <4> HIDE DEF new
      <4> QED BY <2>2, <3>2, <4>1, <4>2, <4>3
    <3> QED BY <3>3, <3>4
  <2> QED BY <2>2, <2>3
<1>3. Nat \subseteq T
  <2> HIDE DEF T
  <2> QED BY <1>1, <1>2, NumberInduction
<1> QED BY <1>3

\* Decimal is what its definition says.
LEMMA DecimalIs ==
  ASSUME NEW n \in Nat
  PROVE  Decimal[n] = IF n < 10 THEN <<Digit[n + 1]>>
                        ELSE Append(Decimal[n \div 10], LastDigit(n))
<1> DEFINE Def(f) == [i \in Nat |-> IF i < 10 THEN <<Digit[i + 1]>>
                                      ELSE Append(f[i \div 10], Digit[(i % 10) + 1])]
           part(m) == CHOOSE f : IsDecimal(f, m)
           h == [m \in Nat |-> part(m)[m]]
<1>1. \A m \in Nat : IsDecimal(part(m), m)
  <2> TAKE m \in Nat
  <2>1. \E f : IsDecimal(f, m)
    BY DecimalExists
  <2> QED BY <2>1, Zenon
<1> HIDE DEF part
<1>2. ASSUME NEW m \in Nat
      PROVE  h[m] = IF m < 10 THEN <<Digit[m + 1]>> ELSE Append(h[m \div 10], LastDigit(m))
  <2>1. m \in 0 .. m
    OBVIOUS
  <2>2. h[m] = part(m)[m]
    OBVIOUS
  <2>3. CASE m < 10
    BY <1>1, <2>1, <2>2, <2>3 DEF IsDecimal
  <2>4. CASE m >= 10
    <3>1. m \div 10 \in Nat /\ m \div 10 \in 0 .. m \div 10 /\ m \div 10 <= m
      BY <2>4, Division
    <3>2. IsDecimal(part(m), m) /\ IsDecimal(part(m \div 10), m \div 10)
      BY <1>1, <3>1
    <3>3. part(m \div 10)[m \div 10] = part(m)[m \div 10]
      BY <3>1, <3>2, DecimalsAgree
    <3>4. h[m \div 10] = part(m)[m \div 10]
      BY <3>1, <3>3
    <3>5. part(m)[m] = Append(part(m)[m \div 10], LastDigit(m))
      <4>1. ~(m < 10)
        BY <2>4
      <4> QED BY <2>1, <3>2, <4>1 DEF IsDecimal
    <3>6. ~(m < 10)
      BY <2>4
    <3> HIDE DEF h
    <3> QED BY <2>2, <3>4, <3>5, <3>6
  <2>5. m < 10 \/ m >= 10
    OBVIOUS
  <2> QED BY <2>3, <2>4, <2>5
<1>3. h = Def(h)
  <2>1. \A m \in Nat : h[m] = IF m < 10 THEN <<Digit[m + 1]>>
                                ELSE Append(h[m \div 10], Digit[(m % 10) + 1])
    BY <1>2 DEF LastDigit
  <2>2. h = [m \in Nat |-> h[m]]
    OBVIOUS
  <2> HIDE DEF h
  <2> QED BY <2>1, <2>2
<1> HIDE DEF Def, h
<1>4. Decimal = CHOOSE f : f = Def(f)
  BY DEF Decimal, Def
<1>5. Decimal = Def(Decimal)
  BY <1>3, <1>4, Zenon
<1> QED BY <1>5 DEF Def, LastDigit

\* A number is written in digits, at least one; stoi reads it back; and what is
\* left of it, when it is cut off, is another number.
DecimalOfNumber(n, text) ==
  /\ text \in Text /\ IsNumeric(text) /\ Len(text) >= 1
  /\ ToInt(text) = n
  /\ \A k \in 1 .. Len(text) : \E m \in Nat : SubSeq(text, 1, k) = Decimal[m]

LEMMA ValuesAreInt ==
  ASSUME NEW text, IsNumeric(text)
  PROVE  \A i \in 1 .. Len(text) : Value(text[i]) \in Int
<1> SUFFICES ASSUME NEW i \in 1 .. Len(text) PROVE Value(text[i]) \in Int
  OBVIOUS
<1>1. PICK k \in 1 .. 10 : Digit[k] = text[i]
  BY NumeralsAreDigits DEF IsNumeric
<1>2. Value(Digit[k]) = k - 1
  BY ValueOfDigit
<1> QED BY <1>1, <1>2

LEMMA OneMoreDigit ==
  ASSUME NEW text \in Text, IsNumeric(text), NEW c \in Numeral
  PROVE  /\ Append(text, c) \in Text /\ IsNumeric(Append(text, c))
         /\ Len(Append(text, c)) = Len(text) + 1
         /\ ToInt(Append(text, c)) = 10 * ToInt(text) + Value(c)
<1> DEFINE more == Append(text, c)
<1>1. c \in Char /\ Len(text) \in Nat
  BY Marks, LenProperties DEF Text
<1>2. /\ more \in Text /\ Len(more) = Len(text) + 1
      /\ \A i \in 1 .. Len(text) : more[i] = text[i]
      /\ more[Len(text) + 1] = c
  BY <1>1, AppendProperties DEF Text
<1>3. Value(c) \in Int
  <2>1. PICK k \in 1 .. 10 : Digit[k] = c
    BY NumeralsAreDigits
  <2>2. Value(Digit[k]) = k - 1
    BY ValueOfDigit
  <2> QED BY <2>1, <2>2
<1>4. ToInt(more) = 10 * ToInt(text) + Value(c)
  BY <1>1, <1>3, ValuesAreInt, ToIntAppend DEF Text
<1> HIDE DEF more
<1>5. IsNumeric(more)
  <2>1. \A i \in 1 .. Len(text) + 1 : i \in 1 .. Len(text) \/ i = Len(text) + 1
    BY <1>1
  <2> QED BY <1>2, <2>1 DEF IsNumeric
<1> QED BY <1>2, <1>4, <1>5 DEF more

LEMMA DecimalHolds ==
  ASSUME NEW n \in Nat PROVE DecimalOfNumber(n, Decimal[n])
<1> DEFINE T == {k \in Nat : DecimalOfNumber(k, Decimal[k])}
<1>1. ASSUME NEW k \in Nat, \A i \in 0 .. k - 1 : i \in T PROVE k \in T
  <2>1. LastDigit(k) \in Numeral /\ Value(LastDigit(k)) = k % 10
    BY DigitOf
  <2> DEFINE text == Decimal[k]
  <2>2. CASE k < 10
    <3> DEFINE none == <<>>
    <3>1. none \in Text /\ Len(none) = 0 /\ IsNumeric(none) /\ ToInt(none) = 0
      BY EmptySeq, ToIntEmpty DEF Text, IsNumeric
    <3>2. text = Append(none, LastDigit(k))
      <4>1. text = <<Digit[k + 1]>> /\ Digit[k + 1] = LastDigit(k)
        BY <2>2, DecimalIs, DigitOf
      <4>2. ASSUME NEW c PROVE Append(<<>>, c) = <<c>>
        OBVIOUS
      <4> HIDE DEF text
      <4> QED BY <4>1, <4>2
    <3> DEFINE c == LastDigit(k)
    <3> HIDE DEF none, text, c
    <3>3. text \in Text /\ IsNumeric(text) /\ Len(text) = 1 /\ ToInt(text) = 10 * 0 + (k % 10)
      <4>1. c \in Numeral /\ Value(c) = k % 10 /\ text = Append(none, c)
        BY <2>1, <3>2 DEF c
      <4>2. /\ Append(none, c) \in Text /\ IsNumeric(Append(none, c))
            /\ Len(Append(none, c)) = Len(none) + 1
            /\ ToInt(Append(none, c)) = 10 * ToInt(none) + Value(c)
        BY <3>1, <4>1, OneMoreDigit
      <4> QED BY <3>1, <4>1, <4>2
    <3>4. ToInt(text) = k
      BY <2>2, <3>3, Division
    <3>5. ASSUME NEW j \in 1 .. Len(text) PROVE SubSeq(text, 1, j) = Decimal[k]
      <4>1. j = Len(text)
        BY <3>3
      <4> QED BY <3>3, <4>1, WholeBeginning DEF text
    <3>6. DecimalOfNumber(k, text)
      BY <3>3, <3>4, <3>5 DEF DecimalOfNumber
    <3> QED BY <3>6 DEF text
  <2>3. CASE k >= 10
    <3> DEFINE q == k \div 10
               first == Decimal[q]
    <3>1. q \in Nat /\ q \in 0 .. k - 1 /\ k = 10 * q + (k % 10)
      BY <2>3, Division
    <3>2. DecimalOfNumber(q, first)
      BY <1>1, <3>1
    <3>3. text = Append(first, LastDigit(k))
      <4>1. ~(k < 10)
        BY <2>3
      <4> QED BY <4>1, DecimalIs
    <3> HIDE DEF first, text, q
    <3>4. first \in Text /\ IsNumeric(first) /\ Len(first) >= 1 /\ ToInt(first) = q
      BY <3>2 DEF DecimalOfNumber
    <3>5. /\ text \in Text /\ IsNumeric(text) /\ Len(text) = Len(first) + 1
          /\ ToInt(text) = 10 * q + (k % 10)
      BY <2>1, <3>3, <3>4, OneMoreDigit
    <3>6. Len(first) \in Nat
      BY <3>4, LenProperties DEF Text
    <3>7. ASSUME NEW j \in 1 .. Len(text) PROVE \E m \in Nat : SubSeq(text, 1, j) = Decimal[m]
      <4>1. CASE j = Len(text)
        <5>1. SubSeq(text, 1, j) = Decimal[k]
          BY <3>5, <4>1, WholeBeginning DEF text
        <5> QED BY <5>1
      <4>2. CASE j # Len(text)
        <5>1. j \in 1 .. Len(first) /\ j \in 0 .. Len(first) + 1 /\ j <= Len(first)
          BY <3>5, <3>6, <4>2
        <5>2. LastDigit(k) \in Char /\ <<LastDigit(k)>> \in Text /\ Len(<<LastDigit(k)>>) = 1
          BY <2>1, Marks, OneChar DEF Text
        <5>3. text = first \o <<LastDigit(k)>>
          BY <3>3, <3>4, <5>2, AppendIsConcat DEF Text
        <5>4. SubSeq(text, 1, j) = SubSeq(first, 1, j)
          BY <3>4, <5>1, <5>2, <5>3, BeginningOfConcat DEF Text
        <5>5. \E m \in Nat : SubSeq(first, 1, j) = Decimal[m]
          BY <3>2, <5>1 DEF DecimalOfNumber
        <5> QED BY <5>4, <5>5
      <4> QED BY <4>1, <4>2
    <3>8. Len(text) >= 1 /\ ToInt(text) = k
      BY <3>1, <3>5, <3>6
    <3>9. DecimalOfNumber(k, text)
      BY <3>5, <3>7, <3>8 DEF DecimalOfNumber
    <3> QED BY <3>9 DEF text
  <2>4. k < 10 \/ k >= 10
    OBVIOUS
  <2> QED BY <2>2, <2>3, <2>4
<1>2. Nat \subseteq T
  <2> HIDE DEF T
  <2> QED BY <1>1, CompleteInduction
<1> QED BY <1>2

\* What the proofs below use of it.
LEMMA DecimalText ==
  ASSUME NEW n \in Nat
  PROVE  /\ Decimal[n] \in Text /\ IsNumeric(Decimal[n]) /\ Len(Decimal[n]) \in Nat \ {0}
         /\ ToInt(Decimal[n]) = n
<1>1. /\ Decimal[n] \in Text /\ IsNumeric(Decimal[n]) /\ Len(Decimal[n]) >= 1
      /\ ToInt(Decimal[n]) = n
  BY DecimalHolds DEF DecimalOfNumber
<1>2. Len(Decimal[n]) \in Nat
  BY <1>1, LenProperties DEF Text
<1> QED BY <1>1, <1>2

-----------------------------------------------------------------------------
(* Finding a character, and reading the digits at the beginning.           *)

\* A mark that the text before it lacks is found where it is.
LEMMA FindAt ==
  ASSUME NEW cs, NEW a \in Text, Lacks(a, cs), NEW c \in Char, c \in cs, NEW b \in Text
  PROVE  Find(a \o (<<c>> \o b), cs) = Len(a) + 1
<1> DEFINE tail == <<c>> \o b
           text == a \o tail
<1>1. tail \in Text /\ Len(tail) = 1 + Len(b) /\ tail[1] = c /\ Len(b) \in Nat
  <2>1. <<c>> \in Text /\ Len(<<c>>) = 1 /\ <<c>>[1] = c
    BY OneChar DEF Text
  <2>2. \A i \in 1 .. Len(<<c>>) : (<<c>> \o b)[i] = <<c>>[i]
    BY <2>1, Concat DEF Text
  <2>3. tail \in Text /\ Len(tail) = Len(<<c>>) + Len(b) /\ Len(b) \in Nat
    BY <2>1, Concat DEF Text
  <2> HIDE DEF tail
  <2>4. 1 \in 1 .. Len(<<c>>)
    BY <2>1
  <2> QED BY <2>1, <2>2, <2>3, <2>4 DEF tail
<1> HIDE DEF tail
<1>2. /\ text \in Text /\ Len(a) \in Nat /\ Len(text) = Len(a) + Len(tail)
      /\ \A i \in 1 .. Len(a) : text[i] = a[i]
      /\ \A i \in 1 .. Len(tail) : text[Len(a) + i] = tail[i]
  <2>1. a \in Seq(Char) /\ tail \in Seq(Char) /\ Text = Seq(Char)
    BY <1>1 DEF Text
  <2> QED BY <2>1, Concat
<1> HIDE DEF text
<1> DEFINE k == Len(a) + 1
<1>3. k \in 1 .. Len(text) /\ 1 \in 1 .. Len(tail)
  BY <1>1, <1>2
<1>4. text[k] \in cs
  BY <1>1, <1>2, <1>3
<1>5. \A i \in 1 .. k - 1 : text[i] \notin cs
  <2>1. \A i \in 1 .. k - 1 : i \in 1 .. Len(a)
    BY <1>2
  <2> QED BY <1>2, <2>1 DEF Lacks
<1> HIDE DEF k
<1>6. FirstOf(text, Find(text, cs), cs)
  BY FindFirst
<1>7. Find(text, cs) = k
  BY <1>2, <1>3, <1>4, <1>5, <1>6, FirstIs DEF Text
<1> QED BY <1>7 DEF text, tail, k

LEMMA FindNone ==
  ASSUME NEW cs, NEW a, Lacks(a, cs) PROVE Find(a, cs) = 0
BY FindFirst, FirstIsNone DEF Lacks

LEMMA DigitsDef ==
  ASSUME NEW text \in Text
  PROVE  \E n : /\ FirstOf(text, n, Char \ Numeral)
                /\ Digits(text) = IF n = 0 THEN text ELSE SubSeq(text, 1, n - 1)
<1> DEFINE n == SelectInSeq(text, LAMBDA c : ~Contains(Digit, c))
           I == {i \in 1 .. Len(text) : ~Contains(Digit, text[i])}
           J == {i \in 1 .. Len(text) : text[i] \in Char \ Numeral}
<1>1. n = IF I # {} THEN Min(I) ELSE 0
  BY DEF SelectInSeq
<1>2. I = J
  <2>1. \A i \in 1 .. Len(text) : text[i] \in Char
    BY ElementOfSeq DEF Text
  <2>2. \A i \in 1 .. Len(text) : ~Contains(Digit, text[i]) <=> text[i] \in Char \ Numeral
    BY <2>1, ContainsDigit
  <2> QED BY <2>2
<1>3. FirstOf(text, n, Char \ Numeral)
  <2>1. n = IF J # {} THEN Min(J) ELSE 0
    BY <1>1, <1>2
  <2> HIDE DEF n
  <2> QED BY <2>1 DEF FirstOf
<1>4. Digits(text) = IF n = 0 THEN text ELSE SubSeq(text, 1, n - 1)
  BY DEF Digits
<1> HIDE DEF n
<1> QED BY <1>3, <1>4

\* What follows a number does not begin with a numeral.
NoNumeralFirst(text) == text = <<>> \/ (Len(text) >= 1 /\ text[1] \notin Numeral)

\* Exactly the number at the beginning is read.
LEMMA DigitsOf ==
  ASSUME NEW a \in Text, IsNumeric(a), NEW b \in Text, NoNumeralFirst(b)
  PROVE  Digits(a \o b) = a
<1> DEFINE text == a \o b
<1>1. /\ text \in Text /\ Len(a) \in Nat /\ Len(b) \in Nat /\ Len(text) = Len(a) + Len(b)
      /\ \A i \in 1 .. Len(a) : text[i] = a[i]
      /\ \A i \in 1 .. Len(b) : text[Len(a) + i] = b[i]
  BY Concat DEF Text
<1>2. \A i \in 1 .. Len(a) : text[i] \notin Char \ Numeral
  BY <1>1 DEF IsNumeric
<1>3. PICK n : /\ FirstOf(text, n, Char \ Numeral)
               /\ Digits(text) = IF n = 0 THEN text ELSE SubSeq(text, 1, n - 1)
  BY <1>1, DigitsDef
<1>4. CASE b = <<>>
  <2>1. text = a
    BY <1>4, ConcatEmptySeq DEF Text
  <2> HIDE DEF text
  <2>2. n = 0
    BY <1>2, <1>3, <2>1, FirstIsNone
  <2> QED BY <1>3, <2>1, <2>2 DEF text
<1>5. CASE b # <<>>
  <2>1. Len(b) >= 1 /\ b[1] \notin Numeral
    BY <1>5 DEF NoNumeralFirst
  <2> DEFINE k == Len(a) + 1
  <2>2. k \in 1 .. Len(text) /\ 1 \in 1 .. Len(b)
    BY <1>1, <2>1
  <2>3. text[k] = b[1] /\ b[1] \in Char
    BY <1>1, <2>2, ElementOfSeq DEF Text
  <2>4. \A i \in 1 .. k - 1 : text[i] \notin Char \ Numeral
    <3>1. \A i \in 1 .. k - 1 : i \in 1 .. Len(a)
      BY <1>1
    <3> QED BY <1>2, <3>1
  <2>5. text[k] \in Char \ Numeral
    BY <2>1, <2>3
  <2> DEFINE S == Char \ Numeral
  <2>6. n = k
    <3>1. FirstOf(text, n, S) /\ text[k] \in S /\ \A i \in 1 .. k - 1 : text[i] \notin S
      BY <1>3, <2>4, <2>5
    <3>2. text \in Seq(Char)
      BY <1>1 DEF Text
    <3> HIDE DEF S, text, k
    <3> QED BY <2>2, <3>1, <3>2, FirstIs
  <2> HIDE DEF text, k
  <2>7. n # 0 /\ n - 1 = Len(a)
    BY <1>1, <2>6 DEF k
  <2>8. Digits(text) = SubSeq(text, 1, Len(a))
    BY <1>3, <2>7
  <2>9. SubSeq(text, 1, Len(a)) = SubSeq(a, 1, Len(a))
    <3>1. Len(a) \in 0 .. Len(a) + Len(b) /\ Len(a) <= Len(a)
      BY <1>1
    <3> QED BY <3>1, BeginningOfConcat DEF text, Text
  <2>10. SubSeq(a, 1, Len(a)) = a
    BY WholeBeginning
  <2> QED BY <2>8, <2>9, <2>10 DEF text
<1> QED BY <1>4, <1>5

\* A number read back, whatever follows it.
LEMMA NumberRead ==
  ASSUME NEW n \in Nat, NEW b \in Text, NoNumeralFirst(b)
  PROVE  Digits(Decimal[n] \o b) = Decimal[n] /\ ToInt(Digits(Decimal[n] \o b)) = n
<1>1. Decimal[n] \in Text /\ IsNumeric(Decimal[n]) /\ ToInt(Decimal[n]) = n
  BY DecimalText
<1>2. Digits(Decimal[n] \o b) = Decimal[n]
  BY <1>1, DigitsOf
<1> QED BY <1>1, <1>2

LEMMA NumberAlone ==
  ASSUME NEW n \in Nat
  PROVE  Digits(Decimal[n]) = Decimal[n] /\ ToInt(Digits(Decimal[n])) = n
<1> DEFINE none == <<>>
<1>1. none \in Text /\ NoNumeralFirst(none)
  BY EmptySeq DEF Text, NoNumeralFirst
<1>2. Decimal[n] \o none = Decimal[n]
  BY DecimalText, ConcatEmptySeq DEF Text
<1> HIDE DEF none
<1> QED BY <1>1, <1>2, NumberRead

LEMMA DigitsOfNone == Digits(<<>>) = <<>>
<1> DEFINE none == <<>>
<1>1. none \in Text /\ IsNumeric(none) /\ NoNumeralFirst(none)
  BY EmptySeq DEF Text, IsNumeric, NoNumeralFirst
<1>2. none \o none = none
  BY <1>1, ConcatEmptySeq DEF Text
<1> HIDE DEF none
<1>3. Digits(none) = none
  BY <1>1, <1>2, DigitsOf
<1> QED BY <1>3 DEF none

-----------------------------------------------------------------------------
(* The numbers of a set, in order.                                         *)

LEMMA AscendingIs ==
  ASSUME NEW S \in SUBSET Nat, IsFiniteSet(S)
  PROVE  /\ Cardinality(S) \in Nat
         /\ Ascending(S) \in [1 .. Cardinality(S) -> S]
         /\ S = {Ascending(S)[i] : i \in 1 .. Cardinality(S)}
<1> DEFINE n == Cardinality(S)
           Good(s) == \A i \in 1 .. n - 1 : s[i] < s[i + 1]
<1>1. n \in Nat /\ ExistsBijection(1 .. n, S)
  BY FS_CardinalityType
<1>2. PICK key \in Bijection(1 .. n, S) : TRUE
  BY <1>1 DEF ExistsBijection
<1>3. /\ key \in [1 .. n -> S] /\ key \in [1 .. n -> Nat]
      /\ \A i, j \in 1 .. n : key[i] = key[j] => i = j
  BY <1>2 DEF Bijection, Injection, IsInjective
<1> HIDE DEF n
<1>4. PICK f : IsOrder(f, n, key)
  BY <1>1, <1>3, OrderExists
<1>5. /\ f \in [1 .. n -> 1 .. n] /\ \A i, j \in 1 .. n : f[i] = f[j] => i = j
      /\ \A i \in 1 .. n - 1 : key[f[i]] <= key[f[i + 1]]
  BY <1>4 DEF IsOrder, IsInjective
<1> DEFINE s == [i \in 1 .. n |-> key[f[i]]]
<1>6. s \in [1 .. n -> S]
  BY <1>3, <1>5
<1>7. Good(s)
  <2> SUFFICES ASSUME NEW i \in 1 .. n - 1 PROVE s[i] < s[i + 1]
    OBVIOUS
  <2>1. i \in 1 .. n /\ i + 1 \in 1 .. n /\ i # i + 1
    BY <1>1
  <2>2. f[i] \in 1 .. n /\ f[i + 1] \in 1 .. n /\ f[i] # f[i + 1]
    BY <1>5, <2>1
  <2>3. key[f[i]] \in Nat /\ key[f[i + 1]] \in Nat /\ key[f[i]] # key[f[i + 1]]
    BY <1>3, <2>2
  <2> QED BY <1>5, <2>1, <2>3
<1> HIDE DEF s, Good
<1> DEFINE a == Ascending(S)
<1>8. a = CHOOSE t \in [1 .. n -> S] : Good(t)
  BY DEF Ascending, Good, n
<1>9. a \in [1 .. n -> S] /\ Good(a)
  BY <1>6, <1>7, <1>8, Zenon
<1> HIDE DEF a
<1>10. \A i, j \in 1 .. n : a[i] = a[j] => i = j
  <2>1. a \in [1 .. n -> Nat] /\ \A i \in 1 .. n - 1 : a[i] < a[i + 1]
    BY <1>9 DEF Good
  <2>2. \A i, j \in 1 .. n : i < j => a[i] < a[j]
    BY <1>1, <2>1, Increasing
  <2> SUFFICES ASSUME NEW i \in 1 .. n, NEW j \in 1 .. n, a[i] = a[j] PROVE i = j
    OBVIOUS
  <2>3. a[i] \in Nat /\ a[j] \in Nat /\ i \in Nat /\ j \in Nat
    BY <1>1, <2>1
  <2>4. ~(i < j) /\ ~(j < i)
    BY <2>2, <2>3
  <2> QED BY <2>3, <2>4
<1>11. a \in Injection(1 .. n, S)
  BY <1>9, <1>10 DEF Injection, IsInjective
<1>12. IsFiniteSet(1 .. n) /\ Cardinality(1 .. n) = n
  <2>1. 1 \in Int /\ n \in Int
    BY <1>1
  <2>2. IsFiniteSet(1 .. n) /\ Cardinality(1 .. n) = IF 1 > n THEN 0 ELSE n - 1 + 1
    BY <2>1, FS_Interval
  <2> QED BY <1>1, <2>2
<1>13. a \in Surjection(1 .. n, S)
  BY <1>11, <1>12, FS_Injection DEF n
<1>14. S = {a[i] : i \in 1 .. n}
  BY <1>9, <1>13 DEF Surjection
<1> QED BY <1>1, <1>9, <1>14 DEF a, n

-----------------------------------------------------------------------------
(* Lists of numbers.                                                       *)

\* Where the numbers of a list begin.
Places(text) == {1} \cup {j + 1 : j \in {x \in 1 .. Len(text) : text[x] = Comma}}

\* The numbers read in front of the text r.
Items(list, r) == {ToInt(Digits(From(list \o r, i))) : i \in Places(list)}

\* A list of the numbers V: whatever follows it, they are read.
IsList(list, V) ==
  /\ list \in Text /\ Len(list) \in Nat \ {0} /\ list[1] \in Numeral
  /\ \A i \in 1 .. Len(list) : list[i] \in Numeral \cup {Comma}
  /\ \A r \in Text : NoNumeralFirst(r) => Items(list, r) = V

LEMMA PlacesWithout ==
  ASSUME NEW a \in Text, NEW b \in Text, Lacks(b, {Comma})
  PROVE  Places(a \o b) = Places(a)
<1> DEFINE t == a \o b
           I == {x \in 1 .. Len(t) : t[x] = Comma}
           J == {x \in 1 .. Len(a) : a[x] = Comma}
<1>1. /\ Len(a) \in Nat /\ Len(b) \in Nat /\ Len(t) = Len(a) + Len(b)
      /\ \A i \in 1 .. Len(a) : t[i] = a[i]
      /\ \A i \in 1 .. Len(b) : t[Len(a) + i] = b[i]
  BY TextConcat
<1> HIDE DEF t
<1>2. ASSUME NEW x \in I PROVE x \in J
  <2>1. CASE x <= Len(a)
    BY <1>1, <2>1
  <2>2. CASE ~(x <= Len(a))
    <3>1. x - Len(a) \in 1 .. Len(b) /\ Len(a) + (x - Len(a)) = x
      BY <1>1, <2>2
    <3>2. t[x] = b[x - Len(a)]
      BY <1>1, <3>1
    <3>3. b[x - Len(a)] # Comma
      BY <3>1 DEF Lacks
    <3> QED BY <3>2, <3>3
  <2> QED BY <2>1, <2>2
<1>3. ASSUME NEW x \in J PROVE x \in I
  BY <1>1
<1>4. I = J
  BY <1>2, <1>3
<1> QED BY <1>4 DEF Places, t

LEMMA PlacesComma ==
  ASSUME NEW a \in Text
  PROVE  Places(a \o <<Comma>>) = Places(a) \cup {Len(a) + 2}
<1> DEFINE t == a \o <<Comma>>
           I == {x \in 1 .. Len(t) : t[x] = Comma}
           J == {x \in 1 .. Len(a) : a[x] = Comma}
<1>1. /\ Len(a) \in Nat /\ Len(t) = Len(a) + 1
      /\ \A i \in 1 .. Len(a) : t[i] = a[i]
      /\ t[Len(a) + 1] = Comma
  <2> DEFINE b == <<Comma>>
  <2>1. b \in Text /\ Len(b) = 1 /\ b[1] = Comma /\ 1 \in 1 .. 1
    BY OneChar, Marks DEF Text
  <2> HIDE DEF b
  <2>2. /\ Len(a) \in Nat /\ Len(a \o b) = Len(a) + Len(b)
        /\ \A i \in 1 .. Len(a) : (a \o b)[i] = a[i]
        /\ \A i \in 1 .. Len(b) : (a \o b)[Len(a) + i] = b[i]
    BY <2>1, TextConcat
  <2> QED BY <2>1, <2>2 DEF b
<1> HIDE DEF t
<1>2. I = J \cup {Len(a) + 1}
  <2>1. \A x \in 1 .. Len(t) : x \in 1 .. Len(a) \/ x = Len(a) + 1
    BY <1>1
  <2>2. \A x \in 1 .. Len(a) : x \in 1 .. Len(t)
    BY <1>1
  <2>3. Len(a) + 1 \in 1 .. Len(t)
    BY <1>1
  <2> QED BY <1>1, <2>1, <2>2, <2>3
<1>3. {j + 1 : j \in I} = {j + 1 : j \in J} \cup {Len(a) + 2}
  <2>1. (Len(a) + 1) + 1 = Len(a) + 2
    BY <1>1
  <2> HIDE DEF I, J
  <2> QED BY <1>2, <2>1
<1> QED BY <1>3 DEF Places, t

LEMMA NumeralsOnly ==
  ASSUME NEW n \in Nat, NEW c \in Sign PROVE Lacks(Decimal[n], {c})
BY DecimalText, Marks DEF IsNumeric, Lacks

LEMMA FirstItem ==
  ASSUME NEW n \in Nat PROVE IsList(Decimal[n], {n})
<1> DEFINE d == Decimal[n]
<1>1. d \in Text /\ IsNumeric(d) /\ Len(d) \in Nat \ {0}
  BY DecimalText
<1>2. \A r \in Text : NoNumeralFirst(r) => d \o r \in Text /\ ToInt(Digits(d \o r)) = n
  BY <1>1, NumberRead, TextConcat
<1>3. \A i \in 1 .. Len(d) : d[i] # Comma
  BY NumeralsOnly, Marks DEF Lacks
<1> HIDE DEF d
<1>4. Places(d) = {1}
  BY <1>3 DEF Places
<1>5. ASSUME NEW r \in Text, NoNumeralFirst(r) PROVE Items(d, r) = {n}
  <2>1. d \o r \in Text /\ ToInt(Digits(d \o r)) = n
    BY <1>2, <1>5
  <2>2. From(d \o r, 1) = d \o r
    BY <2>1, WholeBeginning DEF From
  <2> QED BY <1>4, <2>1, <2>2 DEF Items
<1>6. 1 \in 1 .. Len(d) /\ \A i \in 1 .. Len(d) : d[i] \in Numeral
  BY <1>1 DEF IsNumeric
<1> QED BY <1>1, <1>5, <1>6 DEF IsList, d

LEMMA NextItem ==
  ASSUME NEW L, NEW V, IsList(L, V), NEW n \in Nat
  PROVE  IsList(L \o (<<Comma>> \o Decimal[n]), V \cup {n})
<1> DEFINE c == <<Comma>>
           d == Decimal[n]
           e == c \o d
           M == L \o e
<1>1. /\ L \in Text /\ Len(L) \in Nat \ {0} /\ L[1] \in Numeral
      /\ \A i \in 1 .. Len(L) : L[i] \in Numeral \cup {Comma}
      /\ \A r \in Text : NoNumeralFirst(r) => Items(L, r) = V
  BY DEF IsList
<1>2. c \in Text /\ Len(c) = 1 /\ c[1] = Comma
  BY OneChar, Marks DEF Text
<1>3. d \in Text /\ Len(d) \in Nat \ {0} /\ IsNumeric(d) /\ Lacks(d, {Comma})
  BY DecimalText, NumeralsOnly, Marks
<1>4. \A r \in Text : NoNumeralFirst(r) => ToInt(Digits(d \o r)) = n
  BY NumberRead
<1> HIDE DEF c, d
<1>5. /\ e \in Text /\ Len(e) = 1 + Len(d)
      /\ e[1] = Comma /\ \A i \in 1 .. Len(d) : e[1 + i] = d[i]
  <2>1. /\ e \in Text /\ Len(e) = Len(c) + Len(d)
        /\ \A i \in 1 .. Len(c) : e[i] = c[i]
        /\ \A i \in 1 .. Len(d) : e[Len(c) + i] = d[i]
    BY <1>2, <1>3, TextConcat
  <2> QED BY <1>2, <2>1
<1> HIDE DEF e
<1>6. /\ M \in Text /\ Len(M) = Len(L) + Len(e)
      /\ \A i \in 1 .. Len(L) : M[i] = L[i]
      /\ \A i \in 1 .. Len(e) : M[Len(L) + i] = e[i]
  BY <1>1, <1>5, TextConcat
<1> HIDE DEF M
<1>7. \A i \in 1 .. Len(e) : e[i] \in Numeral \cup {Comma}
  <2> SUFFICES ASSUME NEW i \in 1 .. Len(e) PROVE e[i] \in Numeral \cup {Comma}
    OBVIOUS
  <2>1. CASE i = 1
    BY <1>5, <2>1
  <2>2. CASE i # 1
    <3>1. i - 1 \in 1 .. Len(d) /\ 1 + (i - 1) = i
      BY <1>3, <1>5, <2>2
    <3>2. e[i] = d[i - 1] /\ d[i - 1] \in Numeral
      BY <1>3, <1>5, <3>1 DEF IsNumeric
    <3> QED BY <3>2
  <2> QED BY <2>1, <2>2
<1>8. \A i \in 1 .. Len(M) : M[i] \in Numeral \cup {Comma}
  <2> SUFFICES ASSUME NEW i \in 1 .. Len(M) PROVE M[i] \in Numeral \cup {Comma}
    OBVIOUS
  <2>1. CASE i <= Len(L)
    BY <1>1, <1>6, <2>1
  <2>2. CASE ~(i <= Len(L))
    <3>1. i - Len(L) \in 1 .. Len(e) /\ Len(L) + (i - Len(L)) = i
      BY <1>1, <1>3, <1>5, <1>6, <2>2
    <3>2. M[i] = e[i - Len(L)]
      BY <1>6, <3>1
    <3> QED BY <1>7, <3>1, <3>2
  <2> QED BY <2>1, <2>2
<1>9. Places(M) = Places(L) \cup {Len(L) + 2}
  <2>1. M = (L \o c) \o d
    BY <1>1, <1>2, <1>3, TextAssociative DEF M, e
  <2>2. L \o c \in Text
    BY <1>1, <1>2, TextConcat
  <2>3. Places((L \o c) \o d) = Places(L \o c)
    BY <1>3, <2>2, PlacesWithout
  <2>4. Places(L \o c) = Places(L) \cup {Len(L) + 2}
    BY <1>1, PlacesComma DEF c
  <2> QED BY <2>1, <2>3, <2>4
<1>10. ASSUME NEW r \in Text, NoNumeralFirst(r) PROVE Items(M, r) = V \cup {n}
  <2> DEFINE t == e \o r
             u == d \o r
             all == M \o r
  <2>1. t \in Text /\ NoNumeralFirst(t)
    <3>1. /\ t \in Text /\ Len(t) = Len(e) + Len(r) /\ Len(r) \in Nat
          /\ \A i \in 1 .. Len(e) : t[i] = e[i]
      BY <1>5, TextConcat
    <3>2. 1 \in 1 .. Len(e) /\ Len(t) >= 1
      BY <1>3, <1>5, <3>1
    <3>3. t[1] = Comma /\ Comma \notin Numeral
      BY <1>5, <3>1, <3>2, Marks
    <3> QED BY <3>1, <3>2, <3>3 DEF NoNumeralFirst
  <2>2. Items(L, t) = V
    BY <1>1, <2>1
  <2>3. all = L \o t
    BY <1>1, <1>5, TextAssociative DEF M
  <2>4. all = (L \o c) \o u
    <3>1. t = c \o u /\ u \in Text
      BY <1>2, <1>3, TextAssociative, TextConcat DEF e
    <3> HIDE DEF t, u, all
    <3>2. L \o (c \o u) = (L \o c) \o u
      BY <1>1, <1>2, <3>1, TextAssociative
    <3> QED BY <2>3, <3>1, <3>2
  <2>5. u \in Text /\ ToInt(Digits(u)) = n
    BY <1>3, <1>4, <1>10, TextConcat
  <2> HIDE DEF t, u, all
  <2>6. L \o c \in Text /\ Len(L \o c) = Len(L) + 1
    <3>1. L \in Text /\ c \in Text /\ Len(c) = 1
      BY <1>1, <1>2
    <3>2. L \o c \in Text /\ Len(L \o c) = Len(L) + Len(c)
      BY <3>1, TextConcat
    <3> QED BY <3>1, <3>2
  <2>7. From(all, Len(L) + 2) = u
    <3>1. From((L \o c) \o u, Len(L \o c) + 1) = u
      BY <2>5, <2>6, FromConcat DEF Text
    <3>2. Len(L \o c) + 1 = Len(L) + 2
      BY <1>1, <2>6
    <3> QED BY <2>4, <3>1, <3>2
  <2>8. Items(M, r) = {ToInt(Digits(From(all, i))) : i \in Places(L)}
                        \cup {ToInt(Digits(From(all, Len(L) + 2)))}
    BY <1>9 DEF Items, all
  <2>9. {ToInt(Digits(From(all, i))) : i \in Places(L)} = Items(L, t)
    BY <2>3 DEF Items
  <2> QED BY <2>2, <2>5, <2>7, <2>8, <2>9
<1>11. Len(M) \in Nat \ {0} /\ M[1] \in Numeral
  <2>1. 1 \in 1 .. Len(L) /\ Len(M) \in Nat \ {0}
    BY <1>1, <1>3, <1>5, <1>6
  <2> QED BY <1>1, <1>6, <2>1
<1>12. IsList(M, V \cup {n})
  BY <1>6, <1>8, <1>10, <1>11 DEF IsList
<1> QED BY <1>12 DEF M, e, c, d

\* The numbers of a set, listed.
LEMMA ListedIs ==
  ASSUME NEW S \in SUBSET Nat, IsFiniteSet(S)
  PROVE  /\ S = {} => Listed(S) = <<>>
         /\ S # {} => IsList(Listed(S), S)
<1> DEFINE n == Cardinality(S)
           a == Ascending(S)
           item(i) == (IF i = 1 THEN <<>> ELSE <<",">>) \o Decimal[a[i]]
           seqs == [i \in 1 .. n |-> item(i)]
           flat(k) == FlattenSeq(SubSeq(seqs, 1, k))
<1>1. n \in Nat /\ a \in [1 .. n -> S] /\ S = {a[i] : i \in 1 .. n}
  BY AscendingIs
<1>2. Listed(S) = FlattenSeq(seqs)
  BY DEF Listed
<1> HIDE DEF n, a
<1>3. ASSUME NEW i \in 1 .. n
      PROVE  /\ item(i) \in Text
             /\ i = 1 => item(i) = Decimal[a[i]]
             /\ i # 1 => item(i) = <<Comma>> \o Decimal[a[i]]
  <2> DEFINE none == <<>>
             comma == <<Comma>>
             d == Decimal[a[i]]
  <2>1. a[i] \in Nat
    BY <1>1
  <2>2. d \in Text
    BY <2>1, DecimalText
  <2>3. none \in Text /\ comma \in Text /\ none \o d = d
    <3>1. Comma \in Char
      BY Marks
    <3>2. comma \in Text
      BY <3>1, OneChar DEF Text
    <3>3. none \in Text
      BY EmptySeq DEF Text
    <3>4. none \o d = d
      BY <2>2, ConcatEmptySeq DEF Text
    <3> QED BY <3>2, <3>3, <3>4
  <2>4. item(i) = (IF i = 1 THEN none ELSE comma) \o d
    BY Zenon DEF Comma
  <2> HIDE DEF none, comma, d, item
  <2>5. comma \o d \in Text
    BY <2>2, <2>3, TextConcat
  <2>6. /\ item(i) \in Text
        /\ i = 1 => item(i) = d
        /\ i # 1 => item(i) = comma \o d
    BY <2>2, <2>3, <2>4, <2>5
  <2> QED BY <2>6 DEF d, comma
<1> HIDE DEF item
<1>4. seqs \in Seq(Text) /\ Len(seqs) = n /\ \A i \in 1 .. n : seqs[i] = item(i)
  <2>1. \A i \in 1 .. n : item(i) \in Text
    BY <1>3
  <2>2. \A i \in 1 .. n : seqs[i] = item(i)
    OBVIOUS
  <2>3. seqs \in [1 .. n -> Text]
    BY <2>1
  <2> HIDE DEF seqs
  <2>4. seqs \in Seq(Text) /\ Len(seqs) = n
    BY <1>1, <2>3, SeqDef, LenProperties
  <2> QED BY <2>2, <2>4
<1> HIDE DEF seqs
<1>5. ASSUME NEW i \in 1 .. n PROVE flat(i - 1) \in Text /\ flat(i) = flat(i - 1) \o seqs[i]
  <2>1. seqs \in Seq(Seq(Char)) /\ i \in 1 .. Len(seqs)
    BY <1>4 DEF Text
  <2> QED BY <2>1, FlattenPrefix DEF Text
<1>6. flat(0) = <<>>
  <2>1. SubSeq(seqs, 1, 0) = <<>>
    <3>1. Len(SubSeq(seqs, 1, 0)) = 0 /\ SubSeq(seqs, 1, 0) \in Seq(Text)
      <4>1. 0 \in 0 .. Len(seqs)
        BY <1>1, <1>4
      <4> QED BY <1>4, <4>1, Beginning
    <3> HIDE DEF flat
    <3> QED BY <3>1, EmptySeq
  <2> QED BY <2>1, FlattenEmpty
<1> HIDE DEF flat
<1> DEFINE part(k) == {a[i] : i \in 1 .. k}
           T == {k \in 0 .. n : k # 0 => IsList(flat(k), part(k))}
<1>7. 0 \in T
  BY <1>1
<1>8. ASSUME NEW k \in 0 .. n - 1, k \in T PROVE k + 1 \in T
  <2>1. k + 1 \in 1 .. n /\ (k + 1) - 1 = k /\ k + 1 \in 0 .. n
    BY <1>1
  <2>2. a[k + 1] \in Nat
    BY <1>1, <2>1
  <2>3. flat(k + 1) = flat(k) \o seqs[k + 1] /\ flat(k) \in Text /\ seqs[k + 1] = item(k + 1)
    <3>1. flat((k + 1) - 1) \in Text /\ flat(k + 1) = flat((k + 1) - 1) \o seqs[k + 1]
      BY <1>5, <2>1
    <3> QED BY <1>4, <2>1, <3>1
  <2>4. part(k + 1) = part(k) \cup {a[k + 1]}
    <3>1. \A i : i \in 1 .. k + 1 <=> i \in 1 .. k \/ i = k + 1
      OBVIOUS
    <3> QED BY <3>1
  <2>5. IsList(flat(k + 1), part(k + 1))
    <3>1. CASE k = 0
      <4>1. flat(k + 1) = seqs[k + 1]
        <5>1. seqs[k + 1] \in Text
          BY <1>3, <2>1, <2>3
        <5>2. <<>> \o seqs[k + 1] = seqs[k + 1]
          BY <5>1, ConcatEmptySeq DEF Text
        <5>3. flat(k) = <<>>
          BY <1>6, <3>1
        <5> QED BY <2>3, <5>2, <5>3
      <4>2. seqs[k + 1] = Decimal[a[k + 1]]
        BY <1>3, <2>1, <2>3, <3>1
      <4>3. part(k) = {}
        BY <3>1
      <4>4. part(k + 1) = {a[k + 1]}
        BY <2>4, <4>3
      <4> HIDE DEF part
      <4> QED BY <2>2, <4>1, <4>2, <4>4, FirstItem
    <3>2. CASE k # 0
      <4>1. IsList(flat(k), part(k))
        BY <1>8, <3>2
      <4>2. k + 1 # 1
        BY <3>2
      <4>3. seqs[k + 1] = <<Comma>> \o Decimal[a[k + 1]]
        BY <1>3, <2>1, <2>3, <4>2
      <4> HIDE DEF part
      <4>4. IsList(flat(k) \o (<<Comma>> \o Decimal[a[k + 1]]), part(k) \cup {a[k + 1]})
        BY <2>2, <4>1, NextItem
      <4> QED BY <2>3, <2>4, <4>3, <4>4
    <3> QED BY <3>1, <3>2
  <2> HIDE DEF part
  <2> QED BY <2>1, <2>5
<1>9. n \in T
  <2> HIDE DEF T
  <2>1. \A k \in 0 .. n - 1 : k \in T => k + 1 \in T
    BY <1>8
  <2>2. n \in 0 .. n
    BY <1>1
  <2> QED BY <1>1, <1>7, <2>1, <2>2, InductionUpTo
<1>10. flat(n) = FlattenSeq(seqs)
  <2>1. SubSeq(seqs, 1, n) = seqs
    BY <1>4, SubSeqFull
  <2> QED BY <2>1 DEF flat
<1>11. part(n) = S
  BY <1>1
<1>12. S = {} => n = 0
  BY FS_EmptySet DEF n
<1>13. n = 0 => S = {}
  <2>1. n = 0 => {a[i] : i \in 1 .. n} = {}
    OBVIOUS
  <2> QED BY <1>1, <2>1
<1>14. S # {} => IsList(flat(n), part(n))
  <2> HIDE DEF part
  <2> QED BY <1>9, <1>13
<1>15. S = {} => flat(n) = <<>>
  BY <1>6, <1>12
<1> QED BY <1>2, <1>10, <1>11, <1>14, <1>15

-----------------------------------------------------------------------------
(* A message.                                                              *)

\* One character in front of a text.
LEMMA InFront ==
  ASSUME NEW c \in Char, NEW b \in Text
  PROVE  /\ <<c>> \o b \in Text /\ Len(b) \in Nat /\ Len(<<c>> \o b) = Len(b) + 1
         /\ (<<c>> \o b)[1] = c
         /\ \A i \in 1 .. Len(b) : (<<c>> \o b)[1 + i] = b[i]
         /\ From(<<c>> \o b, 2) = b
         /\ \A cs : c \notin cs /\ Lacks(b, cs) => Lacks(<<c>> \o b, cs)
<1> DEFINE a == <<c>>
           t == a \o b
<1>1. a \in Text /\ Len(a) = 1 /\ a[1] = c
  BY OneChar DEF Text
<1> HIDE DEF a
<1>2. /\ t \in Text /\ Len(b) \in Nat /\ Len(t) = Len(a) + Len(b)
      /\ \A i \in 1 .. Len(a) : t[i] = a[i]
      /\ \A i \in 1 .. Len(b) : t[Len(a) + i] = b[i]
  BY <1>1, TextConcat
<1>3. From(t, Len(a) + 1) = b
  BY <1>1, FromConcat DEF Text
<1>4. 1 + 1 = 2 /\ Len(t) = Len(b) + 1 /\ t[1] = c
  BY <1>1, <1>2
<1>5. From(t, 2) = b
  BY <1>1, <1>3, <1>4
<1>6. \A i \in 1 .. Len(b) : t[1 + i] = b[i]
  BY <1>1, <1>2
<1> HIDE DEF t
<1>7. ASSUME NEW cs, c \notin cs, Lacks(b, cs) PROVE Lacks(t, cs)
  <2> SUFFICES ASSUME NEW i \in 1 .. Len(t) PROVE t[i] \notin cs
    BY DEF Lacks
  <2>1. CASE i = 1
    BY <1>4, <1>7, <2>1
  <2>2. CASE i # 1
    <3>1. i - 1 \in 1 .. Len(b) /\ 1 + (i - 1) = i
      BY <1>2, <1>4, <2>2
    <3>2. t[i] = b[i - 1] /\ b[i - 1] \notin cs
      BY <1>6, <1>7, <3>1 DEF Lacks
    <3> QED BY <3>2
  <2> QED BY <2>1, <2>2
<1> QED BY <1>2, <1>4, <1>5, <1>6, <1>7 DEF t, a

LEMMA LacksConcat ==
  ASSUME NEW a \in Text, NEW b \in Text, NEW cs, Lacks(a, cs), Lacks(b, cs)
  PROVE  Lacks(a \o b, cs)
<1> DEFINE t == a \o b
<1>1. /\ Len(a) \in Nat /\ Len(b) \in Nat /\ Len(t) = Len(a) + Len(b)
      /\ \A i \in 1 .. Len(a) : t[i] = a[i]
      /\ \A i \in 1 .. Len(b) : t[Len(a) + i] = b[i]
  BY TextConcat
<1> HIDE DEF t
<1>2. ASSUME NEW i \in 1 .. Len(t) PROVE t[i] \notin cs
  <2>1. CASE i <= Len(a)
    BY <1>1, <2>1 DEF Lacks
  <2>2. CASE ~(i <= Len(a))
    <3>1. i - Len(a) \in 1 .. Len(b) /\ Len(a) + (i - Len(a)) = i
      BY <1>1, <2>2
    <3>2. t[i] = b[i - Len(a)] /\ b[i - Len(a)] \notin cs
      BY <1>1, <3>1 DEF Lacks
    <3> QED BY <3>2
  <2> QED BY <2>1, <2>2
<1> QED BY <1>2 DEF Lacks, t

\* Behind the type, a message has its numbers, a slash, and its proposal number.
Inside(S, num) == Listed(S) \o (<<Slash>> \o Decimal[num])

LEMMA ListedText ==
  ASSUME NEW S \in SUBSET Nat, IsFiniteSet(S)
  PROVE  /\ Listed(S) \in Text
         /\ \A i \in 1 .. Len(Listed(S)) : Listed(S)[i] \in Numeral \cup {Comma}
<1>1. CASE S = {}
  <2> DEFINE none == <<>>
  <2>1. none \in Text /\ Len(none) = 0 /\ Listed(S) = none
    BY <1>1, ListedIs, EmptySeq DEF Text
  <2> HIDE DEF none
  <2> QED BY <2>1
<1>2. CASE S # {}
  BY <1>2, ListedIs DEF IsList
<1> QED BY <1>1, <1>2

LEMMA NumbersDef ==
  ASSUME NEW list
  PROVE  Numbers(list) = [val |-> {ToInt(Digits(From(list, i))) : i \in Places(list)},
                          num |-> ToInt(Digits(From(list, Find(list, {Slash}) + 1)))]
BY Zenon DEF Numbers, Places, Comma, Slash

LEMMA ParametersDef ==
  ASSUME NEW list
  PROVE  Parameters(list) = IF list[1] = Slash
                              THEN [val |-> {}, num |-> ToInt(Digits(Tail(list)))]
                              ELSE Numbers(list)
BY Zenon DEF Parameters, Slash

\* The numbers and the proposal number are read back, also those of an empty set.
LEMMA InsideIs ==
  ASSUME NEW S \in SUBSET Nat, IsFiniteSet(S), NEW num \in Nat
  PROVE  /\ Inside(S, num) \in Text
         /\ \A c \in Sign : c # Comma /\ c # Slash => Lacks(Inside(S, num), {c})
         /\ Parameters(Inside(S, num)) = [val |-> S, num |-> num]
<1> DEFINE L == Listed(S)
           d == Decimal[num]
           tail == <<Slash>> \o d
           list == L \o tail
<1>1. L \in Text /\ \A i \in 1 .. Len(L) : L[i] \in Numeral \cup {Comma}
  BY ListedText
<1>2. d \in Text /\ Digits(d) = d /\ ToInt(d) = num /\ \A c \in Sign : Lacks(d, {c})
  BY DecimalText, NumberAlone, NumeralsOnly
<1>3. Slash \in Char /\ Slash \notin Numeral /\ Slash # Comma
  BY Marks, Distinct
<1> HIDE DEF L, d
<1>4. /\ tail \in Text /\ Len(d) \in Nat /\ Len(tail) = Len(d) + 1 /\ tail[1] = Slash
      /\ From(tail, 2) = d
      /\ \A cs : Slash \notin cs /\ Lacks(d, cs) => Lacks(tail, cs)
  BY <1>2, <1>3, InFront
<1>5. \A c \in Sign : c # Slash => Lacks(tail, {c})
  BY <1>2, <1>4
<1>6. \A c \in Sign : c # Comma => Lacks(L, {c})
  BY <1>1, Marks DEF Lacks
<1>7. list \in Text
  BY <1>1, <1>4, TextConcat
<1>8. \A c \in Sign : c # Comma /\ c # Slash => Lacks(list, {c})
  BY <1>1, <1>4, <1>5, <1>6, LacksConcat
<1>9. CASE S = {}
  <2>1. L = <<>>
    BY <1>9, ListedIs DEF L
  <2>2. list = tail
    <3>1. <<>> \o tail = tail
      BY <1>4, ConcatEmptySeq DEF Text
    <3> QED BY <2>1, <3>1
  <2> HIDE DEF tail, list
  <2>3. Tail(tail) = d
    <3>1. tail # <<>>
      BY <1>4
    <3>2. Tail(tail) = SubSeq(tail, 2, Len(tail))
      BY <1>4, <3>1, TailIsSubSeq DEF Text
    <3> QED BY <1>4, <3>2 DEF From
  <2>4. list[1] = Slash /\ Digits(Tail(list)) = d
    BY <1>2, <1>4, <2>2, <2>3
  <2>5. Parameters(list) = [val |-> S, num |-> num]
    BY <1>2, <1>9, <2>4, ParametersDef
  <2> QED BY <1>7, <1>8, <2>5 DEF list, tail, L, d, Inside
<1>10. CASE S # {}
  <2>1. IsList(L, S)
    BY <1>10, ListedIs DEF L
  <2>2. /\ Len(L) \in Nat \ {0} /\ L[1] \in Numeral
        /\ \A r \in Text : NoNumeralFirst(r) => Items(L, r) = S
    BY <2>1 DEF IsList
  <2>3. NoNumeralFirst(tail)
    BY <1>3, <1>4 DEF NoNumeralFirst
  <2>4. {ToInt(Digits(From(list, i))) : i \in Places(L)} = S
    BY <1>4, <2>2, <2>3 DEF Items
  <2>5. Places(list) = Places(L)
    BY <1>1, <1>3, <1>4, <1>5, Marks, PlacesWithout
  <2>6. Find(list, {Slash}) = Len(L) + 1
    BY <1>1, <1>2, <1>3, <1>6, Marks, FindAt
  <2>7. From(list, Len(L) + 2) = d
    BY <1>1, <1>2, <1>3, BehindMark
  <2>8. list[1] # Slash
    <3>1. 1 \in 1 .. Len(L)
      BY <2>2
    <3>2. list[1] = L[1]
      BY <1>1, <1>4, <3>1, TextConcat
    <3> QED BY <1>3, <2>2, <3>2
  <2> HIDE DEF list
  <2>9. Find(list, {Slash}) + 1 = Len(L) + 2
    BY <2>2, <2>6
  <2>10. Numbers(list) = [val |-> S, num |-> num]
    BY <1>2, <2>4, <2>5, <2>7, <2>9, NumbersDef
  <2>11. Parameters(list) = [val |-> S, num |-> num]
    BY <2>8, <2>10, ParametersDef
  <2> QED BY <1>7, <1>8, <2>11 DEF list, tail, L, d, Inside
<1> QED BY <1>9, <1>10

\* What DataAssumption says of one message.
LEMMA DataIs ==
  ASSUME NEW m \in Data
  PROVE  /\ m.src \in Nat \ {0} /\ m.dst \in Nat \ {0}
         /\ m.type \in Types /\ m.type \in Char
         /\ m.val \in SUBSET Nat /\ IsFiniteSet(m.val)
         /\ m.num \in Nat /\ m.round \in Nat
<1>1. /\ m.src \in Nat \ {0} /\ m.dst \in Nat \ {0}
      /\ m.type \in Types
      /\ m.val \subseteq Nat /\ IsFiniteSet(m.val)
      /\ m.num \in Nat /\ m.round \in Nat
  BY DataAssumption, Zenon DEF Types
<1>2. m.type \in Char
  BY <1>1, Marks
<1>3. m.val \in SUBSET Nat
  BY <1>1
<1> QED BY <1>1, <1>2, <1>3

LEMMA BodyIs ==
  ASSUME NEW m \in Data
  PROVE  /\ Body(m) \in Text /\ Len(Body(m)) \in Nat \ {0}
         /\ Body(m)[1] = m.type
         /\ From(Body(m), 2) = Inside(m.val, m.num)
         /\ \A c \in Sign : c # Comma /\ c # Slash /\ c \notin Types => Lacks(Body(m), {c})
<1> DEFINE L == Listed(m.val)
           d == Decimal[m.num]
           type == <<m.type>>
           slash == <<Slash>>
           inside == Inside(m.val, m.num)
<1>1. /\ m.type \in Types /\ m.type \in Char /\ m.val \in SUBSET Nat /\ IsFiniteSet(m.val)
      /\ m.num \in Nat
  BY DataIs
<1>2. L \in Text /\ d \in Text
  BY <1>1, ListedText, DecimalText
<1>3. type \in Text /\ slash \in Text
  BY <1>1, Marks, OneChar DEF Text
<1>4. /\ inside \in Text
      /\ \A c \in Sign : c # Comma /\ c # Slash => Lacks(inside, {c})
  BY <1>1, InsideIs
<1>5. /\ type \o inside \in Text /\ Len(inside) \in Nat /\ Len(type \o inside) = Len(inside) + 1
      /\ (type \o inside)[1] = m.type
      /\ From(type \o inside, 2) = inside
      /\ \A cs : m.type \notin cs /\ Lacks(inside, cs) => Lacks(type \o inside, cs)
  BY <1>1, <1>4, InFront
<1>6. Body(m) = ((type \o L) \o slash) \o d
  BY Zenon DEF Body, Slash
<1>7. inside = L \o (slash \o d)
  BY DEF Inside
<1> HIDE DEF L, d, type, slash, inside
<1>8. Body(m) = type \o inside
  <2>1. PICK x \in Text : x = type \o L
    BY <1>2, <1>3, TextConcat
  <2>2. PICK y \in Text : y = slash \o d
    BY <1>2, <1>3, TextConcat
  <2>3. PICK w \in Text : w = x \o slash
    BY <1>3, TextConcat
  <2>4. inside = L \o y /\ Body(m) = w \o d
    BY <1>6, <1>7, <2>1, <2>2, <2>3, Zenon
  <2>5. w \o d = x \o y
    BY <1>2, <1>3, <2>2, <2>3, TextRegroup
  <2>6. x \o y = type \o inside
    BY <1>2, <1>3, <2>1, <2>4, TextRegroup
  <2> QED BY <2>4, <2>5, <2>6
<1>9. \A c \in Sign : c # Comma /\ c # Slash /\ c \notin Types => Lacks(type \o inside, {c})
  BY <1>1, <1>4, <1>5
<1>10. Len(type \o inside) \in Nat \ {0}
  BY <1>5
<1> QED BY <1>5, <1>8, <1>9, <1>10 DEF inside

LEMMA WrappedIs ==
  ASSUME NEW m \in Data
  PROVE  /\ Wrapped(m) = Body(m) \o (<<Query>> \o Decimal[m.round])
         /\ Wrapped(m) \in Text
         /\ Lacks(Wrapped(m), {At})
<1> DEFINE b == Body(m)
           d == Decimal[m.round]
           query == <<Query>>
           tail == query \o d
<1>1. b \in Text /\ Lacks(b, {At})
  BY BodyIs, Marks, Distinct
<1>2. d \in Text /\ Lacks(d, {At})
  BY DataIs, DecimalText, NumeralsOnly, Marks
<1>3. query \in Text
  BY Marks, OneChar DEF Text
<1>4. Wrapped(m) = (b \o query) \o d
  BY Zenon DEF Wrapped, Query
<1>5. tail \in Text /\ Lacks(tail, {At})
  <2>1. Query \in Char /\ Query \notin {At}
    BY Marks, Distinct
  <2> QED BY <1>2, <2>1, InFront
<1> HIDE DEF b, d, query
<1>6. Wrapped(m) = b \o tail
  BY <1>1, <1>2, <1>3, <1>4, TextAssociative
<1> HIDE DEF tail
<1>7. b \o tail \in Text /\ Lacks(b \o tail, {At})
  BY <1>1, <1>5, TextConcat, LacksConcat
<1> QED BY <1>6, <1>7 DEF b, d, query, tail

LEMMA RoundDef ==
  ASSUME NEW text
  PROVE  Round(text) = IF Find(text, {Query}) = 0 \/ Digits(From(text, Find(text, {Query}) + 1)) = <<>>
                         THEN -1 ELSE ToInt(Digits(From(text, Find(text, {Query}) + 1)))
BY Zenon DEF Round, Query

LEMMA ReadDef ==
  ASSUME NEW p, NEW mes
  PROVE  Read(p, mes) =
           IF Round(mes.text) = -1
             THEN <<p, mes.from, "none", {}, 0, -1>>
             ELSE <<p, mes.from, mes.text[1],
                    Parameters(SubSeq(mes.text, 2, Find(mes.text, {Query}) - 1)).val,
                    Parameters(SubSeq(mes.text, 2, Find(mes.text, {Query}) - 1)).num,
                    Round(mes.text)>>
BY Zenon DEF Read, Query

\* A message with the round r.
Ending(m, r) == Body(m) \o (<<Query>> \o Decimal[r])

\* It is read as it was meant.
LEMMA ReadEnding ==
  ASSUME NEW m \in Data, NEW r \in Nat, NEW p, NEW mes, mes.text = Ending(m, r)
  PROVE  Read(p, mes) = <<p, mes.from, m.type, m.val, m.num, r>>
<1> DEFINE text == mes.text
           b == Body(m)
           d == Decimal[r]
           tail == <<Query>> \o d
           inside == Inside(m.val, m.num)
<1>1. /\ b \in Text /\ Len(b) \in Nat \ {0} /\ b[1] = m.type /\ From(b, 2) = inside
      /\ Lacks(b, {Query})
  BY BodyIs, Marks, Distinct
<1>2. /\ d \in Text /\ Len(d) \in Nat \ {0} /\ Digits(d) = d /\ ToInt(d) = r
  BY DecimalText, NumberAlone
<1>3. Parameters(inside) = [val |-> m.val, num |-> m.num]
  BY DataIs, InsideIs
<1>4. text = b \o tail
  BY DEF Ending
<1> HIDE DEF text, b, d, inside
<1>5. Query \in Char
  BY Marks
<1>6. tail \in Text
  BY <1>2, <1>5, InFront
<1>7. Find(text, {Query}) = Len(b) + 1
  BY <1>1, <1>2, <1>4, <1>5, FindAt
<1>8. From(text, Len(b) + 2) = d
  BY <1>1, <1>2, <1>4, <1>5, BehindMark
<1> HIDE DEF tail
<1>9. Find(text, {Query}) + 1 = Len(b) + 2 /\ Find(text, {Query}) # 0
      /\ Find(text, {Query}) - 1 = Len(b)
  BY <1>1, <1>7
<1>10. d # <<>>
  BY <1>2, EmptySeq
<1>11. Round(text) = r
  BY <1>2, <1>8, <1>9, <1>10, RoundDef
<1>12. SubSeq(text, 2, Len(b)) = inside
  <2>1. CASE Len(b) >= 2
    <3>1. 2 \in 1 .. Len(b) /\ Len(b) \in 1 .. Len(b)
      BY <1>1, <2>1
    <3>2. SubSeq(b \o tail, 2, Len(b)) = SubSeq(b, 2, Len(b))
      BY <1>1, <1>6, <3>1, SubSeqOfConcat1 DEF Text
    <3> QED BY <1>1, <1>4, <3>2 DEF From
  <2>2. CASE Len(b) < 2
    <3>1. SubSeq(text, 2, Len(b)) = <<>> /\ SubSeq(b, 2, Len(b)) = <<>>
      BY <1>1, <2>2, SubSeqEmpty
    <3> QED BY <1>1, <3>1 DEF From
  <2> QED BY <1>1, <2>1, <2>2
<1>13. text[1] = m.type
  <2>1. 1 \in 1 .. Len(b)
    BY <1>1
  <2> QED BY <1>1, <1>4, <1>6, <2>1, TextConcat
<1>14. Round(text) # -1
  BY <1>11
<1>15. /\ Parameters(SubSeq(text, 2, Find(text, {Query}) - 1)).val = m.val
       /\ Parameters(SubSeq(text, 2, Find(text, {Query}) - 1)).num = m.num
  <2>1. SubSeq(text, 2, Find(text, {Query}) - 1) = inside
    BY <1>9, <1>12
  <2>2. Parameters(SubSeq(text, 2, Find(text, {Query}) - 1)) = [val |-> m.val, num |-> m.num]
    BY <1>3, <2>1, Zenon
  <2>3. [val |-> m.val, num |-> m.num].val = m.val /\ [val |-> m.val, num |-> m.num].num = m.num
    OBVIOUS
  <2> QED BY <2>2, <2>3, Zenon
<1> QED BY <1>11, <1>13, <1>14, <1>15, ReadDef, Zenon DEF text

\* What is left of a message that is cut off has no round, or one of which the
\* round of the message is a continuation.
LEMMA CutEnding ==
  ASSUME NEW m \in Data, NEW k \in 0 .. Len(Wrapped(m))
  PROVE  \/ Round(SubSeq(Wrapped(m), 1, k)) = -1
         \/ \E r \in Nat : /\ SubSeq(Wrapped(m), 1, k) = Ending(m, r)
                           /\ IsPrefix(Decimal[r], Decimal[m.round])
<1> DEFINE b == Body(m)
           q == <<Query>>
           d == Decimal[m.round]
           text == SubSeq(Wrapped(m), 1, k)
           tail == q \o d
<1>1. m.round \in Nat
  BY DataIs
<1>2. b \in Text /\ Len(b) \in Nat \ {0} /\ Lacks(b, {Query})
  BY BodyIs, Marks, Distinct
<1>3. d \in Text /\ Len(d) \in Nat \ {0}
  BY <1>1, DecimalText
<1>4. q \in Text /\ Len(q) = 1
  BY Marks, OneChar DEF Text
<1>5. Wrapped(m) = b \o tail
  BY WrappedIs
<1>6. \A j \in 1 .. Len(d) : \E r \in Nat : SubSeq(d, 1, j) = Decimal[r]
  BY <1>1, DecimalHolds DEF DecimalOfNumber
<1>7. \A j \in 1 .. Len(d) : IsPrefix(SubSeq(d, 1, j), d)
  <2> SUFFICES ASSUME NEW j \in 1 .. Len(d) PROVE IsPrefix(SubSeq(d, 1, j), d)
    OBVIOUS
  <2>1. /\ j \in 0 .. Len(d) /\ Len(SubSeq(d, 1, j)) = j
        /\ j <= Len(d)
    BY <1>3, TextBeginning
  <2> QED BY <2>1 DEF IsPrefix
<1>8. Ending(m, m.round) = b \o tail
  BY DEF Ending
<1>9. ASSUME NEW r \in Nat PROVE Ending(m, r) = b \o (q \o Decimal[r])
  BY DEF Ending
<1> HIDE DEF b, q, d
<1>10. tail \in Text /\ Len(tail) = 1 + Len(d)
  <2>1. q \in Text /\ d \in Text /\ Len(q) = 1
    BY <1>3, <1>4
  <2>2. q \o d \in Text /\ Len(q \o d) = Len(q) + Len(d)
    BY <2>1, TextConcat
  <2> QED BY <2>1, <2>2
<1> HIDE DEF tail
<1>11. k \in 0 .. Len(b) + Len(tail)
  BY <1>2, <1>5, <1>10, TextConcat
<1>12. text = IF k <= Len(b) THEN SubSeq(b, 1, k) ELSE b \o SubSeq(tail, 1, k - Len(b))
  BY <1>2, <1>5, <1>10, <1>11, BeginningOfConcat DEF Text
<1> HIDE DEF text
<1>13. CASE k <= Len(b)
  <2>1. text = SubSeq(b, 1, k)
    BY <1>12, <1>13
  <2>2. k \in 0 .. Len(b)
    BY <1>2, <1>13
  <2>3. Len(text) = k /\ \A i \in 1 .. k : text[i] = b[i]
    BY <1>2, <2>1, <2>2, TextBeginning
  <2>4. Lacks(text, {Query})
    BY <1>2, <2>2, <2>3 DEF Lacks
  <2>5. Find(text, {Query}) = 0
    BY <2>4, FindNone
  <2>6. Round(text) = -1
    BY <2>5, RoundDef
  <2> QED BY <2>6 DEF text
<1>14. CASE ~(k <= Len(b))
  <2> DEFINE j == k - Len(b)
             rest == SubSeq(d, 1, j - 1)
  <2>1. j \in 1 .. Len(tail) /\ j - 1 \in 0 .. Len(d) /\ j \in 0 .. Len(q) + Len(d)
    BY <1>2, <1>3, <1>4, <1>10, <1>11, <1>14
  <2>2. text = b \o SubSeq(tail, 1, j)
    BY <1>12, <1>14
  <2> HIDE DEF j
  <2>3. rest \in Text /\ Len(rest) = j - 1
    BY <1>3, <2>1, TextBeginning
  <2>4. SubSeq(tail, 1, j) = q \o rest
    <3>1. j \in 1 .. Len(d) + 1 /\ Query \in Char
      BY <1>3, <1>10, <2>1, Marks
    <3> QED BY <1>3, <3>1, BeginningInFront DEF tail, q
  <2>5. CASE j = 1
    <3>1. rest = <<>>
      <4>1. Len(rest) = 0
        BY <2>3, <2>5
      <4> HIDE DEF rest
      <4> QED BY <2>3, <4>1, EmptySeq DEF Text
    <3> HIDE DEF rest
    <3>2. q \o rest = q /\ text = b \o q
      BY <1>4, <2>2, <2>4, <3>1, ConcatEmptySeq DEF Text
    <3>3. Find(text, {Query}) = Len(b) + 1
      <4>1. text = b \o (<<Query>> \o rest) /\ Query \in Char
        BY <2>2, <2>4, Marks DEF q
      <4> QED BY <1>2, <2>3, <4>1, FindAt
    <3>4. From(text, Len(b) + 2) = <<>>
      <4>1. Len(text) = Len(b) + 1
        <5>1. q \in Text /\ b \in Text /\ Len(q) = 1
          BY <1>2, <1>4
        <5>2. Len(b \o q) = Len(b) + Len(q)
          BY <5>1, TextConcat
        <5> QED BY <3>2, <5>1, <5>2
      <4>2. SubSeq(text, Len(b) + 2, Len(b) + 1) = <<>>
        BY <1>2, SubSeqEmpty
      <4> QED BY <4>1, <4>2 DEF From
    <3>5. Find(text, {Query}) + 1 = Len(b) + 2
      BY <1>2, <3>3
    <3>6. Round(text) = -1
      BY <3>4, <3>5, DigitsOfNone, RoundDef
    <3> QED BY <3>6 DEF text
  <2>6. CASE j # 1
    <3>1. j - 1 \in 1 .. Len(d)
      BY <2>1, <2>6
    <3>2. PICK r \in Nat : rest = Decimal[r]
      BY <1>6, <3>1
    <3>3. IsPrefix(rest, d)
      BY <1>7, <3>1
    <3> HIDE DEF rest
    <3>4. text = Ending(m, r)
      BY <1>9, <2>2, <2>4, <3>2
    <3> QED BY <3>2, <3>3, <3>4 DEF text, d
  <2> QED BY <2>5, <2>6
<1> QED BY <1>13, <1>14

-----------------------------------------------------------------------------
(* A datagram.                                                             *)

LEMMA DatagramIs ==
  ASSUME NEW from \in Nat, NEW text \in Text
  PROVE  /\ Datagram(from, text) = Decimal[from] \o (<<Colon>> \o text)
         /\ <<Colon>> \o text \in Text
         /\ Len(Datagram(from, text)) = Len(Decimal[from]) + (Len(text) + 1)
<1>1. PICK d \in Text : d = Decimal[from]
  BY DecimalText
<1>2. PICK q \in Text : q = <<Colon>>
  BY Marks, OneChar DEF Text
<1>3. PICK x \in Text : x = d \o q
  BY TextConcat
<1>4. PICK y : y = <<Colon>> \o text /\ y \in Text /\ Len(y) = Len(text) + 1
  BY Marks, InFront
<1>5. Datagram(from, text) = x \o text
  BY <1>1, <1>2, <1>3, Zenon DEF Datagram, Colon
<1>6. x \o text = d \o y
  BY <1>2, <1>3, <1>4, TextRegroup
<1>7. Len(d \o y) = Len(d) + Len(y)
  BY <1>4, TextConcat
<1> QED BY <1>1, <1>4, <1>5, <1>6, <1>7

LEMMA DatagramLength ==
  ASSUME NEW from \in Nat, NEW text \in Text
  PROVE  /\ Len(Decimal[from]) \in Nat /\ Len(text) \in Nat
         /\ Len(Datagram(from, text)) \in Nat
         /\ Len(Datagram(from, text)) = Len(Decimal[from]) + Len(text) + 1
<1>1. PICK d \in Nat : d = Len(Decimal[from])
  BY DecimalText
<1>2. PICK n \in Nat : n = Len(text)
  BY TextConcat
<1>3. Len(Datagram(from, text)) = d + (n + 1)
  BY <1>1, <1>2, DatagramIs
<1>4. d + (n + 1) \in Nat /\ d + (n + 1) = d + n + 1
  OBVIOUS
<1> QED BY <1>1, <1>2, <1>3, <1>4

\* What the buffer holds, split.
Opened(text) ==
  IF Find(text, {Colon}) = 0 \/ Digits(text) = <<>>
    THEN [from |-> -1, text |-> <<>>]
    ELSE [from |-> ToInt(Digits(text)), text |-> From(text, Find(text, {Colon}) + 1)]

LEMMA ReceiveDef == ASSUME NEW datagram PROVE Receive(datagram) = Opened(Buffered(datagram))
BY Zenon DEF Receive, Opened, Colon

LEMMA OpenedIs ==
  ASSUME NEW from \in Nat, NEW text \in Text
  PROVE  Opened(Decimal[from] \o (<<Colon>> \o text)) = [from |-> from, text |-> text]
<1>1. PICK d \in Text : /\ d = Decimal[from] /\ Len(d) \in Nat \ {0} /\ IsNumeric(d)
                        /\ ToInt(d) = from /\ Lacks(d, {Colon})
  BY DecimalText, NumeralsOnly, Marks
<1>2. Colon \in Char /\ Colon \notin Numeral
  BY Marks
<1> DEFINE tail == <<Colon>> \o text
           all == d \o tail
<1>3. tail \in Text /\ Len(text) \in Nat /\ Len(tail) = Len(text) + 1 /\ tail[1] = Colon
  BY <1>2, InFront
<1>4. NoNumeralFirst(tail)
  BY <1>2, <1>3 DEF NoNumeralFirst
<1>5. Find(all, {Colon}) = Len(d) + 1
  BY <1>1, <1>2, FindAt
<1>6. From(all, Len(d) + 2) = text
  BY <1>2, BehindMark
<1>7. Digits(all) = d
  BY <1>1, <1>3, <1>4, DigitsOf
<1> HIDE DEF all
<1>8. d # <<>> /\ Find(all, {Colon}) # 0 /\ Find(all, {Colon}) + 1 = Len(d) + 2
  BY <1>1, <1>5, EmptySeq
<1>9. Opened(all) = [from |-> from, text |-> text]
  BY <1>1, <1>6, <1>7, <1>8 DEF Opened
<1> QED BY <1>1, <1>9 DEF all

\* What is received of a text is its beginning, or nothing.
LEMMA ReceiveIs ==
  ASSUME NEW from \in Nat, NEW text \in Text, NEW mes,
         mes = Receive(Datagram(from, text)), mes.from > 0
  PROVE  /\ mes.from = from
         /\ \E k \in 0 .. Len(text) :
              /\ mes.text = SubSeq(text, 1, k)
              /\ Len(Datagram(from, text)) <= MaxLine => k = Len(text)
<1> DEFINE data == Datagram(from, text)
<1>1. PICK d \in Text : d = Decimal[from] /\ Len(d) \in Nat \ {0} /\ Lacks(d, {Colon})
  BY DecimalText, NumeralsOnly, Marks
<1>2. PICK tail \in Text : /\ tail = <<Colon>> \o text
                           /\ Len(tail) = Len(text) + 1 /\ Len(text) \in Nat
  BY Marks, InFront
<1>3. data = d \o tail
  BY <1>1, <1>2, DatagramIs
<1>a. Len(data) = Len(d) + (Len(text) + 1)
  BY <1>1, DatagramIs
<1>b. Len(d) \in Nat /\ Len(text) \in Nat /\ Len(tail) = Len(text) + 1
  BY <1>1, <1>2
<1>4. mes = Opened(Buffered(data))
  BY ReceiveDef
<1>5. MaxLine \in Nat \ {0}
  BY MaxLineAssumption
<1>6. Opened(data) = [from |-> from, text |-> text]
  BY <1>1, <1>2, <1>3, OpenedIs
<1> HIDE DEF data
<1>7. CASE Len(data) <= MaxLine
  <2>1. Buffered(data) = data
    BY <1>7 DEF Buffered
  <2>2. mes.from = from /\ mes.text = text
    BY <1>4, <1>6, <2>1
  <2>3. SubSeq(text, 1, Len(text)) = text /\ Len(text) \in 0 .. Len(text)
    BY <1>2, WholeBeginning
  <2> QED BY <2>2, <2>3
<1>8. CASE ~(Len(data) <= MaxLine)
  <2> DEFINE buffer == SubSeq(data, 1, MaxLine)
  <2>1. mes = Opened(buffer)
    BY <1>4, <1>8 DEF Buffered
  <2>2. MaxLine \in 0 .. Len(d) + Len(tail)
    BY <1>5, <1>8, <1>a, <1>b
  <2>3. buffer = IF MaxLine <= Len(d) THEN SubSeq(d, 1, MaxLine)
                   ELSE d \o SubSeq(tail, 1, MaxLine - Len(d))
    BY <1>3, <2>2, BeginningOfConcat DEF Text
  <2> HIDE DEF buffer
  <2>4. CASE MaxLine <= Len(d)
    <3>1. MaxLine \in 0 .. Len(d) /\ buffer = SubSeq(d, 1, MaxLine)
      BY <1>1, <1>5, <2>3, <2>4
    <3>2. Len(buffer) = MaxLine /\ \A i \in 1 .. MaxLine : buffer[i] = d[i]
      BY <3>1, TextBeginning
    <3>3. Lacks(buffer, {Colon})
      BY <1>1, <3>1, <3>2 DEF Lacks
    <3>4. Find(buffer, {Colon}) = 0
      BY <3>3, FindNone
    <3>5. mes.from = -1
      BY <2>1, <3>4 DEF Opened
    <3> QED BY <3>5
  <2>5. CASE ~(MaxLine <= Len(d))
    <3>1. PICK j : j = MaxLine - Len(d)
      OBVIOUS
    <3>2. j \in 1 .. Len(text) + 1 /\ j - 1 \in 0 .. Len(text)
      BY <1>5, <1>b, <2>2, <2>5, <3>1
    <3>3. PICK rest \in Text : rest = SubSeq(text, 1, j - 1)
      BY <3>2, TextBeginning
    <3>4. SubSeq(tail, 1, j) = <<Colon>> \o rest
      BY <1>2, <3>2, <3>3, Marks, BeginningInFront
    <3>5. buffer = Decimal[from] \o (<<Colon>> \o rest)
      BY <1>1, <2>3, <2>5, <3>1, <3>4
    <3>6. Opened(buffer) = [from |-> from, text |-> rest]
      BY <3>5, OpenedIs
    <3>7. mes.from = from /\ mes.text = rest
      BY <2>1, <3>6
    <3> QED BY <1>8, <3>2, <3>3, <3>7 DEF data
  <2> QED BY <2>4, <2>5
<1> QED BY <1>7, <1>8

-----------------------------------------------------------------------------
(* The invariant.                                                          *)

\* What the handlers have made of a text: it had no round, or it is the message
\* with a round of which the message's is a continuation.  The receiver has it
\* from the sender.
Reading(h) ==
  /\ <<h[1], h[2]>> \in {<<datum.dst, datum.src>>, <<datum.src, datum.dst>>}
  /\ \/ h = <<h[1], h[2], "none", {}, 0, -1>>
     \/ /\ h = <<h[1], h[2], datum.type, datum.val, datum.num, h[6]>>
        /\ h[6] \in Nat /\ IsPrefix(Decimal[h[6]], Decimal[datum.round])

Fits == /\ Len(Datagram(datum.src, Wrapped(datum))) < MaxLine
        /\ Len(Datagram(datum.dst, Wrapped(datum))) + 1 < MaxLine

SentInv == not_delivered \subseteq {<<datum.src, datum.dst, Wrapped(datum)>>}

\* What is acknowledged, in either direction, is a beginning of the message; that
\* it is the whole message only if that has been read.
Acknowledging(a) ==
  /\ <<a[1], a[2]>> \in {<<datum.dst, datum.src>>, <<datum.src, datum.dst>>}
  /\ \E k \in 0 .. Len(Wrapped(datum)) :
       /\ a = <<a[1], a[2], SubSeq(Wrapped(datum), 1, k)>>
       /\ k = Len(Wrapped(datum)) => AsSent \in handled

AckInv == \A a \in ack_queue : Acknowledging(a)

HandledInv == \A h \in handled : Reading(h) /\ (h[1] \notin overrun => h = AsSent)

FitsInv == Fits => overrun = {} /\ \A a \in ack_queue : a[1] = datum.dst

FormatInv == /\ datum \in Data
             /\ SentInv /\ AckInv /\ HandledInv /\ FitsInv /\ ResentUntilRead

\* What a handler makes of the beginning of a message.
LEMMA ReadBeginning ==
  ASSUME NEW m \in Data, NEW k \in 0 .. Len(Wrapped(m)), NEW p, NEW mes,
         mes.text = SubSeq(Wrapped(m), 1, k)
  PROVE  /\ \/ Read(p, mes) = <<p, mes.from, "none", {}, 0, -1>>
            \/ \E r \in Nat : /\ Read(p, mes) = <<p, mes.from, m.type, m.val, m.num, r>>
                              /\ IsPrefix(Decimal[r], Decimal[m.round])
         /\ k = Len(Wrapped(m)) =>
              Read(p, mes) = <<p, mes.from, m.type, m.val, m.num, m.round>>
<1>1. CASE k = Len(Wrapped(m))
  <2>1. m.round \in Nat /\ Wrapped(m) \in Text /\ Wrapped(m) = Ending(m, m.round)
    BY DataIs, WrappedIs DEF Ending
  <2>2. mes.text = Ending(m, m.round)
    BY <1>1, <2>1, WholeBeginning
  <2>3. Read(p, mes) = <<p, mes.from, m.type, m.val, m.num, m.round>>
    BY <2>1, <2>2, ReadEnding
  <2>4. IsPrefix(Decimal[m.round], Decimal[m.round])
    <3>1. PICK d \in Text : d = Decimal[m.round] /\ Len(d) \in Nat
      BY <2>1, DecimalText
    <3>2. d = SubSeq(d, 1, Len(d)) /\ Len(d) <= Len(d)
      BY <3>1, WholeBeginning
    <3> QED BY <3>1, <3>2 DEF IsPrefix
  <2> QED BY <2>1, <2>3, <2>4
<1>2. CASE k # Len(Wrapped(m))
  <2>1. CASE Round(mes.text) = -1
    BY <1>2, <2>1, ReadDef, Zenon
  <2>2. CASE Round(mes.text) # -1
    <3>1. PICK r \in Nat : mes.text = Ending(m, r) /\ IsPrefix(Decimal[r], Decimal[m.round])
      BY <2>2, CutEnding
    <3>2. Read(p, mes) = <<p, mes.from, m.type, m.val, m.num, r>>
      BY <3>1, ReadEnding
    <3> QED BY <1>2, <3>1, <3>2
  <2> QED BY <2>1, <2>2
<1> QED BY <1>1, <1>2

LEMMA BeginningOfBeginning ==
  ASSUME NEW a \in Text, NEW k \in 0 .. Len(a), NEW j \in 0 .. k
  PROVE  SubSeq(SubSeq(a, 1, k), 1, j) = SubSeq(a, 1, j)
<1>1. PICK b \in Text : b = SubSeq(a, 1, k) /\ Len(b) = k /\ \A i \in 1 .. k : b[i] = a[i]
  BY TextBeginning
<1>2. j \in 0 .. Len(b) /\ j \in 0 .. Len(a)
  BY <1>1, LenProperties DEF Text
<1>3. PICK x \in Text : x = SubSeq(b, 1, j) /\ Len(x) = j /\ \A i \in 1 .. j : x[i] = b[i]
  BY <1>2, TextBeginning
<1>4. PICK y \in Text : y = SubSeq(a, 1, j) /\ Len(y) = j /\ \A i \in 1 .. j : y[i] = a[i]
  BY <1>2, TextBeginning
<1>5. \A i \in 1 .. j : x[i] = y[i]
  BY <1>1, <1>3, <1>4
<1>6. x = y
  BY <1>3, <1>4, <1>5, SeqEqual DEF Text
<1> QED BY <1>1, <1>3, <1>4, <1>6

\* What arrives of the acknowledgement of t, the beginning of length k of m: all of it,
\* or, out of a buffer that has been overrun, a beginning without its mark.
AckArrives(m, k, t, from, mes) ==
  /\ mes.from = from
  /\ \/ /\ Find(mes.text, {At}) # 0
        /\ SubSeq(mes.text, 1, Find(mes.text, {At}) - 1) = t
     \/ /\ Find(mes.text, {At}) = 0
        /\ \E j \in 0 .. k : mes.text = SubSeq(Wrapped(m), 1, j)
        /\ Overruns(Datagram(from, t \o <<At>>))

LEMMA AckText ==
  ASSUME NEW m \in Data, NEW k \in 0 .. Len(Wrapped(m)), NEW t, t = SubSeq(Wrapped(m), 1, k),
         NEW from \in Nat,
         NEW mes, mes = Receive(Datagram(from, t \o <<At>>)), mes.from > 0
  PROVE  AckArrives(m, k, t, from, mes)
<1>1. PICK w \in Text : w = Wrapped(m) /\ Lacks(w, {At}) /\ Len(w) \in Nat
  BY WrappedIs, LenProperties DEF Text
<1>2. /\ t \in Text /\ Len(t) = k /\ k \in 0 .. Len(w) /\ \A i \in 1 .. k : t[i] = w[i]
  BY <1>1, TextBeginning
<1>3. Lacks(t, {At})
  BY <1>1, <1>2 DEF Lacks
<1>4. PICK q \in Text : q = <<At>> /\ Len(q) = 1 /\ At \in Char
  BY Marks, OneChar DEF Text
<1>5. PICK x \in Text : x = t \o q /\ Len(x) = k + 1
  <2>1. t \o q \in Text /\ Len(t \o q) = Len(t) + Len(q)
    BY <1>2, <1>4, TextConcat
  <2> QED BY <1>2, <1>4, <2>1
<1>6. PICK data : data = Datagram(from, x) /\ Len(data) \in Nat
  BY DatagramLength
<1>7. mes = Receive(Datagram(from, x))
  BY <1>4, <1>5
<1>8. mes.from = from
  BY <1>7, ReceiveIs
<1>9. PICK j \in 0 .. Len(x) : mes.text = SubSeq(x, 1, j) /\ (Len(data) <= MaxLine => j = Len(x))
  BY <1>6, <1>7, ReceiveIs
<1>10. CASE j = Len(x)
  <2>1. mes.text = x
    <3>1. SubSeq(x, 1, Len(x)) = x
      BY WholeBeginning
    <3> QED BY <1>9, <1>10, <3>1
  <2>2. Find(x, {At}) = Len(t) + 1
    <3>1. PICK none \in Text : none = <<>>
      BY EmptySeq DEF Text
    <3>2. q \o none = q
      BY <3>1, ConcatEmptySeq DEF Text
    <3>3. x = t \o (<<At>> \o none)
      BY <1>4, <1>5, <3>2
    <3> QED BY <1>2, <1>3, <1>4, <3>3, FindAt
  <2>3. SubSeq(x, 1, k) = t
    <3>1. k \in 0 .. Len(t) + Len(q) /\ k <= Len(t)
      BY <1>2, <1>4
    <3>2. SubSeq(t \o q, 1, k) = SubSeq(t, 1, k)
      BY <1>2, <3>1, BeginningOfConcat DEF Text
    <3>3. SubSeq(t, 1, k) = t
      BY <1>2, WholeBeginning
    <3> QED BY <1>5, <3>2, <3>3
  <2>4. Find(x, {At}) # 0 /\ Find(x, {At}) - 1 = k
    BY <1>2, <2>2
  <2> QED BY <1>8, <2>1, <2>3, <2>4 DEF AckArrives
<1>11. CASE j # Len(x)
  <2>1. j \in 0 .. k /\ j \in 0 .. Len(t) + Len(q) /\ j <= Len(t) /\ j \in 0 .. Len(w)
    BY <1>1, <1>2, <1>4, <1>5, <1>11
  <2>2. SubSeq(t \o q, 1, j) = SubSeq(t, 1, j)
    BY <1>2, <2>1, BeginningOfConcat DEF Text
  <2>3. mes.text = SubSeq(w, 1, j)
    <3>1. mes.text = SubSeq(t, 1, j) /\ t = SubSeq(w, 1, k)
      BY <1>1, <1>5, <1>9, <2>2
    <3>2. SubSeq(SubSeq(w, 1, k), 1, j) = SubSeq(w, 1, j)
      BY <1>2, <2>1, BeginningOfBeginning
    <3> QED BY <3>1, <3>2
  <2>4. Len(mes.text) = j /\ \A i \in 1 .. j : mes.text[i] = w[i]
    <3>1. Len(SubSeq(w, 1, j)) = j /\ \A i \in 1 .. j : SubSeq(w, 1, j)[i] = w[i]
      BY <2>1, TextBeginning
    <3> QED BY <2>3, <3>1
  <2>5. Lacks(mes.text, {At})
    BY <1>1, <2>1, <2>4 DEF Lacks
  <2>6. Find(mes.text, {At}) = 0
    BY <2>5, FindNone
  <2>7. Overruns(data)
    <3>1. PICK n \in Nat : n = Len(data)
      BY <1>6
    <3>2. ~(n <= MaxLine)
      BY <1>9, <1>11, <3>1, Zenon
    <3>3. n >= MaxLine
      BY <3>2, MaxLineAssumption
    <3> QED BY <3>1, <3>3 DEF Overruns
  <2>8. data = Datagram(from, t \o <<At>>)
    BY <1>4, <1>5, <1>6
  <2> QED BY <1>1, <1>8, <2>1, <2>3, <2>6, <2>7, <2>8 DEF AckArrives
<1> QED BY <1>10, <1>11

LEMMA FormatInit == Init => FormatInv
<1> SUFFICES ASSUME Init PROVE FormatInv
  OBVIOUS
<1>1. /\ datum \in Data /\ not_delivered = {<<datum.src, datum.dst, Wrapped(datum)>>}
      /\ ack_queue = {} /\ handled = {} /\ overrun = {}
  BY DEF Init
<1> QED BY <1>1 DEF FormatInv, SentInv, AckInv, HandledInv, FitsInv, ResentUntilRead

\* What a datagram changes when it is not handled: its receiver may have overrun its
\* buffer, and may have ended by it.
LEMMA Unhandled ==
  ASSUME FormatInv, datum' = datum, not_delivered' = not_delivered, ack_queue' = ack_queue,
         handled' = handled, overrun \subseteq overrun', Fits => overrun' = overrun
  PROVE  FormatInv'
<1>1. AsSent' = AsSent /\ Wrapped(datum)' = Wrapped(datum) /\ (Fits' <=> Fits)
  BY DEF AsSent, Fits
<1>2. \A h : Reading(h) => Reading(h)'
  BY DEF Reading
<1>3. \A a : Acknowledging(a) => Acknowledging(a)'
  BY <1>1 DEF Acknowledging
<1>4. SentInv' /\ ResentUntilRead' /\ FitsInv'
  BY <1>1 DEF FormatInv, SentInv, ResentUntilRead, FitsInv
<1>5. AckInv' /\ HandledInv'
  BY <1>1, <1>2, <1>3 DEF FormatInv, AckInv, HandledInv
<1> QED BY <1>4, <1>5 DEF FormatInv

\* What a text that passes for a message changes: its receiver p acknowledges it,
\* and its handler makes h of it.
LEMMA Handled ==
  ASSUME FormatInv, datum' = datum, not_delivered' = not_delivered,
         NEW a, ack_queue' = ack_queue \cup {a},
         NEW h, handled' = handled \cup {h},
         overrun \subseteq overrun', Fits => overrun' = overrun,
         Reading(h), h[1] \notin overrun' => h = AsSent,
         Acknowledging(a)', Fits => a[1] = datum.dst
  PROVE  FormatInv'
<1>1. AsSent' = AsSent /\ Wrapped(datum)' = Wrapped(datum) /\ (Fits' <=> Fits)
  BY DEF AsSent, Fits
<1>2. \A x : Reading(x) => Reading(x)'
  BY DEF Reading
<1>3. \A x : Acknowledging(x) => Acknowledging(x)'
  BY <1>1 DEF Acknowledging
<1>4. SentInv' /\ ResentUntilRead' /\ FitsInv'
  BY <1>1 DEF FormatInv, SentInv, ResentUntilRead, FitsInv
<1>5. AckInv'
  BY <1>3 DEF FormatInv, AckInv
<1>6. HandledInv'
  BY <1>1, <1>2 DEF FormatInv, HandledInv
<1> QED BY <1>4, <1>5, <1>6 DEF FormatInv

\* A datagram that is received is handled, or nothing but its length is of account.
LEMMA ReceivedOrNot ==
  ASSUME NEW p, NEW data, ReceiveUdp(p, data), NEW mes, mes = Receive(data)
  PROVE  \/ not_delivered' = not_delivered /\ ack_queue' = ack_queue /\ handled' = handled
         \/ mes.from > 0 /\ Handle(p, mes)
BY DEF ReceiveUdp, Handle

LEMMA DataNext == FormatInv /\ ReceiveData => FormatInv'
<1> SUFFICES ASSUME FormatInv, ReceiveData PROVE FormatInv'
  OBVIOUS
<1>1. PICK m \in Data : m = datum /\ datum' = datum
  BY DEF FormatInv, ReceiveData, ReceiveUdp
<1>2. PICK w \in Text : w = Wrapped(m)
  BY WrappedIs
<1>3. PICK data : data = Datagram(m.src, w)
  OBVIOUS
<1>4. ReceiveUdp(m.dst, data)
  <2>1. PICK e \in not_delivered : ReceiveUdp(e[2], Datagram(e[1], e[3]))
    BY DEF ReceiveData
  <2>2. e[1] = m.src /\ e[2] = m.dst /\ e[3] = w
    BY <1>1, <1>2, <2>1 DEF FormatInv, SentInv
  <2> QED BY <1>3, <2>1, <2>2
<1>5. m.src \in Nat /\ Len(data) \in Nat /\ MaxLine \in Nat
  BY <1>3, DataIs, DatagramLength, MaxLineAssumption
<1>6. overrun \subseteq overrun' /\ (Fits => overrun' = overrun)
      /\ (m.dst \notin overrun' => ~Overruns(data))
  <2>1. overrun' = overrun \cup (IF Overruns(data) THEN {m.dst} ELSE {})
    BY <1>4 DEF ReceiveUdp
  <2>2. Fits => ~Overruns(data)
    BY <1>1, <1>2, <1>3, <1>5 DEF Fits, Overruns
  <2> QED BY <2>1, <2>2
<1>7. PICK mes : mes = Receive(data)
  OBVIOUS
<1>8. CASE not_delivered' = not_delivered /\ ack_queue' = ack_queue /\ handled' = handled
  BY <1>1, <1>6, <1>8, Unhandled
<1>9. CASE mes.from > 0 /\ Handle(m.dst, mes)
  <2>1. mes.from = m.src
    BY <1>3, <1>5, <1>7, <1>9, ReceiveIs
  <2>2. PICK k \in 0 .. Len(w) : /\ mes.text = SubSeq(w, 1, k)
                                 /\ Len(data) <= MaxLine => k = Len(w)
    BY <1>3, <1>5, <1>7, <1>9, ReceiveIs
  <2>3. Find(mes.text, {At}) = 0
    <3>1. Lacks(w, {At}) /\ Len(mes.text) = k /\ \A i \in 1 .. k : mes.text[i] = w[i]
      BY <1>2, <2>2, WrappedIs, TextBeginning
    <3>2. Len(w) \in Nat
      BY LenProperties DEF Text
    <3>3. Lacks(mes.text, {At})
      BY <3>1, <3>2 DEF Lacks
    <3> QED BY <3>3, FindNone
  <2>4. PICK h : h = Read(m.dst, mes)
    OBVIOUS
  <2>5. PICK a : a = <<m.dst, m.src, SubSeq(w, 1, k)>>
    OBVIOUS
  <2>6. /\ not_delivered' = not_delivered
        /\ ack_queue' = ack_queue \cup {a}
        /\ handled' = handled \cup {h}
    <3>1. /\ not_delivered' = not_delivered
          /\ ack_queue' = ack_queue \cup {<<m.dst, mes.from, mes.text>>}
          /\ handled' = handled \cup {Read(m.dst, mes)}
      BY <1>9, <2>3, Zenon DEF Handle, At
    <3> QED BY <2>1, <2>2, <2>4, <2>5, <3>1
  <2>7. /\ \/ h = <<m.dst, m.src, "none", {}, 0, -1>>
           \/ \E r \in Nat : /\ h = <<m.dst, m.src, m.type, m.val, m.num, r>>
                             /\ IsPrefix(Decimal[r], Decimal[m.round])
        /\ k = Len(w) => h = AsSent
    <3>1. k \in 0 .. Len(Wrapped(m)) /\ mes.text = SubSeq(Wrapped(m), 1, k)
      BY <1>2, <2>2
    <3>2. AsSent = <<m.dst, m.src, m.type, m.val, m.num, m.round>>
      BY <1>1 DEF AsSent
    <3>3. /\ \/ h = <<m.dst, mes.from, "none", {}, 0, -1>>
             \/ \E r \in Nat : /\ h = <<m.dst, mes.from, m.type, m.val, m.num, r>>
                               /\ IsPrefix(Decimal[r], Decimal[m.round])
          /\ k = Len(Wrapped(m)) => h = <<m.dst, mes.from, m.type, m.val, m.num, m.round>>
      BY <2>4, <3>1, ReadBeginning
    <3> QED BY <1>2, <2>1, <3>2, <3>3
  <2>8. Reading(h)
    BY <1>1, <2>7 DEF Reading
  <2>9. h[1] \notin overrun' => h = AsSent
    <3>1. h[1] = m.dst
      BY <2>7
    <3>2. ~Overruns(data) => Len(data) <= MaxLine
      BY <1>5 DEF Overruns
    <3> QED BY <1>6, <2>2, <2>7, <3>1, <3>2
  <2>10. Acknowledging(a)' /\ a[1] = datum.dst
    <3>1. AsSent' = AsSent /\ Wrapped(datum)' = w /\ datum' = m
      BY <1>1, <1>2 DEF AsSent
    <3>2. /\ a[1] = m.dst /\ a[2] = m.src
          /\ k \in 0 .. Len(w) /\ (k = Len(w) => AsSent \in handled')
      BY <2>5, <2>6, <2>7
    <3> QED BY <1>1, <2>5, <3>1, <3>2 DEF Acknowledging
  <2> QED BY <1>1, <1>6, <2>6, <2>8, <2>9, <2>10, Handled
<1>10. (not_delivered' = not_delivered /\ ack_queue' = ack_queue /\ handled' = handled)
       \/ (mes.from > 0 /\ Handle(m.dst, mes))
  BY <1>4, <1>7, ReceivedOrNot
<1> QED BY <1>8, <1>9, <1>10

LEMMA AckNext == FormatInv /\ ReceiveAck => FormatInv'
<1> SUFFICES ASSUME FormatInv, ReceiveAck PROVE FormatInv'
  OBVIOUS
<1>1. PICK m \in Data : m = datum /\ datum' = datum
  BY DEF FormatInv, ReceiveAck, ReceiveUdp
<1>2. PICK w \in Text : w = Wrapped(m)
  BY WrappedIs
<1>3. PICK b \in ack_queue : ReceiveUdp(b[2], Datagram(b[1], b[3] \o <<At>>))
  BY Zenon DEF ReceiveAck, At
<1>4. PICK p, q : <<q, p>> \in {<<m.dst, m.src>>, <<m.src, m.dst>>} /\ q = b[1] /\ p = b[2]
  BY <1>1, <1>3 DEF FormatInv, AckInv, Acknowledging
<1>5. PICK k \in 0 .. Len(w) : /\ b = <<q, p, SubSeq(w, 1, k)>>
                               /\ k = Len(w) => AsSent \in handled
  BY <1>1, <1>2, <1>3, <1>4 DEF FormatInv, AckInv, Acknowledging
<1>6. PICK t \in Text : t = SubSeq(w, 1, k) /\ Len(t) = k
  BY TextBeginning
<1>7. PICK data : data = Datagram(q, t \o <<At>>)
  OBVIOUS
<1>8. ReceiveUdp(p, data)
  BY <1>3, <1>4, <1>5, <1>6, <1>7
<1>9. q \in Nat
  BY <1>4, DataIs
<1>10. Len(data) \in Nat /\ MaxLine \in Nat
       /\ (Fits => ~Overruns(data))
  <2>1. PICK x \in Text : x = t \o <<At>> /\ Len(x) = k + 1
    <3>1. PICK c \in Text : c = <<At>> /\ Len(c) = 1
      BY Marks, OneChar DEF Text
    <3>2. t \o c \in Text /\ Len(t \o c) = Len(t) + Len(c)
      BY <3>1, TextConcat
    <3> QED BY <1>6, <3>1, <3>2
  <2>2. PICK d \in Nat : d = Len(Decimal[q])
    BY <1>9, DatagramLength
  <2>3. PICK n \in Nat : n = Len(w)
    BY LenProperties DEF Text
  <2>4. Len(data) = d + (k + 1) + 1 /\ Len(Datagram(q, w)) = d + n + 1
    BY <1>7, <1>9, <2>1, <2>2, <2>3, DatagramLength
  <2>5. PICK size \in Nat : size = Len(data) /\ size <= Len(Datagram(q, w)) + 1
    BY <2>3, <2>4
  <2>6. ASSUME Fits PROVE size < MaxLine
    <3>1. q = m.dst
      BY <1>1, <1>3, <1>4, <2>6 DEF FormatInv, FitsInv
    <3>2. Len(Datagram(q, w)) + 1 < MaxLine
      BY <1>1, <1>2, <2>6, <3>1 DEF Fits
    <3>3. PICK whole \in Nat : whole = Len(Datagram(q, w))
      BY <2>2, <2>3, <2>4
    <3> QED BY <2>5, <3>2, <3>3, MaxLineAssumption
  <2>7. MaxLine \in Nat
    BY MaxLineAssumption
  <2>8. Fits => ~(size >= MaxLine)
    BY <2>6, <2>7
  <2> QED BY <2>5, <2>7, <2>8 DEF Overruns
<1>11. overrun \subseteq overrun' /\ (Fits => overrun' = overrun)
       /\ (Overruns(data) => p \in overrun')
  <2>1. overrun' = overrun \cup (IF Overruns(data) THEN {p} ELSE {})
    BY <1>8 DEF ReceiveUdp
  <2> QED BY <1>10, <2>1
<1>12. PICK mes : mes = Receive(data)
  OBVIOUS
<1>13. CASE not_delivered' = not_delivered /\ ack_queue' = ack_queue /\ handled' = handled
  BY <1>1, <1>11, <1>13, Unhandled
<1>14. CASE mes.from > 0 /\ Handle(p, mes)
  <2>1. /\ mes.from = q
        /\ \/ /\ Find(mes.text, {At}) # 0
              /\ SubSeq(mes.text, 1, Find(mes.text, {At}) - 1) = t
           \/ /\ Find(mes.text, {At}) = 0
              /\ \E j \in 0 .. k : mes.text = SubSeq(w, 1, j)
              /\ Overruns(data)
    <3>1. k \in 0 .. Len(Wrapped(m)) /\ t = SubSeq(Wrapped(m), 1, k)
      BY <1>2, <1>6
    <3>2. mes = Receive(Datagram(q, t \o <<At>>))
      BY <1>7, <1>12
    <3>3. AckArrives(m, k, t, q, mes)
      BY <1>9, <1>14, <3>1, <3>2, AckText
    <3> QED BY <1>2, <1>7, <3>3 DEF AckArrives
  <2>2. CASE Find(mes.text, {At}) # 0
    <3>1. /\ not_delivered' = not_delivered \ {<<p, q, t>>}
          /\ ack_queue' = ack_queue /\ handled' = handled
      <4>1. /\ not_delivered' = not_delivered \
                  {<<p, mes.from, SubSeq(mes.text, 1, Find(mes.text, {At}) - 1)>>}
            /\ ack_queue' = ack_queue /\ handled' = handled
        BY <1>14, <2>2, Zenon DEF Handle, Erased, At
      <4> QED BY <2>1, <2>2, <4>1
    <3>2. AsSent' = AsSent /\ Wrapped(datum)' = Wrapped(datum) /\ (Fits' <=> Fits)
      BY <1>1 DEF AsSent, Fits
    <3>3. \A x : Reading(x) => Reading(x)'
      BY <1>1 DEF Reading
    <3>4. \A x : Acknowledging(x) => Acknowledging(x)'
      BY <1>1, <3>1, <3>2 DEF Acknowledging
    <3>5. SentInv'
      BY <1>1, <3>1, <3>2 DEF FormatInv, SentInv
    <3>6. AckInv' /\ HandledInv'
      BY <1>11, <3>1, <3>2, <3>3, <3>4 DEF FormatInv, AckInv, HandledInv
    <3>7. FitsInv'
      BY <1>1, <1>11, <3>1, <3>2 DEF FormatInv, FitsInv
    <3>8. ResentUntilRead'
      <4> SUFFICES ASSUME not_delivered' = {} PROVE AsSent \in handled
        BY <3>1, <3>2 DEF ResentUntilRead
      <4>1. CASE not_delivered = {}
        BY <4>1 DEF FormatInv, ResentUntilRead
      <4>2. CASE not_delivered # {}
        <5>1. not_delivered = {<<m.src, m.dst, w>>}
          BY <1>1, <1>2, <4>2 DEF FormatInv, SentInv
        <5>2. <<m.src, m.dst, w>> = <<p, q, t>>
          BY <3>1, <5>1
        <5>3. w = t
          BY <5>2
        <5>4. k = Len(w)
          BY <1>6, <5>3
        <5> QED BY <1>5, <5>4
      <4> QED BY <4>1, <4>2
    <3> QED BY <1>1, <3>5, <3>6, <3>7, <3>8 DEF FormatInv
  <2>3. CASE Find(mes.text, {At}) = 0
    <3>1. PICK j \in 0 .. k : mes.text = SubSeq(w, 1, j)
      BY <2>1, <2>3
    <3>2. Overruns(data)
      BY <2>1, <2>3
    <3>3. PICK h : h = Read(p, mes)
      OBVIOUS
    <3>4. PICK a : a = <<p, q, SubSeq(w, 1, j)>>
      OBVIOUS
    <3>5. /\ not_delivered' = not_delivered
          /\ ack_queue' = ack_queue \cup {a}
          /\ handled' = handled \cup {h}
      <4>1. /\ not_delivered' = not_delivered
            /\ ack_queue' = ack_queue \cup {<<p, mes.from, mes.text>>}
            /\ handled' = handled \cup {Read(p, mes)}
        BY <1>14, <2>3, Zenon DEF Handle, At
      <4> QED BY <2>1, <3>1, <3>3, <3>4, <4>1
    <3>6. j \in 0 .. Len(w) /\ (j = Len(w) => k = Len(w))
      <4>1. Len(w) \in Nat
        BY LenProperties DEF Text
      <4> QED BY <4>1
    <3>7. \/ h = <<p, q, "none", {}, 0, -1>>
          \/ \E r \in Nat : /\ h = <<p, q, m.type, m.val, m.num, r>>
                            /\ IsPrefix(Decimal[r], Decimal[m.round])
      BY <1>2, <2>1, <3>1, <3>3, <3>6, ReadBeginning
    <3>8. <<p, q>> \in {<<m.dst, m.src>>, <<m.src, m.dst>>}
      BY <1>4
    <3>9. Reading(h) /\ h[1] = p
      BY <1>1, <3>7, <3>8 DEF Reading
    <3>10. Acknowledging(a)'
      <4>1. AsSent' = AsSent /\ Wrapped(datum)' = w /\ datum' = m
        BY <1>1, <1>2 DEF AsSent
      <4>2. a[1] = p /\ a[2] = q /\ (j = Len(w) => AsSent \in handled')
        BY <1>5, <3>4, <3>5, <3>6
      <4> QED BY <3>4, <3>6, <3>8, <4>1, <4>2 DEF Acknowledging
    <3> QED BY <1>1, <1>10, <1>11, <3>2, <3>5, <3>9, <3>10, Handled
  <2> QED BY <2>2, <2>3
<1>15. (not_delivered' = not_delivered /\ ack_queue' = ack_queue /\ handled' = handled)
       \/ (mes.from > 0 /\ Handle(p, mes))
  BY <1>8, <1>12, ReceivedOrNot
<1> QED BY <1>13, <1>14, <1>15

\* A message and its acknowledgement are read as what they are, whatever the
\* length of the buffer: the invariant of receive_udp, deformat_lattice and the
\* handlers behind them.
THEOREM FormatHolds == Spec => []FormatInv
<1>1. FormatInv /\ [Next]_vars => FormatInv'
  <2> SUFFICES ASSUME FormatInv, [Next]_vars PROVE FormatInv'
    OBVIOUS
  <2>1. CASE ReceiveData
    BY <2>1, DataNext
  <2>2. CASE ReceiveAck
    BY <2>2, AckNext
  <2>3. CASE UNCHANGED vars
    BY <2>3 DEF vars, FormatInv, SentInv, AckInv, Acknowledging, HandledInv, Reading, FitsInv,
                Fits, AsSent, ResentUntilRead
  <2> QED BY <2>1, <2>2, <2>3 DEF Next
<1> QED BY <1>1, FormatInit, PTL DEF Spec

\* A message that fits the buffer with its acknowledgement is read as it was meant.
THEOREM ReadAsSentHolds == Spec => []ReadAsSent
<1>1. FormatInv => ReadAsSent
  BY DEF FormatInv, HandledInv, FitsInv, Fits, ReadAsSent
<1> QED BY <1>1, FormatHolds, PTL

\* A message that is cut off is thrown away, or differs in its round only, which
\* is then cut off itself.
THEOREM CutIsRefusedHolds == Spec => []CutIsRefused
<1>1. FormatInv => CutIsRefused
  <2> SUFFICES ASSUME FormatInv, NEW h \in AtReceiver, h[6] # -1
               PROVE  /\ SubSeq(h, 1, 5) = SubSeq(AsSent, 1, 5)
                      /\ IsPrefix(Decimal[h[6]], Decimal[datum.round])
    BY DEF CutIsRefused
  <2>1. Reading(h) /\ h[1] = datum.dst
    BY DEF FormatInv, HandledInv, AtReceiver
  <2>2. h[2] = datum.src
    BY <2>1 DEF Reading
  <2>3. /\ h = <<h[1], h[2], datum.type, datum.val, datum.num, h[6]>>
        /\ IsPrefix(Decimal[h[6]], Decimal[datum.round])
    BY <2>1 DEF Reading
  <2>4. PICK a, b, c, d, e, f, g : /\ h = <<a, b, c, d, e, f>>
                                   /\ AsSent = <<a, b, c, d, e, g>>
    BY <2>1, <2>2, <2>3 DEF AsSent
  <2>5. SubSeq(<<a, b, c, d, e, f>>, 1, 5) = SubSeq(<<a, b, c, d, e, g>>, 1, 5)
    <3> DEFINE s == <<a, b, c, d, e, f>>
               t == <<a, b, c, d, e, g>>
               A == {a, b, c, d, e, f, g}
    <3>1. /\ s \in Seq(A) /\ t \in Seq(A) /\ Len(s) = 6 /\ Len(t) = 6
          /\ \A i \in 1 .. 5 : s[i] = t[i]
      OBVIOUS
    <3> HIDE DEF s, t, A
    <3>2. 5 \in 0 .. Len(s) /\ 5 \in 0 .. Len(t)
      BY <3>1
    <3>3. /\ SubSeq(s, 1, 5) \in Seq(A) /\ Len(SubSeq(s, 1, 5)) = 5
          /\ \A i \in 1 .. 5 : SubSeq(s, 1, 5)[i] = s[i]
          /\ SubSeq(t, 1, 5) \in Seq(A) /\ Len(SubSeq(t, 1, 5)) = 5
          /\ \A i \in 1 .. 5 : SubSeq(t, 1, 5)[i] = t[i]
      BY <3>1, <3>2, Beginning
    <3>4. SubSeq(s, 1, 5) = SubSeq(t, 1, 5)
      BY <3>1, <3>3, SeqEqual
    <3> QED BY <3>4 DEF s, t
  <2> QED BY <2>3, <2>4, <2>5
<1> QED BY <1>1, FormatHolds, PTL

\* The sender stops resending only when the whole message has been read.
THEOREM ResentUntilReadHolds == Spec => []ResentUntilRead
<1>1. FormatInv => ResentUntilRead
  BY DEF FormatInv
<1> QED BY <1>1, FormatHolds, PTL

=============================================================================
