----------------------------- MODULE Configuration -----------------------------
(***************************************************************************)
(* The files a process is given, as parser.hpp reads them, and the reader  *)
(* of the same configuration in example/output/verify_lattice.cpp.         *)
(*                                                                         *)
(* A file is a sequence of lines, a line a sequence of words; a word is an *)
(* integer, which may be too large for an int, or Junk.  White space       *)
(* inside a line has no meaning to any of the readers.                     *)
(***************************************************************************)
EXTENDS Integers, Sequences, FiniteSets, SequencesExt

CONSTANTS Junk,     \* a word that is not an integer
          NoFile,   \* the file cannot be opened
          IntRange  \* how many values an int has: 2^32

ASSUME IntRangeAssumption == IntRange \in Nat \ {0} /\ IntRange % 2 = 0

-----------------------------------------------------------------------------
(* Words and lines.                                                        *)

Word == Int \cup {Junk}

MaxInt == IntRange \div 2 - 1

MinInt == -(IntRange \div 2)

\* What extraction to an int takes without failing.
IsNumber(w) == w # Junk /\ MinInt <= w /\ w <= MaxInt

Words(file) == FlattenSeq(file)

\* How many of the first n words are numbers, up to the first that is not.
NumbersRead(words, n) ==
  CHOOSE k \in 0 .. n :
    /\ k <= Len(words)
    /\ \A i \in 1 .. k : IsNumber(words[i])
    /\ k = n \/ k = Len(words) \/ ~IsNumber(words[k + 1])

\* `while (ss >> num)`: the numbers of a line up to the first other word.
NumberSet(line) == {line[i] : i \in 1 .. NumbersRead(line, Len(line))}

\* The words in the lines before line i.
Before(file, i) == Len(Words(SubSeq(file, 1, i - 1)))

\* What is left of each line when the first n words have been read.
After(file, n) ==
  [i \in 1 .. Len(file) |->
     IF Before(file, i) >= n THEN file[i]
       ELSE SubSeq(file[i], n - Before(file, i) + 1, Len(file[i]))]

\* Broken variant: blank lines count.
EachLine(lines) == lines

\* getline(config >> ws, line), again and again: lines that are not blank.
NonBlank(lines) ==
  LET kept[i \in 0 .. Len(lines)] ==
        IF i = 0 THEN <<>>
        ELSE IF lines[i] = <<>> THEN kept[i - 1] ELSE Append(kept[i - 1], lines[i])
  IN  kept[Len(lines)]

-----------------------------------------------------------------------------
(* config_lattice.                                                         *)

\* p, vs and ds.
HeaderWords == 3

HeaderComplete(file) == NumbersRead(Words(file), HeaderWords) = HeaderWords

\* A failing extraction leaves the limit that an integer is beyond, and 0 for Junk.
Extracted(w) == CASE w = Junk             -> 0
                  [] w # Junk /\ w < MinInt -> MinInt
                  [] w # Junk /\ w > MaxInt -> MaxInt
                  [] OTHER                -> w

\* The values message_to_send may have.  A file without words leaves it as it was,
\* which is anything.
MessageToSend(file, anything) ==
  IF Words(file) = <<>> THEN anything ELSE {Extracted(Words(file)[1])}

\* proposals_lattice.assign throws length_error, which is no ifstream::failure and
\* which nothing catches.
AssignThrows(file) == HeaderComplete(file) /\ Words(file)[1] < 0

ProposalLines(file) == NonBlank(After(file, HeaderWords))

\* Broken variant: a proposal is added for each line that is there.
LinesThere(file) ==
  IF HeaderComplete(file)
    THEN [i \in {j \in 1 .. Words(file)[1] : j <= Len(ProposalLines(file))} |->
            NumberSet(ProposalLines(file)[i])]
    ELSE <<>>

\* proposals_lattice, unless assign throws.  It stays empty without a complete
\* header; a proposal for which there is no line stays empty; config_lattice then
\* returns false, which main prints before it goes on.
ProposalsLattice(file) ==
  IF HeaderComplete(file)
    THEN [i \in 1 .. Words(file)[1] |->
            IF i <= Len(ProposalLines(file)) THEN NumberSet(ProposalLines(file)[i])
                                             ELSE {}]
    ELSE <<>>

-----------------------------------------------------------------------------
(* readConfigAndOutput, the configuration.                                 *)

\* The line the header ends in; getline then takes the rest of it.
HeaderLine(file) ==
  CHOOSE i \in 1 .. Len(file) : /\ Before(file, i) < HeaderWords
                                /\ Before(file, i + 1) >= HeaderWords

\* proposals.  A line that is not there is read as an empty one.
VerifierProposals(file) ==
  [i \in 1 .. Words(file)[1] |->
     IF HeaderLine(file) + i <= Len(file) THEN NumberSet(file[HeaderLine(file) + i])
                                          ELSE {}]

-----------------------------------------------------------------------------
(* hosts().  An entry of a hosts file is a record of id and port, or Junk: *)
(* a line that does not parse, or a name that does not resolve.            *)

IsEntry(entry) == entry # Junk

Ids(entries) == {entries[i].id : i \in 1 .. Len(entries)}

\* Broken variant: the smallest id may be any.
UpTo(entries) == \A x \in Ids(entries) : x <= Len(entries)

\* minID = 1 and maxID = hosts.size().
Compact(entries) == /\ 1 \in Ids(entries)
                    /\ Len(entries) \in Ids(entries)
                    /\ \A x \in Ids(entries) : 1 <= x /\ x <= Len(entries)

HostsAccepted(entries) ==
  /\ entries # NoFile
  /\ \A i \in 1 .. Len(entries) : IsEntry(entries[i])
  /\ Len(entries) >= 2
  /\ Compact(entries)

\* sort: of two entries with the same id either may come first, but always the
\* same one.
Sorted(entries) ==
  CHOOSE s \in {[i \in 1 .. Len(entries) |-> entries[f[i]]] :
            f \in {g \in [1 .. Len(entries) -> 1 .. Len(entries)] : IsInjective(g)}} :
    \A i \in 1 .. Len(entries) - 1 : s[i].id <= s[i + 1].id

=============================================================================
