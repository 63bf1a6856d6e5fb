------------------------------- MODULE MCStartup -------------------------------
(***************************************************************************)
(* An instance of Startup for TLC: the inputs.  An int has 8 values, -4 to *)
(* 3, an unsigned long 16.                                                 *)
(***************************************************************************)
EXTENDS Startup, TLC

CONSTANTS l1, l2

TwoProcs == {l1, l2}

Host(i, p) == [id |-> i, port |-> p]

Hosts == {<<Host(1, 11), Host(2, 12)>>,
          <<Host(3, 13), Host(1, 11), Host(2, 12)>>,
          <<Host(1, 11), Host(1, 12), Host(3, 13)>>,
          <<Host(1, 11), Host(2, 11)>>,
          <<Host(1, 0), Host(2, 12)>>,
          <<Host(0, 10), Host(2, 12)>>,
          <<Host(1, 11), Host(3, 13)>>,
          <<Host(1, 11), Junk>>,
          <<Host(1, 11)>>,
          NoFile}

\* As documented; with too few lines; with a blank line; with the header in two
\* lines; with words that are no numbers; with an incomplete header; without any;
\* with a negative number of proposals; with numbers beyond an int.
Plain == << <<2, 2, 3>>, <<1>>, <<2, 3>> >>
Configs == {Plain,
            << <<2, 2, 3>>, <<1>> >>,
            << <<2, 2, 3>>, <<>>, <<1>>, <<2>> >>,
            << <<>>, <<2, 2>>, <<3>>, <<2>>, <<3, 2>>, <<1>> >>,
            << <<1, 1, 3, 2>>, <<1>> >>,
            << <<2, 2, 3>>, <<1, Junk, 2>>, <<Junk>> >>,
            << <<0, 1, 1>> >>,
            << <<2, Junk>> >>,
            << <<Junk, 2, 3>>, <<1>> >>,
            << <<1>> >>,
            << <<>> >>,
            << <<-1, 1, 1>>, <<1>> >>,
            << <<4, 2, 3>>, <<1>> >>,
            << <<-5, 2, 3>>, <<1>> >>,
            << <<2, 2, 3>>, <<1, 4, 2>>, <<-1>> >>,
            NoFile}

\* A command line; the output file is named after the id.
Command(id, config) == <<"--id", id, "--hosts", "hosts", "--output", id, config>>

\* An option that is missing, misspelt or in another place; no number, or one that
\* is too large, for an id.
Refused == {SubSeq(Command(1, Plain), 1, n) : n \in {0, 2, 4, 6}}
             \cup {[Command(1, Plain) EXCEPT ![i] = "-o"] : i \in {1, 3, 5}}
             \cup {Command(id, Plain) : id \in {Junk, -1, 16}}

\* Any --id with a plain file, also with the output file of another, --id 1 with
\* any file.  9 is 1 and 6 is -2.
Starts == Refused
            \cup {Command(id, Plain) : id \in {0, 1, 2, 3, 4, 6, 9}}
            \cup {[Command(id, Plain) EXCEPT ![6] = 1] : id \in {2, 9}}
            \cup {Command(1, config) : config \in Configs}

Indeterminate == {-1, 0, 1}

Permuted == Permutations(Proc)

=============================================================================
