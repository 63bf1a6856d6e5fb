--------------------------- MODULE MCMessageFormat ---------------------------
(***************************************************************************)
(* An instance of MessageFormat for TLC: datagrams of 7 to 14 characters,  *)
(* on both sides of the length of the buffer.                              *)
(***************************************************************************)
EXTENDS MessageFormat

Sets == SUBSET {1, 12, 2}

Rounds == {0, 1, 12}

Header == {[src |-> 1, dst |-> 2], [src |-> 1, dst |-> 10], [src |-> 10, dst |-> 1]}

Messages ==
  [type : {"P", "N"}, val : Sets, num : {1, 10}, round : Rounds]
    \cup [type : {"A"}, val : {{}}, num : {1, 10}, round : Rounds]
    \cup {[type |-> "F", val |-> {r}, num |-> 1, round |-> r] : r \in Rounds}

AllData == {[src |-> h.src, dst |-> h.dst, type |-> m.type, val |-> m.val,
             num |-> m.num, round |-> m.round] : h \in Header, m \in Messages}

=============================================================================
