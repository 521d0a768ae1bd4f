-------------------------- MODULE MCReleaseChoice --------------------------
(***************************************************************************)
(* Identifiers for TLC, in the order of strings: "-1", "-a", "10", "1a",   *)
(* "2", a number of twenty digits, and "alpha"; two cores that only the    *)
(* patch tells apart; pre-releases of up to two identifiers.               *)
(***************************************************************************)
EXTENDS ReleaseChoice

Word(t)      == [text |-> t, number |-> NaN, digits |-> FALSE]
Number(t, n) == [text |-> t, number |-> n, digits |-> TRUE]

MinusOne == [text |-> 1, number |-> -1, digits |-> FALSE]
Huge     == [text |-> 6, number |-> NaN, digits |-> TRUE]

MCIdentifiers == {MinusOne, Word(2), Number(3, 10), Word(4), Number(5, 2),
                  Huge, Word(7)}

MCPres == {<< >>} \cup {<<x>> : x \in MCIdentifiers}
          \cup {<<Word(7), x>> : x \in {Number(3, 10), Number(5, 2)}}

MCVersions ==
  [core : {<<0, 1, 0>>}, pre : MCPres]
  \cup [core : {<<0, 1, 1>>}, pre : {<< >>, <<Huge>>}]
=============================================================================
