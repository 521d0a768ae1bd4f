-------------------------- MODULE MCVersoCommands --------------------------
(***************************************************************************)
(* Two invocations of Verso at once, two people, three ids and one alias.  *)
(***************************************************************************)
EXTENDS VersoCommands, TLC

CONSTANTS ann, bob, nick, i1, i2, i3, p1, p2

TwoProcesses == {p1, p2}
ThreeIds     == {i1, i2, i3}
TwoPeople    == {ann, bob}

Given(kind, query, name, person) ==
  [kind |-> kind, query |-> query, name |-> name, who |-> person]

\* What matters of a command is the account it names and the alias it gives.
MCCommands ==
  {Given("alias", ann, nick, ann), Given("alias", bob, nick, ann),
   Given("add", ann, nick, bob), Given("import", ann, NoOne, ann),
   Given("list", ann, NoOne, ann), Given("remove", ann, NoOne, ann),
   Given("switch", nick, NoOne, ann), Given("switch", i1, NoOne, ann)}

\* Nothing saved, the first id given out, or the first two.
Account(person) == [who |-> person, alias |-> person, gen |-> 0]
Nothing  == [i \in ThreeIds |-> Unused]
MCStores == {Nothing, [Nothing EXCEPT ![i1] = Account(ann)],
             [Nothing EXCEPT ![i1] = Account(ann), ![i2] = Account(bob)]}
=============================================================================
