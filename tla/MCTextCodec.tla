----------------------------- MODULE MCTextCodec -----------------------------
(***************************************************************************)
(* Values are trees: a node is its type, its alternative (for a primitive  *)
(* its number) and its components.  Wrap nests everything else, with       *)
(* OPTIONAL fields first and last.  Outer is a SET with an OPTIONAL field; *)
(* its fields are not declared in the order of their tags.  Deep is a list *)
(* of lists.  Union is a CHOICE whose second alternative is the untagged   *)
(* CHOICE Both: the first is found, the third is taken for the fourth and  *)
(* the others are not found.                                               *)
(***************************************************************************)
EXTENDS TextCodec

MCType == {"Leaf", "Inner", "List", "Deep", "Pick", "Both", "Union", "Outer", "Wrap"}
MCKind == [t \in MCType |-> CASE t = "Leaf" -> "primitive"
                              [] t \in {"Inner", "Wrap"} -> "sequence"
                              [] t = "Outer" -> "set"
                              [] t \in {"Pick", "Both", "Union"} -> "choice"
                              [] OTHER -> "list"]
MCNames == [t \in MCType |-> CASE t = "Inner" -> <<"x", "y", "z">>
                               [] t = "Outer" -> <<"a", "b", "x">>
                               [] t = "Pick" -> <<"ab", "x", "aB">>
                               [] t = "Both" -> <<"ab", "x">>
                               [] t = "Union" -> <<"a", "b", "x", "y">>
                               [] t = "Wrap" -> <<"b", "a", "x", "y">>
                               [] OTHER -> << >>]
MCParts == [t \in MCType |-> CASE t = "Inner" -> <<"Leaf", "Leaf", "Leaf">>
                               [] t = "Outer" -> <<"Pick", "List", "Inner">>
                               [] t = "Pick" -> <<"Leaf", "Inner", "List">>
                               [] t = "Both" -> <<"Leaf", "Inner">>
                               [] t = "Union" -> <<"Leaf", "Both", "Leaf", "Leaf">>
                               [] t = "Wrap" -> <<"Pick", "List", "Inner", "Outer">>
                               [] t = "List" -> <<"Inner">>
                               [] t = "Deep" -> <<"List">>
                               [] OTHER -> << >>]
MCOptional == [t \in MCType |-> CASE t = "Inner" -> {1, 3}
                                  [] t = "Outer" -> {2}
                                  [] t = "Wrap" -> {1, 3, 4}
                                  [] OTHER -> {}]
MCSetOrder == [t \in MCType |-> IF t = "Outer" THEN <<3, 1, 2>> ELSE << >>]
Leaf(tag) == [choice |-> FALSE, leaves |-> <<tag>>]
MCVariants ==
    [t \in MCType |->
        CASE t = "Pick" -> <<Leaf(0), Leaf(1), Leaf(2)>>
          [] t = "Both" -> <<Leaf(0), Leaf(1)>>
          [] t = "Union" -> <<Leaf(2), [choice |-> TRUE, leaves |-> <<0, 1>>], Leaf(3), Leaf(5)>>
          [] OTHER -> << >>]

Lower(id) == IF id = "aB" THEN "ab" ELSE id
MCSameName(a, b) == Lower(a) = Lower(b)

Tree(t, i, c) == [type |-> t, alt |-> i, child |-> c]
One == Tree("Leaf", 1, << >>)
Two == Tree("Leaf", 2, << >>)
Inners == {Tree("Inner", 0, <<x, One, z>>) : x, z \in {Absent, Two}}
Few == {Tree("Inner", 0, <<Absent, One, Two>>), Tree("Inner", 0, <<Two, One, Absent>>)}
ListsOf(t, S) == {Tree(t, 0, << >>)} \cup {Tree(t, 0, <<e>>) : e \in S}
                    \cup {Tree(t, 0, <<d, e>>) : d, e \in S}
Lists == ListsOf("List", Few)
Deeps == ListsOf("Deep", Lists)
Picks == {Tree("Pick", 1, <<One>>)} \cup {Tree("Pick", 2, <<e>>) : e \in Inners}
Cased == {Tree("Pick", 3, <<e>>) : e \in Lists}
Boths == {Tree("Both", 1, <<One>>)} \cup {Tree("Both", 2, <<e>>) : e \in Few}
Unions == {Tree("Union", 2, <<p>>) : p \in Boths} \cup {Tree("Union", i, <<One>>) : i \in {1, 3, 4}}
Outers == {Tree("Outer", 0, <<a, b, x>>) : a \in Picks, b \in Lists, x \in Few}
Partial == {Tree("Outer", 0, <<a, Absent, x>>) : a \in Picks, x \in Few}
Wraps == {Tree("Wrap", 0, <<b, a, x, y>>) : b \in Picks \cup {Absent}, a \in Lists,
            x \in Few \cup {Absent}, y \in {Absent, CHOOSE o \in Outers : TRUE}}

MCNode == {One, Two} \cup Inners \cup Lists \cup Deeps \cup Picks \cup Cased \cup Boths
            \cup Unions \cup Outers \cup Partial \cup Wraps
MCTypeOf == [n \in MCNode |-> n.type]
MCChild == [n \in MCNode |-> n.child]
MCAlt == [n \in MCNode |-> n.alt]
\* A SET has all its fields, and no identifiers differ only in case: the other
\* values are known to fail
MCRoots == MCNode \ (Cased \cup Partial)
MCName == {"a", "b", "ab", "aB", "x", "y", "z"}
MCTag == 0..5
====
