----------------------------- MODULE MCXerCodec ------------------------------
(***************************************************************************)
(* Values are trees: a node is its type, its alternative (for a primitive  *)
(* its number) and its components.  Alias is a newtype of the CHOICE Pick, *)
(* Boxed one with an explicit tag.  The components of Loose have no tags.  *)
(***************************************************************************)
EXTENDS XerCodec

MCKind == [Int |-> "text", Oct |-> "octets", Real |-> "real", Flag |-> "enum", Null |-> "null",
           Open |-> "any", Pair |-> "sequence", Wrap |-> "sequence", Loose |-> "sequence",
           Early |-> "sequence", Maybe |-> "sequence", Stale |-> "sequence",
           Group |-> "set", Pick |-> "choice", Alias |-> "delegate", Boxed |-> "explicit",
           Id |-> "delegate", Ints |-> "list", Lists |-> "list", Flags |-> "list",
           Picks |-> "list", Boxes |-> "list", Aliases |-> "list", Pairs |-> "list",
           Octs |-> "list"]
MCType == DOMAIN MCKind
MCIdent == [t \in MCType |-> CASE t \in {"Int"} -> "INTEGER"
                               [] t = "Flag" -> "BOOLEAN"
                               [] MCKind[t] = "list" -> "SEQUENCE_OF"
                               [] OTHER -> t]
MCNames == [t \in MCType |-> CASE t = "Pair" -> <<"x", "y", "z">>
                               [] t = "Wrap" -> <<"a", "b", "c", "Pair", "z">>
                               [] t = "Loose" -> <<"x", "a">>
                               [] t \in {"Early", "Maybe"} -> <<"a", "x">>
                               [] t = "Stale" -> <<"a", "x", "y">>
                               [] t = "Group" -> <<"b", "x", "a">>
                               [] t = "Pick" -> <<"n", "p", "r", "x", "l">>
                               [] OTHER -> << >>]
MCParts == [t \in MCType |-> CASE t = "Pair" -> <<"Int", "Flag", "Id">>
                               [] t = "Wrap" -> <<"Pick", "Ints", "Alias", "Pair", "Open">>
                               [] t = "Loose" -> <<"Real", "Pick">>
                               [] t = "Early" -> <<"Picks", "Int">>
                               [] t = "Maybe" -> <<"Alias", "Int">>
                               [] t = "Stale" -> <<"Boxes", "Int", "Flag">>
                               [] t = "Group" -> <<"Flags", "Int", "Alias">>
                               [] t = "Pick" -> <<"Null", "Pair", "Pick", "Flag", "Ints">>
                               [] t \in {"Alias", "Boxed", "Picks"} -> <<"Pick">>
                               [] t \in {"Id", "Ints"} -> <<"Int">>
                               [] t = "Lists" -> <<"Ints">>
                               [] t = "Flags" -> <<"Flag">>
                               [] t = "Boxes" -> <<"Boxed">>
                               [] t = "Aliases" -> <<"Alias">>
                               [] t = "Pairs" -> <<"Pair">>
                               [] t = "Octs" -> <<"Oct">>
                               [] OTHER -> << >>]
MCOptional == [t \in MCType |-> CASE t = "Pair" -> {1, 3}
                                  [] t = "Wrap" -> {1, 4, 5}
                                  [] t = "Maybe" -> {1}
                                  [] OTHER -> {}]
MCTagged == [t \in MCType |-> t # "Loose"]
MCSetOrder == [t \in MCType |-> IF t = "Group" THEN <<3, 1, 2>> ELSE << >>]
MCSameName(a, b) == a = b

Tree(t, i, c) == [type |-> t, alt |-> i, child |-> c]
Leaf(t, i) == Tree(t, i, << >>)
ListsOf(t, S) == {Tree(t, 0, << >>)} \cup {Tree(t, 0, <<a>>) : a \in S}
                    \cup {Tree(t, 0, <<a, b>>) : a, b \in S}

OneInt == Leaf("Int", 1)
TwoInt == Leaf("Int", 2)
AnyInts == ListsOf("Ints", {OneInt, TwoInt})
AllFlags == {Leaf("Flag", 0), Leaf("Flag", 1)}
AllPairs == {Tree("Pair", 0, <<x, y, z>>) : x \in {Absent, OneInt}, y \in AllFlags,
                                            z \in {Absent, Tree("Id", 0, <<TwoInt>>)}}
FewPairs == {Tree("Pair", 0, <<Absent, Leaf("Flag", 1), Absent>>),
             Tree("Pair", 0, <<OneInt, Leaf("Flag", 0), Absent>>)}
Flat == {Tree("Pick", 1, <<Leaf("Null", 0)>>), Tree("Pick", 4, <<Leaf("Flag", 1)>>)}
            \cup {Tree("Pick", 2, <<p>>) : p \in FewPairs}
            \cup {Tree("Pick", 5, <<l>>) : l \in AnyInts}
AllPicks == Flat \cup {Tree("Pick", 3, <<p>>) : p \in Flat}
FewPicks == {Tree("Pick", 3, <<Tree("Pick", 1, <<Leaf("Null", 0)>>)>>),
             Tree("Pick", 2, <<CHOOSE p \in FewPairs : TRUE>>)}
Newtypes(t, S) == {Tree(t, 0, <<p>>) : p \in S}
Wraps == {Tree("Wrap", 0, <<a, b, c, p, z>>) :
            a \in FewPicks \cup {Absent}, b \in {Tree("Ints", 0, << >>), Tree("Ints", 0, <<OneInt, TwoInt>>)},
            c \in Newtypes("Alias", FewPicks), p \in FewPairs \cup {Absent},
            z \in {Absent, Leaf("Open", 3)}}
Looses == {Tree("Loose", 0, <<Leaf("Real", k), a>>) : k \in 0..1, a \in AllPicks}
Groups == {Tree("Group", 0, <<b, OneInt, a>>) : b \in ListsOf("Flags", AllFlags),
                                                 a \in Newtypes("Alias", FewPicks)}
Collections == ListsOf("Lists", AnyInts) \cup ListsOf("Flags", AllFlags)
                \cup ListsOf("Picks", AllPicks) \cup ListsOf("Pairs", AllPairs)
                \cup ListsOf("Boxes", Newtypes("Boxed", FewPicks))
                \cup ListsOf("Aliases", Newtypes("Alias", FewPicks))
                \cup ListsOf("Octs", {Leaf("Oct", 1), Leaf("Oct", 2)})

AllRoots == {OneInt, Leaf("Oct", 1), Leaf("Real", 0), Leaf("Flag", 0), Leaf("Null", 0)} \cup AnyInts
            \cup AllPairs \cup AllPicks \cup Newtypes("Alias", AllPicks) \cup Newtypes("Boxed", AllPicks)
            \cup Wraps \cup Looses \cup Groups \cup Collections

\* Values that are known not to come back: a CHOICE that is encoded without an
\* encoder of its own while names wait (an item, an OPTIONAL newtype), fields
\* behind a list whose items leave the flag set, an empty string of octets in
\* front of something else, an absent field of a SET, an open type without a
\* name
Lost == {Tree("Early", 0, <<Tree("Picks", 0, <<p>>), OneInt>>) : p \in FewPicks}
            \cup {Tree("Maybe", 0, <<a, OneInt>>) : a \in Newtypes("Alias", FewPicks)}
            \cup {Tree("Stale", 0, <<Tree("Boxes", 0, <<b>>), OneInt, Leaf("Flag", 0)>>) :
                    b \in Newtypes("Boxed", FewPicks)}
            \cup {Tree("Octs", 0, <<Leaf("Oct", 0), Leaf("Oct", 1)>>)}
            \cup {Tree("Group", 0, <<Absent, OneInt, a>>) : a \in Newtypes("Alias", FewPicks)}
            \cup {Leaf("Open", 3)}

RECURSIVE Below(_)
Below(n) == {n} \cup UNION {Below(n.child[i]) : i \in {j \in 1..Len(n.child) : n.child[j] # Absent}}
AllNodes == UNION {Below(n) : n \in AllRoots \cup Lost}

MCRoots == LET roots == AllRoots IN roots
MCNode == LET nodes == AllNodes IN nodes
=============================================================================
