----------------------------- MODULE MCPerCodec ------------------------------
(***************************************************************************)
(* Values are trees.  Flag, Small and Byte are primitive types of 1, 3 and *)
(* 8 bits, of which only the last is aligned.  V0 to V3 are versions of    *)
(* one extensible SEQUENCE, with a group among the additions and, in the   *)
(* last one, an addition that it requires; Pick0 and Pick versions of one  *)
(* CHOICE.  Few and More are lists with a size constraint, More with an    *)
(* extensible one.  Bag is a SET whose fields are not declared in the      *)
(* order of their tags, Row one whose fields are; in Mixed the OPTIONAL    *)
(* ones are out of order.  Holder nests all of them.                       *)
(*                                                                         *)
(* Inputs that no encoder wrote are all short ones, longer ones put        *)
(* together of single bits, lengths and numbers, and links in the addition *)
(* of a link.  Link is recursive through an addition, Fork through a root  *)
(* and an extended alternative, Tree through the items of a list, so that  *)
(* the depth limit is reached from each.                                   *)
(***************************************************************************)
EXTENDS PerCodec

Sequence == INSTANCE SequencesExt

CONSTANTS MaxBits,      \* bound: the length of an input of any bits
          MaxPieces     \* bound: the pieces of a longer one

Fld(t, tg, o, e) == [type |-> t, tag |-> tg, opt |-> o, ext |-> e, group |-> FALSE]
Req(t, tg) == Fld(t, tg, FALSE, FALSE)
Opt(t, tg) == Fld(t, tg, TRUE, FALSE)
Add(t, tg) == Fld(t, tg, TRUE, TRUE)
Grp(t, tg) == [Add(t, tg) EXCEPT !.group = TRUE]

VersionNames == {"V0", "V1", "V2", "V3"}
Primitives == {"Flag", "Small", "Byte"}
MCType == Primitives \cup VersionNames
            \cup {"Pair", "Empty", "Maybe", "List", "Few", "More", "Pick", "Pick0", "Items", "Bag", "Row",
                  "Mixed", "Holder", "Link", "Fork", "Tree"}
MCKind == [t \in MCType |-> CASE t \in Primitives -> "primitive"
                              [] t \in {"Bag", "Row", "Mixed"} -> "set"
                              [] t \in {"Pick", "Pick0", "Fork"} -> "choice"
                              [] t \in {"List", "Few", "More", "Items", "Tree"} -> "list"
                              [] OTHER -> "sequence"]
MCBound == [t \in MCType |-> CASE t = "Flag" -> 1 [] t = "Small" -> 3 [] t = "Byte" -> 8
                               [] t = "Few" -> 2 [] t = "More" -> 1 [] OTHER -> 0]
V0Fields == <<Opt("Flag", 0), Req("Pair", 1)>>
V2Fields == V0Fields \o <<Add("List", 2), Grp("Maybe", 3)>>
PickRoot == <<Req("Byte", 0), Req("Pair", 1), Req("Flag", 2)>>
MCFields ==
    [t \in MCType |->
        CASE t = "Pair" -> <<Opt("Flag", 0), Req("Byte", 1), Opt("Empty", 2)>>
          [] t = "Maybe" -> <<Opt("Flag", 0), Opt("Byte", 1)>>
          [] t = "List" -> <<Req("Pair", 0)>>
          [] t \in {"Few", "More"} -> <<Req("Small", 0)>>
          [] t = "Items" -> <<Req("Pick", 0)>>
          [] t = "V0" -> V0Fields
          [] t = "V1" -> V0Fields \o <<Add("List", 2)>>
          [] t = "V2" -> V2Fields
          [] t = "V3" -> V2Fields \o <<Fld("Small", 4, FALSE, TRUE)>>
          [] t = "Pick0" -> PickRoot
          [] t = "Pick" -> PickRoot \o <<Add("Byte", 3), Add("V2", 4), Add("Empty", 5)>>
          [] t = "Bag" -> <<Req("Flag", 2), Opt("Byte", 0), Opt("V1", 1)>>
          [] t = "Row" -> <<Req("Flag", 0), Opt("Few", 1), Opt("Byte", 2)>>
          [] t = "Mixed" -> <<Opt("Flag", 1), Opt("Small", 0)>>
          [] t = "Holder" -> <<Opt("Row", 0), Opt("Pick", 1), Req("V2", 2), Req("Items", 3),
                               Add("More", 4), Add("V1", 5), Add("Pick", 6)>>
          [] t = "Link" -> <<Opt("Small", 0), Add("More", 1), Add("Link", 2)>>
          [] t = "Fork" -> <<Req("Small", 0), Req("Fork", 1), Add("Fork", 2)>>
          [] t = "Tree" -> <<Req("Tree", 0)>>
          [] OTHER -> << >>]
MCExtensible == [t \in MCType |-> t \in VersionNames \cup {"Pick", "Pick0", "More", "Holder", "Link", "Fork"}]
MCVersions == [t \in MCType |-> CASE t \in VersionNames -> VersionNames
                                  [] t \in {"Pick", "Pick0"} -> {"Pick", "Pick0"}
                                  [] OTHER -> {t}]

Tree(t, i, c) == [type |-> t, alt |-> i, child |-> c]
Yes == Tree("Flag", 1, << >>)
No == Tree("Flag", 0, << >>)
Five == Tree("Small", 5, << >>)
Big == Tree("Byte", 129, << >>)
None == Tree("Empty", 0, << >>)
Pairs == {Tree("Pair", 0, <<a, Big, c>>) : a \in {Absent, Yes}, c \in {Absent, None}}
P1 == Tree("Pair", 0, <<Absent, Big, None>>)
P2 == Tree("Pair", 0, <<No, Big, Absent>>)
ListsOf(t, S) == {Tree(t, 0, << >>)} \cup {Tree(t, 0, <<e>>) : e \in S}
                    \cup {Tree(t, 0, <<d, e>>) : d, e \in S}
Lists == ListsOf("List", {P1, P2})
Single == Tree("List", 0, <<P2>>)
Fews == ListsOf("Few", {Five})
Mores == ListsOf("More", {Five})
Maybes == {Tree("Maybe", 0, <<a, b>>) : a \in {Absent, Yes}, b \in {Absent, Big}}
V0s == {Tree("V0", 0, <<a, p>>) : a \in {Absent, Yes}, p \in Pairs}
V1s == {Tree("V1", 0, <<a, P1, l>>) : a \in {Absent, No}, l \in Lists \cup {Absent}}
V2s == {Tree("V2", 0, <<a, P2, l, g>>) : a \in {Absent, Yes}, l \in {Absent, Single},
            g \in Maybes \cup {Absent}}
V3s == {Tree("V3", 0, v.child \o <<Five>>) : v \in V2s}
FewV2 == {Tree("V2", 0, <<Yes, P2, l, Absent>>) : l \in {Absent, Single}}
FewV1 == {Tree("V1", 0, <<No, P1, l>>) : l \in {Absent, Single}}
Pick0s == {Tree("Pick0", 1, <<Big>>), Tree("Pick0", 3, <<Yes>>)}
            \cup {Tree("Pick0", 2, <<p>>) : p \in Pairs}
Extended == {Tree("Pick", 4, <<Big>>), Tree("Pick", 6, <<None>>)} \cup {Tree("Pick", 5, <<v>>) : v \in FewV2}
Picks == {Tree("Pick", 1, <<Big>>), Tree("Pick", 2, <<P1>>), Tree("Pick", 3, <<Yes>>)} \cup Extended
ItemLists == ListsOf("Items", Picks)
Bags == {Tree("Bag", 0, <<Yes, b, v>>) : b \in {Absent, Big}, v \in FewV1 \cup {Absent}}
Mixeds == {Tree("Mixed", 0, <<a, b>>) : a \in {Absent, Yes}, b \in {Absent, Five}}
Rows == {Tree("Row", 0, <<Yes, l, b>>) : l \in Fews \cup {Absent}, b \in {Absent, Big}}
FewRows == {Tree("Row", 0, <<Yes, l, Big>>) : l \in Fews}
Row1 == CHOOSE r \in FewRows : Len(r.child[2].child) = 1
More1 == CHOOSE m \in Mores : Len(m.child) = 1
TwoItems == Tree("Items", 0, <<Tree("Pick", 3, <<Yes>>), Tree("Pick", 4, <<Big>>)>>)
OneItem == Tree("Items", 0, <<Tree("Pick", 3, <<Yes>>)>>)
Holders == {Tree("Holder", 0, <<r, p, v, l, m, w, q>>) : l \in {OneItem, TwoItems},
              r \in {Absent, Row1}, p \in {Absent, Tree("Pick", 1, <<Big>>), Tree("Pick", 4, <<Big>>)},
              v \in FewV2, m \in {Absent, More1}, w \in {Tree("V1", 0, <<No, P1, Single>>)},
              q \in {Absent, Tree("Pick", 4, <<Big>>)}}

MCNode == {Yes, No, Five, Big, None, P2} \cup Pairs \cup Lists \cup Fews \cup Mores \cup Maybes
            \cup V0s \cup V1s \cup V2s \cup V3s \cup Pick0s \cup Picks \cup ItemLists
            \cup Bags \cup Rows \cup Mixeds \cup Holders
MCTypeOf == LET nodes == MCNode IN [n \in nodes |-> n.type]
MCChild == LET nodes == MCNode IN [n \in nodes |-> n.child]
MCAlt == LET nodes == MCNode IN [n \in nodes |-> n.alt]
MCTag == 0..6

Octet(n) == Binary(n, 8)
Chunks == {<<0>>, <<1>>, <<1, 1>>, Zeros(7), Octet(1), Octet(2), Octet(128) \o Octet(1)}
Joined == {Sequence!FlattenSeq(s) : s \in UNION {[1..n -> Chunks] : n \in 0..MaxPieces}}

\* Links in the addition of links, up to one more than the limit; padding comes before
\* the length of the addition in the aligned variant, behind it in the other
Wrapped(s, pads) == LET n == Octet(Len(s) \div 8)
                    IN  <<1, 0>> \o SmallInteger(1) \o <<0, 1>>
                            \o (IF pads THEN Zeros(5) \o n \o s ELSE n \o s \o Zeros(5))
Linked(n, pads) == LET link[k \in 0..n] == IF k = 0 THEN Zeros(8) ELSE Wrapped(link[k - 1], pads)
                   IN  link[n]
Links == {Linked(n, pads) : n \in 1..(MaxDepth + 1), pads \in BOOLEAN}

MCInputs == UNION {[1..n -> Bit] : n \in 0..MaxBits} \cup Joined \cup Links
====
