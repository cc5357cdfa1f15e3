----------------------------- MODULE MCOerCodec ------------------------------
(***************************************************************************)
(* Values are trees, as in MCTextCodec.  V0 to V3 are versions of one      *)
(* extensible SEQUENCE, the last one with an addition that it requires;    *)
(* Pick and Pick0 versions of one CHOICE.  Wide has an extension bitmap of *)
(* two octets and Many a preamble of two.  Bag is a SET whose fields are   *)
(* not declared in the order of their tags.  Holder nests extensible       *)
(* values in each other where the encoder can do it; Nest (an extensible   *)
(* value in an addition), Sack (a CHOICE in a SET) and Bare (nothing in    *)
(* the extension root) are where it cannot.                                *)
(*                                                                         *)
(* Inputs that no encoder wrote are all short ones over octets that are a  *)
(* length, a number, a preamble or a tag, and links in the addition of a   *)
(* link.  Link is recursive through an addition, Fork through a root and   *)
(* an extended alternative, Tree through the items of a list, so that the  *)
(* depth limit is reached from each.                                       *)
(***************************************************************************)
EXTENDS OerCodec

CONSTANTS MaxOctets,    \* bound: the length of an input
          Alphabet      \* its octets

Fld(t, tg, o, e) == [type |-> t, tag |-> tg, opt |-> o, ext |-> e]
Req(t, tg) == Fld(t, tg, FALSE, FALSE)
Opt(t, tg) == Fld(t, tg, TRUE, FALSE)
Add(t, tg) == Fld(t, tg, TRUE, TRUE)

VersionNames == {"V0", "V1", "V2", "V3"}
MCType == {"Leaf", "Pair", "Empty", "List", "Items", "Pick", "Pick0", "Wide", "Many", "Bag",
           "Holder", "Nest", "Sack", "Bare", "Link", "Fork", "Tree"} \cup VersionNames
MCKind == [t \in MCType |-> CASE t = "Leaf" -> "primitive"
                              [] t \in {"Bag", "Sack"} -> "set"
                              [] t \in {"Pick", "Pick0", "Fork"} -> "choice"
                              [] t \in {"List", "Items", "Tree"} -> "list"
                              [] OTHER -> "sequence"]
V0Fields == <<Opt("Leaf", 0), Req("Pair", 1)>>
V2Fields == V0Fields \o <<Add("List", 2), Add("Bag", 3)>>
PickRoot == <<Req("Leaf", 0), Req("Pair", 4)>>
MCFields ==
    [t \in MCType |->
        CASE t = "Pair" -> <<Opt("Leaf", 0), Req("Leaf", 1), Opt("Empty", 2)>>
          [] t = "List" -> <<Req("Pair", 0)>>
          [] t = "Items" -> <<Req("Pick", 0)>>
          [] t = "V0" -> V0Fields
          [] t = "V1" -> V0Fields \o <<Add("List", 2)>>
          [] t = "V2" -> V2Fields
          [] t = "V3" -> V2Fields \o <<Fld("Leaf", 4, FALSE, TRUE)>>
          [] t = "Pick0" -> PickRoot
          [] t = "Pick" -> PickRoot \o <<Add("List", 2), Add("V2", 62)>>
          [] t = "Wide" -> <<Req("Leaf", 0)>> \o [i \in 1..9 |-> Add("Leaf", i)]
          [] t = "Many" -> [i \in 1..8 |-> Opt("Leaf", i)] \o <<Add("Pair", 9)>>
          [] t = "Bag" -> <<Req("Leaf", 2), Opt("Pair", 0), Opt("Leaf", 3), Req("V1", 1)>>
          [] t = "Holder" -> <<Opt("Pick", 0), Req("V2", 1), Req("Items", 2), Add("Pair", 3)>>
          [] t = "Nest" -> <<Req("Leaf", 0), Add("V1", 1), Add("Pick", 2)>>
          [] t = "Sack" -> <<Req("Pick", 0), Req("Leaf", 1)>>
          [] t = "Bare" -> <<Add("Leaf", 0)>>
          [] t = "Link" -> <<Opt("Leaf", 0), Add("List", 1), Add("Link", 2)>>
          [] t = "Fork" -> <<Req("Leaf", 0), Req("Fork", 1), Add("Fork", 2)>>
          [] t = "Tree" -> <<Req("Tree", 0)>>
          [] OTHER -> << >>]
MCExtensible == [t \in MCType |-> t \in VersionNames \cup {"Pick", "Pick0", "Wide", "Many", "Holder",
                                                          "Nest", "Bare", "Link", "Fork"}]
MCVersions == [t \in MCType |-> CASE t \in VersionNames -> VersionNames
                                  [] t \in {"Pick", "Pick0"} -> {"Pick", "Pick0"}
                                  [] OTHER -> {t}]

Tree(t, i, c) == [type |-> t, alt |-> i, child |-> c]
One == Tree("Leaf", 1, << >>)
Big == Tree("Leaf", 255, << >>)
None == Tree("Empty", 0, << >>)
Pairs == {Tree("Pair", 0, <<a, One, c>>) : a \in {Absent, Big}, c \in {Absent, None}}
P1 == Tree("Pair", 0, <<Absent, One, None>>)
P2 == Tree("Pair", 0, <<Big, One, Absent>>)
ListsOf(t, S) == {Tree(t, 0, << >>)} \cup {Tree(t, 0, <<e>>) : e \in S}
                    \cup {Tree(t, 0, <<d, e>>) : d, e \in S}
Lists == ListsOf("List", {P1, P2})
Single == Tree("List", 0, <<P2>>)
V0s == {Tree("V0", 0, <<a, p>>) : a \in {Absent, One}, p \in Pairs}
V1s == {Tree("V1", 0, <<a, P1, l>>) : a \in {Absent, One}, l \in Lists \cup {Absent}}
Bags == {Tree("Bag", 0, <<One, p, x, v>>) : p \in {P1, Absent}, x \in {Absent, Big}, v \in V1s}
FewBags == {b \in Bags : b.child[4] = Tree("V1", 0, <<One, P1, Absent>>)}
V2s == {Tree("V2", 0, <<a, P2, l, b>>) : a \in {Absent, One}, l \in {Absent, Single},
            b \in FewBags \cup {Absent}}
V3s == {Tree("V3", 0, v.child \o <<One>>) : v \in V2s}
FewV2 == {Tree("V2", 0, <<One, P2, l, Absent>>) : l \in {Absent, Single}}
Pick0s == {Tree("Pick0", 1, <<Big>>)} \cup {Tree("Pick0", 2, <<p>>) : p \in Pairs}
Picks == {Tree("Pick", 1, <<Big>>), Tree("Pick", 2, <<P1>>), Tree("Pick", 3, <<Single>>)}
            \cup {Tree("Pick", 4, <<v>>) : v \in FewV2}
Items == ListsOf("Items", Picks)
Wides == {Tree("Wide", 0, <<One>> \o [i \in 1..9 |-> IF i \in s THEN Big ELSE Absent]) :
            s \in {{}, {1}, {8}, {9}, {1, 9}, 1..9}}
Manys == {Tree("Many", 0, [i \in 1..8 |-> IF i \in s THEN Big ELSE Absent] \o <<x>>) :
            s \in {{}, {1}, {7}, {8}, {1, 8}, 1..8}, x \in {P1, Absent}}
Holders == {Tree("Holder", 0, <<p, v, l, x>>) : p \in Picks \cup {Absent}, v \in FewV2,
              l \in ListsOf("Items", {Tree("Pick", 4, <<w>>) : w \in FewV2}), x \in {P1, Absent}}
Nestings == {Tree("Nest", 0, <<One, v, p>>) : v \in V1s \cup {Absent}, p \in Picks \cup {Absent}}
Sacks == {Tree("Sack", 0, <<p, One>>) : p \in Picks}
Bares == {Tree("Bare", 0, <<x>>) : x \in {Absent, One}}

MCNode == {One, Big, None} \cup Pairs \cup Lists \cup V0s \cup V1s \cup V2s \cup V3s \cup FewV2
            \cup Bags \cup Pick0s \cup Picks \cup Items \cup Wides \cup Manys \cup Holders \cup Nestings
            \cup Sacks \cup Bares
MCTypeOf == [n \in MCNode |-> n.type]
MCChild == [n \in MCNode |-> n.child]
MCAlt == [n \in MCNode |-> n.alt]
MCTag == 0..9 \cup {62}

\* Links in the addition of links, up to one more than the limit, and one with its
\* addition cut short
Wrapped(s) == <<128, 2, 6, 64, Len(s)>> \o s
Linked(n) == LET link[k \in 0..n] == IF k = 0 THEN <<0>> ELSE Wrapped(link[k - 1]) IN link[n]
MCInputs == UNION {[1..n -> Alphabet] : n \in 0..MaxOctets} \cup {Linked(n) : n \in 1..(MaxDepth + 1)}
                \cup {SubSeq(Wrapped(Wrapped(<<64, 1>>)), 1, 11)}
====
