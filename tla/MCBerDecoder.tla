---------------------------- MODULE MCBerDecoder -----------------------------
(***************************************************************************)
(* Small schemas and all short inputs over the tokens they use.            *)
(***************************************************************************)
EXTENDS BerGrammar

CONSTANTS Bool, Num, Seqn, Ctx, \* tags
          MaxTokens,            \* bound: the length of an input
          Alphabet              \* the tokens of an input

T(kind, tag, elem, fields, alts) ==
    [kind |-> kind, tag |-> tag, elem |-> elem, fields |-> fields, alts |-> alts]
F(type, mode, tag) == [type |-> type, mode |-> mode, tag |-> tag]
A(type, tree) == [type |-> type, tree |-> tree]

MCTags == {Bool, Num, Seqn, Ctx, EOC}
MCTypes == {"bool", "int", "list", "bag", "pair", "node", "group", "choice",
            "strict", "wrapped", "lax", "picky", "defaulted", "text", "flags", "open",
            "mixed", "holder"}

\* node and strict are recursive, node through a SEQUENCE OF, strict through
\* an explicit tag
MCSchema ==
    [t \in MCTypes |->
       CASE t = "bool" -> T("primitive", Bool, NoType, << >>, << >>)
         [] t = "int" -> T("primitive", Num, NoType, << >>, << >>)
         [] t = "node" -> T("sequence", Ctx, NoType,
                            << F("bool", "optional", Bool), F("list", "optional", Seqn) >>, << >>)
         [] t = "list" -> T("sequenceOf", Seqn, "node", << >>, << >>)
         [] t = "group" -> T("set", Seqn, NoType,
                             << F("bool", "required", Bool), F("int", "optional", Num),
                                F("bag", "optional", Ctx) >>, << >>)
         [] t = "bag" -> T("setOf", Ctx, "choice", << >>, << >>)
         [] t = "choice" -> T("choice", EOC, NoType, << >>, << A("bool", {Bool}), A("pair", {Seqn}) >>)
         [] t = "pair" -> T("sequence", Seqn, NoType,
                            << F("bool", "required", Bool), F("bag", "default", Ctx) >>, << >>)
         [] t = "strict" -> T("sequence", Seqn, NoType,
                              << F("bool", "required", Bool), F("wrapped", "optional", Ctx),
                                 F("int", "default", Num) >>, << >>)
         [] t = "wrapped" -> T("explicit", Ctx, "strict", << >>, << >>)
         [] t = "lax" -> T("sequence", Seqn, NoType,
                           << F("wrapped", "optionalExplicit", Ctx), F("int", "required", Num) >>, << >>)
         [] t = "picky" -> T("sequence", Seqn, NoType,
                             << F("choice", "optional", EOC), F("int", "required", Num) >>, << >>)
         [] t = "defaulted" -> T("set", Seqn, NoType,
                                 << F("bool", "default", Bool), F("int", "required", Num) >>, << >>)
         [] t = "text" -> T("string", Ctx, NoType, << >>, << >>)
         [] t = "flags" -> T("bits", Bool, NoType, << >>, << >>)
         [] t = "open" -> T("any", EOC, NoType, << >>, << >>)
         [] t = "mixed" -> T("sequence", Seqn, NoType,
                             << F("flags", "optional", Bool), F("text", "default", Ctx) >>, << >>)
         [] t = "holder" -> T("sequence", Seqn, NoType, << F("open", "optional", EOC) >>, << >>)]

TLV(tag, constructed, len, ok) ==
    [kind |-> "tlv", tag |-> tag, constructed |-> constructed, len |-> len, ok |-> ok]
Eoc == [kind |-> "eoc", tag |-> EOC, constructed |-> FALSE, len |-> 0, ok |-> TRUE]

\* A valid and an invalid BOOLEAN, one cut short, an INTEGER; constructed
\* values of every length that fits, the indefinite one too; one that lacks
\* the constructed bit; the end of contents
AllTokens ==
    { TLV(Bool, FALSE, 0, TRUE), TLV(Bool, FALSE, 0, FALSE), TLV(Bool, FALSE, 1, TRUE),
      TLV(Num, FALSE, 0, TRUE), TLV(Seqn, FALSE, 0, TRUE), Eoc }
    \cup { TLV(tag, TRUE, len, TRUE) : tag \in {Seqn, Ctx}, len \in -1..(MaxTokens - 1) }

\* All sequences up to the bound whose first token opens a constructed value;
\* the longest ones only if that value extends to the end of the input and
\* those inside it do not obviously leave it
ShortInputs ==
    { s \in UNION {[1..n -> Alphabet] : n \in 1..MaxTokens} :
        /\ s[1].constructed
        /\ Len(s) = MaxTokens => /\ s[1].len \in {Indefinite, MaxTokens - 1}
                                 /\ \A i \in 2..MaxTokens : s[i].len < MaxTokens - 1 }

\* Nodes in lists in nodes: one level too many from five tokens on, with lengths
\* and without
Chain(n, len(_)) == [i \in 1..n |-> TLV(IF i % 2 = 1 THEN Ctx ELSE Seqn, TRUE, len(i), TRUE)]
Chains == {Chain(n, LAMBDA i : n - i) : n \in 5..7}
            \cup {Chain(n, LAMBDA i : Indefinite) \o [i \in 1..n |-> Eoc] : n \in 5..7}

\* A group with a bag of pairs that hold bags; the innermost one is a pair too
\* deep, with others behind it
Yes == TLV(Bool, FALSE, 0, TRUE)
Open(tag, len) == TLV(tag, TRUE, len, TRUE)
DeepGroups == { << Open(Seqn, n), Yes, Open(Ctx, n - 2), Open(Seqn, n - 3), Yes, Open(Ctx, n - 5),
                   Open(Seqn, 1), Yes >> \o [i \in 1..(n - 7) |-> Yes] : n \in 7..8 }

MCInputs == ShortInputs \cup Chains \cup DeepGroups
=============================================================================
