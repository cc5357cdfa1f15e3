----------------------------- MODULE MCBerCodec ------------------------------
(***************************************************************************)
(* A schema with every kind of type in the places where the encoder and    *)
(* the decoder have to agree.                                              *)
(***************************************************************************)
EXTENDS BerCodec

T(kind, tag, elem, fields, alts) ==
    [kind |-> kind, tag |-> tag, elem |-> elem, fields |-> fields, alts |-> alts]
F(type, mode, tag) == [type |-> type, mode |-> mode, tag |-> tag]
A(type, tree) == [type |-> type, tree |-> tree]
Leaf(kind, tag) == T(kind, tag, NoType, << >>, << >>)
Record(kind, tag, fields) == T(kind, tag, NoType, fields, << >>)

MCEOC == 0
MCTags == {MCEOC, BOOL, INTEGER, BIT_STRING, OCTET_STRING, SEQUENCE, SET}
            \cup {Context(n) : n \in 0..2} \cup {Application(1)}

MCTypes == {"bool", "int", "flags", "text", "open", "tagged", "node", "list", "group",
            "bag", "choice", "inner", "wrapped", "lax", "loose", "filed", "pair"}

\* node is recursive; the components of group are declared in another order
\* than their tags have; choice holds a CHOICE
MCSchema ==
    LET types == MCTypes IN
    [t \in types |->
       CASE t = "bool" -> Leaf("primitive", BOOL)
         [] t = "int" -> Leaf("primitive", INTEGER)
         [] t = "flags" -> Leaf("bits", BIT_STRING)
         [] t = "text" -> Leaf("string", Context(1))
         [] t = "open" -> Leaf("any", MCEOC)
         [] t = "tagged" -> Leaf("any", Context(2))
         [] t = "node" -> Record("sequence", Application(1),
                                 << F("list", "optional", SEQUENCE),
                                    F("wrapped", "optionalExplicit", Context(0)),
                                    F("choice", "optional", MCEOC) >>)
         [] t = "list" -> T("sequenceOf", SEQUENCE, "node", << >>, << >>)
         [] t = "group" -> Record("set", SET,
                                  << F("wrapped", "required", Context(0)), F("int", "optional", INTEGER),
                                     F("filed", "required", SEQUENCE), F("bool", "optional", BOOL) >>)
         [] t = "bag" -> T("setOf", Context(0), "choice", << >>, << >>)
         [] t = "choice" -> T("choice", MCEOC, NoType, << >>,
                              << A("bool", {BOOL}), A("inner", {INTEGER, Context(1)}),
                                 A("flags", {BIT_STRING}) >>)
         [] t = "inner" -> T("choice", MCEOC, NoType, << >>,
                             << A("int", {INTEGER}), A("text", {Context(1)}) >>)
         [] t = "wrapped" -> T("explicit", Context(0), "choice", << >>, << >>)
         [] t = "lax" -> Record("sequence", SEQUENCE,
                                << F("wrapped", "optionalExplicit", Context(0)),
                                   F("bool", "default", BOOL), F("tagged", "optional", Context(2)),
                                   F("open", "required", MCEOC) >>)
         [] t = "loose" -> Record("set", SET, << F("int", "optional", INTEGER),
                                                 F("open", "required", MCEOC) >>)
         [] t = "filed" -> Record("sequence", SEQUENCE, << F("bag", "default", Context(0)) >>)
         [] t = "pair" -> Record("set", SET, << F("text", "required", Context(1)),
                                               F("bool", "required", BOOL) >>)]

MCPlain == LET types == MCTypes IN [t \in types |-> 1]

Token(tag, constructed, len) ==
    [kind |-> "tlv", tag |-> tag, constructed |-> constructed, len |-> len]

\* A primitive value, and a constructed one with a definite length
MCAnyTokens == { << Token(INTEGER, FALSE, 0) >>,
                 << Token(SEQUENCE, TRUE, 1), Token(INTEGER, FALSE, 0) >> }
=============================================================================
