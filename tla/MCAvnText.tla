------------------------------ MODULE MCAvnText ------------------------------
(***************************************************************************)
(* Values: every SEQUENCE, SEQUENCE OF and CHOICE two levels deep over     *)
(* simple values of each kind.  Texts: all token sequences up to MaxText   *)
(* tokens, and short ones inside more braces than the limit allows.        *)
(***************************************************************************)
EXTENDS AvnText

CONSTANTS
    MaxText,        \* the longest text
    Values,         \* the values that are displayed and read back
    Texts           \* the texts that are read as they are

VARIABLES
    source,         \* the value displayed, or Nothing
    text,           \* the tokens
    result,         \* what Decoder::new makes of them
    pc              \* "show", "parse", "done"

vars == <<source, text, result, pc>>

Scalars == {Simple("int", "1"), Simple("string", "s"), Simple("enum", "a"),
            Val("oid", "", <<Item(Simple("int", "1")), Item(Simple("int", "2"))>>)}
Keywords == {Simple("bool", "TRUE"), Simple("null", "NULL")}

Records(S) == {Val("sequence", "", <<Field("a", h, x), Field("b", k, y)>>) :
                    h, k \in BOOLEAN, x, y \in S}
Lists(S) == {Val("sequenceOf", "", << >>)} \cup {Val("sequenceOf", "", <<Item(x)>>) : x \in S}
                \cup {Val("sequenceOf", "", <<Item(x), Item(y)>>) : x, y \in S}
Picks(S) == {Val("choice", "c", <<Item(x)>>) : x \in S}

One(S, items) == Records(S) \cup Lists(items) \cup Picks(S)

\* No BOOLEAN or NULL is an item of a list
Inner == One({Simple("int", "1"), Simple("bool", "TRUE"), Simple("enum", "a")},
             {Simple("int", "1"), Simple("enum", "a")})
MCValues == One(Scalars \cup Keywords, Scalars) \cup One(Inner, Inner) \cup Picks(Picks(Inner))
MCItems == Lists(Scalars \cup Keywords)

Tokens == {Punct("{"), Punct("}"), Punct(","), Punct(":"), Id("a"), Id("TRUE"), Num("1")}
Short(n) == UNION {[1..k -> Tokens] : k \in 0..n}
Nested(k, t) == [i \in 1..k |-> Punct("{")] \o t \o [i \in 1..k |-> Punct("}")]
MCTexts == (Short(MaxText) \ {<< >>}) \cup {Nested(k, t) : k \in 1..(MaxDepth + 2), t \in Short(2)}

-----------------------------------------------------------------------------

Init == /\ \/ source \in Values /\ text = << >> /\ pc = "show"
           \/ source = Nothing /\ text \in Texts /\ pc = "parse"
        /\ result = Error

\* Encoder::to_string
ShowValue == /\ pc = "show"
             /\ text' = Show(source)
             /\ pc' = "parse"
             /\ UNCHANGED <<source, result>>

\* Decoder::new
ParseText == /\ pc = "parse"
             /\ result' = Parse(text)
             /\ pc' = "done"
             /\ UNCHANGED <<source, text>>

Next == ShowValue \/ ParseText
Spec == Init /\ [][Next]_vars

\* A value that nests no deeper than the limit is read back as it was written,
\* whatever mixture of fields, items, choices and keywords its text is.
ReadsBack ==
    pc = "done" /\ source # Nothing /\ Height(source) <= MaxDepth
        => result.ok /\ result.value = Canonical(source)

\* Whatever text is accepted, the value it gave is displayed as a text that
\* gives the same value ("if valid that the encoder can correctly re-encode
\* that value", src/README.md).  The parser recurses no deeper than its limit: an
\* accepted text has no more than MaxDepth + 1 braces inside each other.
ReencodesAccepted ==
    pc = "done" /\ result.ok =>
        /\ Parse(Show(result.value)).value = result.value
        /\ Braces(result.value) <= MaxDepth + 1
====
