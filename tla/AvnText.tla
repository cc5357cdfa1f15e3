------------------------------- MODULE AvnText -------------------------------
(***************************************************************************)
(* The text of ASN.1 Value Notation: how an AvnValue is displayed          *)
(* (src/src/avn/value.rs) and how `Decoder::new` parses it again           *)
(* (src/src/avn/de.rs).                                                    *)
(*                                                                         *)
(* The text is a sequence of tokens: punctuation, an identifier, a number  *)
(* or a quoted string (character or hex strings; their characters are not  *)
(* modelled).  White space is dropped, as the parser does.                 *)
(***************************************************************************)
EXTENDS Integers, Sequences, FiniteSetsExt

CONSTANT MaxDepth   \* the limit in parse_value_depth, 64

\* An AvnValue.  `v` is the text of a simple value, the identifier of a CHOICE;
\* `f` the fields of a SEQUENCE, the items of a SEQUENCE OF (each a field with
\* no name) or the value of a CHOICE.  `has` is FALSE for an absent field.
Val(k, v, f) == [kind |-> k, v |-> v, f |-> f]
Field(name, has, value) == [name |-> name, has |-> has, value |-> value]
Item(value) == Field("", TRUE, value)
Simple(k, v) == Val(k, v, << >>)
Nothing == Simple("nothing", "")

Id(v) == [t |-> "id", v |-> v]
Num(v) == [t |-> "num", v |-> v]
Str(v) == [t |-> "str", v |-> v]
Punct(c) == [t |-> c, v |-> ""]

-----------------------------------------------------------------------------

RECURSIVE Show(_), ShowFields(_)

\* Mutant of ShowFields: fields and items are not separated
ShowFieldsUnseparated(fs) ==
    IF fs = << >> THEN << >>
    ELSE (IF Head(fs).name = "" THEN << >> ELSE <<Id(Head(fs).name)>>)
            \o Show(Head(fs).value) \o ShowFields(Tail(fs))

\* A list of fields or items, with a comma before each but the first
ShowFields(fs) ==
    IF fs = << >> THEN << >>
    ELSE LET f == Head(fs)
             rest == Tail(fs)
         IN  (IF f.name = "" THEN << >> ELSE <<Id(f.name)>>) \o Show(f.value)
                \o (IF rest = << >> THEN << >> ELSE <<Punct(",")>>) \o ShowFields(rest)

\* AvnFmt::fmt.  Absent fields are left out.
Show(val) ==
    CASE val.kind \in {"bool", "null", "enum"} -> <<Id(val.v)>>
      [] val.kind = "int" -> <<Num(val.v)>>
      [] val.kind = "string" -> <<Str(val.v)>>
      [] val.kind = "oid" -> <<Punct("{")>> \o [i \in 1..Len(val.f) |-> Num(val.f[i].value.v)]
                                \o <<Punct("}")>>
      [] val.kind \in {"sequence", "sequenceOf"} ->
            <<Punct("{")>> \o ShowFields(SelectSeq(val.f, LAMBDA f : f.has)) \o <<Punct("}")>>
      [] val.kind = "choice" -> <<Id(val.v), Punct(":")>> \o Show(val.f[1].value)

-----------------------------------------------------------------------------

\* The result of a parser: the position after what it read, and the value
Got(p, value) == [ok |-> TRUE, deep |-> FALSE, pos |-> p, value |-> value]
Error == [ok |-> FALSE, deep |-> FALSE, pos |-> 0, value |-> Nothing]
TooLarge == [ok |-> FALSE, deep |-> TRUE, pos |-> 0, value |-> Nothing]

Is(s, p, t) == p <= Len(s) /\ s[p].t = t

\* parse_identifier_or_choice, an identifier with no colon after it
Keyword(id) == CASE id \in {"TRUE", "FALSE"} -> Simple("bool", id)
                 [] id = "NULL" -> Simple("null", id)
                 [] OTHER -> Simple("enum", id)

\* parse_brace, an identifier that is an item: always taken for an enumerated
BareIdentifier(id) == Simple("enum", id)

\* The end of parse_brace: all items named or none
Braced(items) ==
    LET named == {i \in 1..Len(items) : items[i].name # ""}
    IN  CASE named = {} -> Val("sequenceOf", "", items)
          [] named = 1..Len(items) -> Val("sequence", "", items)
          [] OTHER -> Nothing

\* Mutants: no limit, and a limit that refuses the last level
ExceedsNever(d) == FALSE
ExceedsEarly(d) == d >= MaxDepth

\* parse_value_depth fails before it looks at the input
Exceeds(d) == d > MaxDepth

RECURSIVE ParseValue(_, _, _), ParseItems(_, _, _, _)

\* parse_value_depth with parse_identifier_or_choice; parse_brace up to the
\* first item
ParseValue(s, p, d) ==
    CASE Exceeds(d) -> TooLarge
      [] ~Exceeds(d) /\ Is(s, p, "str") -> Got(p + 1, Simple("string", s[p].v))
      [] ~Exceeds(d) /\ Is(s, p, "num") -> Got(p + 1, Simple("int", s[p].v))
      [] ~Exceeds(d) /\ Is(s, p, "{") ->
            IF Is(s, p + 1, "}") THEN Got(p + 2, Val("sequenceOf", "", << >>))
            ELSE ParseItems(s, p + 1, d + 1, << >>)
      [] ~Exceeds(d) /\ Is(s, p, "id") ->
            IF Is(s, p + 1, ":")
            THEN LET inner == ParseValue(s, p + 2, d + 1)
                 IN  IF inner.ok THEN Got(inner.pos, Val("choice", s[p].v, <<Item(inner.value)>>))
                     ELSE inner
            ELSE Got(p + 1, Keyword(s[p].v))
      [] OTHER -> Error

\* The loop of parse_brace, from an item on
ParseItems(s, p, d, items) ==
    LET id == Is(s, p, "id")
        choice == id /\ Is(s, p + 1, ":")
        bare == id /\ (Is(s, p + 1, ",") \/ Is(s, p + 1, "}"))
        named == id /\ ~choice /\ ~bare
        r == IF bare THEN Got(p + 1, BareIdentifier(s[p].v))
             ELSE ParseValue(s, CASE choice -> p + 2 [] named -> p + 1 [] OTHER -> p, d)
        value == IF choice THEN Val("choice", s[p].v, <<Item(r.value)>>) ELSE r.value
        all == Append(items, Field(IF named THEN s[p].v ELSE "", TRUE, value))
    IN  CASE ~r.ok -> r
          [] r.ok /\ Is(s, r.pos, "}") ->
                IF Braced(all) = Nothing THEN Error ELSE Got(r.pos + 1, Braced(all))
          [] r.ok /\ Is(s, r.pos, ",") -> ParseItems(s, r.pos + 1, d, all)
          \* the arcs of an OBJECT IDENTIFIER have no commas
          [] /\ r.ok /\ Is(s, r.pos, "num")
             /\ \A i \in 1..Len(all) : all[i].name = "" /\ all[i].value.kind = "int" ->
                ParseItems(s, r.pos, d, all)
          [] OTHER -> Error

\* Decoder::new: nothing may follow the value
Parse(s) == LET r == ParseValue(s, 1, 0)
            IN  IF r.ok /\ r.pos <= Len(s) THEN Error ELSE r

-----------------------------------------------------------------------------
\* What a parser can know of a value: absent fields are gone, no fields look
\* like no items, and an OBJECT IDENTIFIER like a list of numbers.
RECURSIVE Canonical(_)
Canonical(val) ==
    LET present == SelectSeq(val.f, LAMBDA f : f.has)
        fields == [i \in 1..Len(present) |-> [present[i] EXCEPT !.value = Canonical(@)]]
    IN  Val(IF val.kind = "oid" \/ (val.kind = "sequence" /\ present = << >>)
             THEN "sequenceOf" ELSE val.kind, val.v, fields)

\* How deep braces and CHOICEs nest, and braces alone
RECURSIVE Height(_), Braces(_)
Deepest(S) == IF S = {} THEN 0 ELSE Max(S)
Below(val) == {val.f[i].value : i \in {j \in 1..Len(val.f) : val.f[j].has}}
Height(val) == IF val.f = << >> THEN 0 ELSE 1 + Deepest({Height(c) : c \in Below(val)})
Braces(val) == (IF val.kind \in {"sequence", "sequenceOf", "oid"} THEN 1 ELSE 0)
                    + Deepest({Braces(c) : c \in Below(val)})
====
