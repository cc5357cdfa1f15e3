----------------------------- MODULE TextDecoder -----------------------------
(***************************************************************************)
(* The decoders of the text rules, JER (src/src/jer/de.rs) and AVN         *)
(* (src/src/avn/de.rs), driven by the calls that #[derive(Decode)] makes   *)
(* for a type, from the parsed document on.                                *)
(*                                                                         *)
(* The decoder is one stack of optional values, shared by all nested       *)
(* calls: a SEQUENCE pushes what it found for each of its fields, Absent   *)
(* if nothing, and each field pops one.                                    *)
(***************************************************************************)
EXTENDS Integers, Sequences

CONSTANTS
    Type, Kind,     \* names of types and Kind[t], as in TextEncoder
    Names,          \* Names[t]: fields of a SEQUENCE or SET, IDENTIFIERS of a CHOICE
    Variants,       \* Variants[t]: a tag tree for each alternative of a CHOICE
    Parts,          \* Parts[t]: types of the fields, of the alternatives, of the items
    Optional,       \* Optional[t]: the fields that are OPTIONAL or have a DEFAULT
    SetOrder,       \* SetOrder[t]: the fields of a SET by their smallest tag
    SameName(_, _), \* eq_ignore_ascii_case
    Parsed(_),      \* the primitive value a text stands for
    EOC, Absent

VARIABLES
    codec,          \* which of the two decoders runs
    stack,          \* Decoder::stack
    calls,          \* the calls under way, the outermost first
    goal,           \* the type whose `decode` is called next, or Absent
    value,          \* the value decoded last
    status          \* "idle", "run", "ok" or the error

vars == <<codec, stack, calls, goal, value, status>>

Constructed == {"sequence", "set"}

\* A decoded value: its type, its primitive value or alternative, its components.
\* A document is a node as in AvnText.
Decoded(t, i, c) == [type |-> t, alt |-> i, child |-> c]

Front(s) == SubSeq(s, 1, Len(s) - 1)
Top(s) == s[Len(s)]
C == Top(calls)

\* A call: what it decodes, the alternative of a CHOICE, what it decoded so far,
\* and the document it still takes things from (a SET, a list)
CallOf(t, i, d) == [type |-> t, alt |-> i, got |-> << >>, doc |-> d]

Fail(e) == status' = e /\ UNCHANGED <<codec, stack, calls, goal, value>>

\* decode_jer_value!, decode_avn_value!: pop a value that is there
NoValue == stack = << >> \/ Top(stack) = Absent

\* The map of a SEQUENCE or SET.  In AVN no fields look like no items.
IsMap(d) == IF codec = "jer" THEN d.kind = "object"
            ELSE d.kind = "sequence" \/ (d.kind = "sequenceOf" /\ d.f = << >>)
IsList(d) == IF codec = "jer" THEN d.kind = "array"
             ELSE d.kind = "sequenceOf" \/ (d.kind = "sequence" /\ d.f = << >>)
IsChoice(d) == d.kind = IF codec = "jer" THEN "object" ELSE "choice"

\* value_map.remove(name); the last of several entries of one name counts
Lookup(d, name) ==
    LET at == {i \in 1..Len(d.f) : d.f[i].name = name}
    IN  IF at = {} THEN Absent
        ELSE d.f[CHOOSE i \in at : \A j \in at : j <= i].value

Flatten(trees) ==
    LET f[i \in 0..Len(trees)] == IF i = 0 THEN << >> ELSE f[i - 1] \o trees[i].leaves
    IN  f[Len(trees)]
Least(S) == CHOOSE i \in S : \A j \in S : i <= j

\* choice_from_value.  JER matches the key with all IDENTIFIERS and looks the tag
\* up after that; AVN looks only at identifiers that have a tag.  An identifier
\* without one gives Tag::EOC and no value on the stack.
ChoiceTag(t, id) ==
    LET tags == Flatten(Variants[t])
        at == {i \in 1..Len(Names[t]) : /\ SameName(Names[t][i], id)
                                        /\ codec = "avn" => i <= Len(tags)}
    IN  IF at = {} THEN EOC ELSE IF Least(at) <= Len(tags) THEN tags[Least(at)] ELSE EOC

\* from_tag: the first alternative whose tag tree has the tag
Alternatives(t, tag) ==
    {i \in 1..Len(Variants[t]) : \E k \in 1..Len(Variants[t][i].leaves) :
                                        Variants[t][i].leaves[k] = tag}

-----------------------------------------------------------------------------

Decoding(kinds) == status = "run" /\ goal # Absent /\ Kind[goal] \in kinds
Resuming(kinds) == status = "run" /\ goal = Absent /\ calls # << >> /\ Kind[C.type] \in kinds

\* A call returns v: its caller takes it as its next component
Returns(v, cs) ==
    /\ goal' = Absent
    /\ value' = v
    /\ IF cs = << >>
       THEN calls' = cs /\ status' = "ok"
       ELSE calls' = [cs EXCEPT ![Len(cs)].got = Append(@, v)] /\ UNCHANGED status

\* decode_bool, decode_integer, the strings...
DecodePrimitive ==
    /\ Decoding({"primitive"})
    /\ IF NoValue THEN Fail("eoi")
       ELSE IF Top(stack).kind # "int" THEN Fail("type")
       ELSE /\ stack' = Front(stack)
            /\ Returns(Decoded(goal, Parsed(Top(stack).v), << >>), calls)
            /\ UNCHANGED codec

\* Mutant of FieldValues: the fields are pushed in the order of the declaration
FieldValuesForward(t, d) == [i \in 1..Len(Names[t]) |-> Lookup(d, Names[t][i])]

\* decode_sequence pushes the values of its fields in reverse
FieldValues(t, d) == [i \in 1..Len(Names[t]) |-> Lookup(d, Names[t][Len(Names[t]) + 1 - i])]

DecodeSequence ==
    /\ Decoding({"sequence"})
    /\ IF NoValue THEN Fail("eoi")
       ELSE IF ~IsMap(Top(stack)) THEN Fail("type")
       ELSE /\ stack' = Front(stack) \o FieldValues(goal, Top(stack))
            /\ calls' = Append(calls, CallOf(goal, 0, Absent))
            /\ goal' = Absent
            /\ UNCHANGED <<codec, value, status>>

\* The next field: D::decode, or decode_optional, which takes an absent value off
\* the stack and leaves one that is there
DecodeField ==
    /\ Resuming({"sequence"}) /\ Len(C.got) < Len(Names[C.type])
    /\ LET i == Len(C.got) + 1
       IN  IF i \in Optional[C.type] /\ stack = << >> THEN Fail("eoi")
           ELSE IF i \in Optional[C.type] /\ Top(stack) = Absent
           THEN /\ stack' = Front(stack)
                /\ calls' = [calls EXCEPT ![Len(calls)].got = Append(@, Absent)]
                /\ UNCHANGED <<codec, goal, value, status>>
           ELSE /\ goal' = Parts[C.type][i]
                /\ UNCHANGED <<codec, stack, calls, value, status>>

\* decode_set keeps the map
DecodeSet ==
    /\ Decoding({"set"})
    /\ IF NoValue THEN Fail("eoi")
       ELSE IF ~IsMap(Top(stack)) THEN Fail("type")
       ELSE /\ stack' = Front(stack)
            /\ calls' = Append(calls, CallOf(goal, 0, Top(stack)))
            /\ goal' = Absent
            /\ UNCHANGED <<codec, value, status>>

\* One turn of its loop: push what the map has for the field, and decode the
\* type of the field, not an Option of it
DecodeSetField ==
    /\ Resuming({"set"}) /\ Len(C.got) < Len(Names[C.type])
    /\ LET i == SetOrder[C.type][Len(C.got) + 1]
       IN  /\ stack' = Append(stack, Lookup(C.doc, Names[C.type][i]))
           /\ goal' = Parts[C.type][i]
    /\ UNCHANGED <<codec, calls, value, status>>

\* sequence_of_from_value, set_of_from_value
DecodeList ==
    /\ Decoding({"list"})
    /\ IF NoValue THEN Fail("eoi")
       ELSE IF ~IsList(Top(stack)) THEN Fail("type")
       ELSE /\ stack' = Front(stack)
            /\ calls' = Append(calls, CallOf(goal, 0, Top(stack)))
            /\ goal' = Absent
            /\ UNCHANGED <<codec, value, status>>

DecodeItem ==
    /\ Resuming({"list"}) /\ Len(C.got) < Len(C.doc.f)
    /\ stack' = Append(stack, C.doc.f[Len(C.got) + 1].value)
    /\ goal' = Parts[C.type][1]
    /\ UNCHANGED <<codec, calls, value, status>>

\* decode_choice, choice_from_value, from_tag
DecodeChoice ==
    /\ Decoding({"choice"})
    /\ IF NoValue THEN Fail("eoi")
       ELSE IF ~IsChoice(Top(stack)) THEN Fail("type")
       ELSE IF Top(stack).f = << >> THEN Fail("choice")
       ELSE LET d == Top(stack)
                tag == ChoiceTag(goal, IF codec = "jer" THEN d.f[1].name ELSE d.v)
                alts == Alternatives(goal, tag)
            IN  IF alts = {} THEN Fail("choice")
                ELSE /\ stack' = Append(Front(stack), d.f[1].value)
                     /\ calls' = Append(calls, CallOf(goal, Least(alts), Absent))
                     /\ goal' = Parts[goal][Least(alts)]
                     /\ UNCHANGED <<codec, value, status>>

\* The components are complete
InOrder(t, got) == IF Kind[t] = "set"
                   THEN [i \in 1..Len(got) |-> got[CHOOSE k \in 1..Len(got) : SetOrder[t][k] = i]]
                   ELSE got
Complete == CASE Kind[C.type] \in Constructed -> Len(C.got) = Len(Names[C.type])
              [] Kind[C.type] = "list" -> Len(C.got) = Len(C.doc.f)
              [] OTHER -> Len(C.got) = 1
Close ==
    /\ Resuming({"sequence", "set", "list", "choice"}) /\ Complete
    /\ Returns(Decoded(C.type, C.alt, InOrder(C.type, C.got)), Front(calls))
    /\ UNCHANGED <<codec, stack>>

Step == \/ DecodePrimitive \/ DecodeSequence \/ DecodeField \/ DecodeSet \/ DecodeSetField
        \/ DecodeList \/ DecodeItem \/ DecodeChoice \/ Close
====
