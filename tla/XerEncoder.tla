----------------------------- MODULE XerEncoder ------------------------------
(***************************************************************************)
(* The XER encoder (src/src/xer/enc.rs), driven by the calls that          *)
(* #[derive(Encode)] makes for a value.                                    *)
(*                                                                         *)
(* The name of an element comes from one of two places.  A SEQUENCE pushes *)
(* the names of all its fields on `names`, and the next value that opens   *)
(* an element takes the name on top; a value that finds the stack empty,   *)
(* and an item of a list, uses the identifier it was called with.  The     *)
(* flag `item` says that the next value is an item.  A CHOICE that has to  *)
(* take a foreign name is written by an encoder of its own, and what that  *)
(* wrote is copied without its outer tags.                                 *)
(*                                                                         *)
(* The XML writer (xml_no_std) is external: what was written is a sequence *)
(* of start tags, end tags and texts.  An empty text leaves no trace.      *)
(***************************************************************************)
EXTENDS Integers, Sequences, SequencesExt, FiniteSets

CONSTANTS
    Type, Kind,     \* names of types and Kind[t]
    Ident,          \* Ident[t]: AsnType::IDENTIFIER
    Names,          \* Names[t]: FIELDS and then EXTENDED_FIELDS of a SEQUENCE or
                    \* SET, IDENTIFIERS of a CHOICE
    Optional,       \* Optional[t]: fields that are OPTIONAL, DEFAULT or additions
    Tagged,         \* Tagged[t]: the components of t have tags of their own,
                    \* as with automatic_tags
    Node,           \* values: [type, alt, child]
    Roots,          \* the values an encoding may start with
    Shown(_),       \* the text of a primitive value
    Absent          \* no value

Constructed == {"sequence", "set"}
Newtype == {"delegate", "explicit"}

\* text: INTEGER, OBJECT IDENTIFIER, character strings, times.  octets: OCTET
\* STRING and BIT STRING, which may be empty.  enum: BOOLEAN and ENUMERATED,
\* whose values are empty elements.  A delegate is a newtype; explicit is one
\* with an explicit tag.
Primitive == {"text", "octets", "real", "enum", "null", "any"}

ASSUME XerAssumption ==
    /\ Kind \in [Type -> Primitive \cup Constructed \cup Newtype \cup {"list", "choice"}]
    /\ \A n \in Node : n.type \in Type
    /\ Roots \subseteq Node
    /\ Absent \notin Node

VARIABLES
    root,       \* the value being encoded
    cur,        \* the call of `encode` that comes next, or Absent
    frames,     \* the calls under way, the outermost first
    encoders,   \* the encoders, the last one runs
    res         \* "run", "ok" or "missing" (MissingIdentifier)

vars == <<root, cur, frames, encoders, res>>

-----------------------------------------------------------------------------

StartTag(nm) == [k |-> "start", s |-> nm]
EndTag(nm) == [k |-> "end", s |-> nm]
Text(s) == [k |-> "text", s |-> s]

KindOf(n) == Kind[n.type]
Pop(s) == IF s = << >> THEN s ELSE Front(s)

\* What write_integer, write_octet_string, write_bool, write_real, write_any...
\* put between the tags of a primitive value, whose number is `alt`
BoolTag(k) == IF k = 0 THEN "false" ELSE "true"
Contents(n) ==
    CASE KindOf(n) = "null" \/ (KindOf(n) = "octets" /\ n.alt = 0) -> << >>
      [] KindOf(n) = "enum" -> <<StartTag(BoolTag(n.alt)), EndTag(BoolTag(n.alt))>>
      [] KindOf(n) = "real" /\ n.alt = 0 -> <<StartTag("PLUS-INFINITY"), EndTag("PLUS-INFINITY")>>
      [] KindOf(n) = "any" -> <<StartTag("any"), Text(Shown(n.alt)), EndTag("any")>>
      [] OTHER -> <<Text(Shown(n.alt))>>

\* Encoder.  `first` and `last` stand for end_index_of_first_tag and
\* start_index_of_last_tag: how much was written behind the first event, 0 if
\* there is none, and before the last one.
New == [names |-> << >>, out |-> << >>, first |-> 0, last |-> 0,
        choice |-> FALSE, item |-> FALSE]
E == Last(encoders)
SetE(e) == encoders' = [encoders EXCEPT ![Len(encoders)] = e]

\* write
Write(e, event) ==
    [e EXCEPT !.last = Len(e.out), !.out = Append(@, event),
              !.first = IF @ = 0 THEN Len(e.out) + 1 ELSE @]

\* write_start_element: one of the two flags has done its work
WriteStart(e, nm) ==
    Write([e EXCEPT !.choice = FALSE, !.item = IF e.choice THEN @ ELSE FALSE], StartTag(nm))
WriteEnd(e, nm) == Write(e, EndTag(nm))

\* What a primitive value writes between its tags: characters, or an empty
\* element for a BOOLEAN, an ENUMERATED or a REAL that is no number
WriteContents(e, events) ==
    FoldLeft(LAMBDA f, ev : IF ev.k = "start" THEN WriteStart(f, ev.s) ELSE Write(f, ev), e, events)

\* write_empty and the events of a value that is not there
WriteEmpty(e) == [e EXCEPT !.last = Len(e.out)]

\* Mutant: the end tag stays.
ErasedStart(e) == SubSeq(e.out, e.first + 1, Len(e.out))

\* erase_outer_tags
Erased(e) == SubSeq(e.out, e.first + 1, e.last)

\* Where a value takes the name of its element from: wrap_in_tags! and the
\* first lines of encode_sequence, encode_sequence_of, encode_choice...
XmlTag(e, id) == IF e.item \/ e.names = << >> THEN id ELSE Last(e.names)
Taken(e) == IF e.item THEN e ELSE [e EXCEPT !.names = Pop(@)]
Opened(e, id) == WriteStart(Taken(e), XmlTag(e, id))

\* A call for a value.  `via` says how it is made: "plain" by encode or
\* encode_with_identifier; with a tag otherwise, which is the "own" TAG of the
\* type or that of its "place".  Only CHOICE types and newtypes tell them apart.
CallOf(n, id, via) == [node |-> n, id |-> id, via |-> via]
Via == {"plain", "own", "place"}

\* A call under way: the value, the next component, the name of the element to
\* close, which encoder it uses, and whether it waits for one of its own.
FrameOf(n, tag) == [node |-> n, next |-> 1, tag |-> tag, enc |-> Len(encoders),
                    inner |-> FALSE]
F == Last(frames)

Call(kinds) == res = "run" /\ cur # Absent /\ KindOf(cur.node) \in kinds
Resume(kinds) == res = "run" /\ cur = Absent /\ frames # << >> /\ ~F.inner
                    /\ KindOf(F.node) \in kinds

-----------------------------------------------------------------------------

Init == /\ root \in Roots
        /\ cur = CallOf(root, Ident[root.type], "plain")
        /\ frames = << >>
        /\ encoders = <<New>>
        /\ res = "run"

\* encode_integer, encode_null, encode_octet_string, encode_real, the strings
\* and the times; encode_bool and encode_enumerated, which write no tags of
\* their own around an item
EncodePrimitive ==
    /\ Call(Primitive \ {"any"})
    /\ LET events == Contents(cur.node)
           tag == XmlTag(E, cur.id)
       IN  SetE(IF KindOf(cur.node) = "enum" /\ E.item THEN WriteContents(E, events)
                ELSE WriteEnd(WriteContents(Opened(E, cur.id), events), tag))
    /\ cur' = Absent
    /\ UNCHANGED <<root, frames, res>>

\* encode_any has no identifier of its own: it needs a name on the stack.
EncodeAny ==
    /\ Call({"any"})
    /\ IF E.names = << >>
       THEN res' = "missing" /\ UNCHANGED encoders
       ELSE LET tag == Last(E.names)
            IN  /\ SetE(WriteEnd(FoldLeft(Write, WriteStart([E EXCEPT !.names = Front(@)], tag),
                                          Contents(cur.node)), tag))
                /\ UNCHANGED res
    /\ cur' = Absent
    /\ UNCHANGED <<root, frames>>

\* The generated code of a newtype calls its content: encode_explicit_prefix
\* with an explicit tag, which makes it the content's own TAG, and otherwise
\* with the tag it was given, or by encode_with_identifier if that is Tag::EOC.
RECURSIVE Untagged(_)
Untagged(n) == \/ KindOf(n) = "choice"
               \/ KindOf(n) = "delegate" /\ Untagged(n.child[1])

EncodeNewtype ==
    /\ Call(Newtype)
    /\ LET n == cur.node
           via == CASE KindOf(n) = "explicit" -> "own"
                    [] cur.via = "place" -> "place"
                    [] Untagged(n) -> "plain"
                    [] OTHER -> "place"
       IN  cur' = CallOf(n.child[1], cur.id, via)
    /\ UNCHANGED <<root, frames, encoders, res>>

\* encode_sequence and encode_set, up to the call of the closure
EncodeSequence ==
    /\ Call(Constructed)
    /\ SetE([Opened(E, cur.id) EXCEPT !.names = @ \o Reverse(Names[cur.node.type])])
    /\ frames' = Append(frames, FrameOf(cur.node, XmlTag(E, cur.id)))
    /\ cur' = Absent
    /\ UNCHANGED <<root, res>>

Advance == frames' = [frames EXCEPT ![Len(frames)].next = @ + 1]
Field == F.node.child[F.next]

\* The closure encodes a field that is there.  encode_some, encode_default and
\* encode_extension_addition use the TAG of the field's type.
EncodeField ==
    /\ Resume(Constructed) /\ F.next <= Len(F.node.child) /\ Field # Absent
    /\ LET t == F.node.type
           via == CASE F.next \in Optional[t] -> "own"
                    [] Tagged[t] -> "place"
                    [] OTHER -> "plain"
       IN  cur' = CallOf(Field, IF via = "plain" THEN Ident[Field.type] ELSE Names[t][F.next], via)
    /\ Advance
    /\ UNCHANGED <<root, encoders, res>>

\* Mutant: the name of a field that is not there stays on the stack.
EncodeNoneKeeps ==
    /\ Resume(Constructed) /\ F.next <= Len(F.node.child) /\ Field = Absent
    /\ Advance
    /\ UNCHANGED <<root, cur, encoders, res>>

\* encode_none, encode_none_with_tag.  The second writes an empty element if
\* `entering_choice_value` is still set; NamesMatch has that it never is here.
EncodeNone ==
    /\ Resume(Constructed) /\ F.next <= Len(F.node.child) /\ Field = Absent
    /\ SetE([E EXCEPT !.names = Pop(@)])
    /\ Advance
    /\ UNCHANGED <<root, cur, res>>

\* encode_sequence_of and encode_set_of
EncodeList ==
    /\ Call({"list"})
    /\ SetE(Opened(E, cur.id))
    /\ frames' = Append(frames, FrameOf(cur.node, XmlTag(E, cur.id)))
    /\ cur' = Absent
    /\ UNCHANGED <<root, res>>

EncodeItem ==
    /\ Resume({"list"}) /\ F.next <= Len(F.node.child)
    /\ SetE([E EXCEPT !.item = TRUE])
    /\ cur' = CallOf(Field, Ident[Field.type], "plain")
    /\ Advance
    /\ UNCHANGED <<root, res>>

\* The variant of a CHOICE
Variant(n) == CallOf(n.child[1], Names[n.type][n.alt], IF Tagged[n.type] THEN "place" ELSE "plain")

\* encode_choice, up to the return of the closure: an item has no tags of its
\* own, nor is anything left to do behind it
EncodeChoice ==
    /\ Call({"choice"}) /\ cur.via = "plain"
    /\ IF E.item
       THEN /\ SetE([E EXCEPT !.item = FALSE])
            /\ UNCHANGED frames
       ELSE /\ SetE([Opened(E, cur.id) EXCEPT !.choice = TRUE])
            /\ frames' = Append(frames, [FrameOf(cur.node, XmlTag(E, cur.id)) EXCEPT !.next = 2])
    /\ cur' = Variant(cur.node)
    /\ UNCHANGED <<root, res>>

\* encode_explicit_prefix of a CHOICE: the new encoder writes it under its own
\* identifier
EncodePrefix ==
    /\ Call({"choice"}) /\ cur.via # "plain"
    /\ LET outer == IF E.item THEN WriteEmpty(E) ELSE WriteEmpty(Opened(E, cur.id))
           tag == IF E.item THEN Absent ELSE XmlTag(E, cur.id)
       IN  /\ encoders' = Append([encoders EXCEPT ![Len(encoders)] = outer], New)
           /\ frames' = Append(frames, [FrameOf(cur.node, tag) EXCEPT !.inner = TRUE])
    /\ cur' = CallOf(cur.node, Ident[cur.node.type], "plain")
    /\ UNCHANGED <<root, res>>

\* erase_outer_tags, append and, unless the CHOICE is an item, the end tag
ClosePrefix ==
    /\ res = "run" /\ cur = Absent /\ frames # << >> /\ F.inner
    /\ LET outer == encoders[Len(encoders) - 1]
           copied == [outer EXCEPT !.out = @ \o Erased(E)]
       IN  encoders' = [Front(encoders) EXCEPT ![Len(encoders) - 1] =
                            IF F.tag = Absent THEN copied ELSE WriteEnd(copied, F.tag)]
    /\ frames' = Front(frames)
    /\ UNCHANGED <<root, cur, res>>

Close ==
    /\ Resume(Constructed \cup {"list", "choice"}) /\ F.next > Len(F.node.child)
    /\ SetE(WriteEnd(E, F.tag))
    /\ frames' = Front(frames)
    /\ UNCHANGED <<root, cur, res>>

Finish ==
    /\ res = "run" /\ cur = Absent /\ frames = << >>
    /\ res' = "ok"
    /\ UNCHANGED <<root, cur, frames, encoders>>

Step == \/ EncodePrimitive \/ EncodeAny \/ EncodeNewtype
        \/ EncodeSequence \/ EncodeField \/ EncodeNone
        \/ EncodeList \/ EncodeItem \/ EncodeChoice \/ EncodePrefix
        \/ ClosePrefix \/ Close \/ Finish

-----------------------------------------------------------------------------

\* The marks of an encoder stay within what it wrote, and the first one behind
\* the first tag; there is one encoder for the value and one for each CHOICE
\* under way that is written apart.
TypeOK ==
    /\ root \in Roots
    /\ cur # Absent => cur.node \in Node /\ cur.via \in Via
    /\ \A i \in 1..Len(encoders) : /\ encoders[i].first \in {0, 1}
                                   /\ encoders[i].last <= Len(encoders[i].out)
                                   /\ encoders[i].names \in Seq(STRING)
    /\ Len(encoders) = 1 + Cardinality({i \in 1..Len(frames) : frames[i].inner})
    /\ res \in {"run", "ok", "missing"}

\* The names still to be taken by the fields of a call under way.  The name of
\* the field that `cur` is for waits too.
Pending(f) == LET from == IF f = F /\ cur # Absent THEN f.next - 1 ELSE f.next
              IN  Reverse(SubSeq(Names[f.node.type], from, Len(Names[f.node.type])))

\* Whoever takes the name on top of a stack takes its own: the stack of every
\* encoder holds the names of the fields still to come of the calls that use
\* that encoder, and no other, however lists, CHOICEs and absent fields nest;
\* and the offsets at which its output will be cut stay where TypeOK has them.
\* No SEQUENCE or SET finds the flag of an alternative set: an absent field
\* would be written as an empty element (enc.rs:652).
NamesMatch ==
    /\ TypeOK
    /\ Resume(Constructed) => ~E.choice
    /\ \A i \in 1..Len(encoders) :
        encoders[i].names =
            FlattenSeq([j \in 1..Len(frames) |->
                IF frames[j].enc = i /\ ~frames[j].inner /\ KindOf(frames[j].node) \in Constructed
                THEN Pending(frames[j]) ELSE << >>])

\* X.693: the element of a value.  A component is an element named after its
\* field or alternative; an item is named after its type, but has no tags if
\* it is a CHOICE, a BOOLEAN or an ENUMERATED.
RECURSIVE Element(_, _), Item(_, _)
Element(n, id) ==
    LET children == CASE KindOf(n) = "list" -> [i \in 1..Len(n.child) |-> Item(n.child[i], "")]
                      [] KindOf(n) = "choice" -> <<Element(n.child[1], Names[n.type][n.alt])>>
                      [] OTHER -> [i \in 1..Len(n.child) |->
                                      IF n.child[i] = Absent THEN << >>
                                      ELSE Element(n.child[i], Names[n.type][i])]
    IN  IF KindOf(n) \in Newtype THEN Element(n.child[1], id)
        ELSE IF KindOf(n) \in Primitive THEN <<StartTag(id)>> \o Contents(n) \o <<EndTag(id)>>
        ELSE <<StartTag(id)>> \o FlattenSeq(children) \o <<EndTag(id)>>
Item(n, id) ==
    LET named == IF id = "" THEN Ident[n.type] ELSE id
    IN  CASE KindOf(n) \in Newtype -> Item(n.child[1], named)
          [] KindOf(n) = "choice" -> Element(n.child[1], Names[n.type][n.alt])
          [] KindOf(n) = "enum" -> Contents(n)
          [] OTHER -> Element(n, named)

\* What is written is the XML of the value: every element has the name of its
\* field, alternative or type, and a CHOICE that an encoder of its own wrote
\* lost exactly its outer tags.
WritesElements == res # "missing"
                  /\ (res = "ok" => E.out = Element(root, Ident[root.type]))
=============================================================================
