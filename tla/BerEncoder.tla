----------------------------- MODULE BerEncoder ------------------------------
(***************************************************************************)
(* The BER/CER/DER encoder (src/src/ber/enc.rs) driven by the code that    *)
(* #[derive(Encode)] generates for a type.                                 *)
(*                                                                         *)
(* Every nested `Encoder` is a frame with its own output.  The value is    *)
(* chosen while it is written: which alternative a CHOICE holds, whether a *)
(* component is there, how many elements a list has, whether a string is   *)
(* longer than CER writes at once.  What goes out is a sequence of the     *)
(* tokens that BerDecoder reads, each with a label that says what it is:   *)
(* the type written, and the place it was written for.                     *)
(***************************************************************************)
EXTENDS Integers, FiniteSets, SequencesExt, Asn1Tag

CONSTANTS
    Types, Schema, Roots, Tags, EOC, ChunkTag, NoType,  \* as in BerDecoder
    Rules,          \* the encoding rules to try: "BER", "CER", "DER"
    Plain,          \* Plain[t]: the alternative of CHOICE t taken without a choice
    AnyTokens,      \* contents of Any: sequences of tokens that make one value
    MaxChoices      \* bound: the choices in which a value departs from the plain one

(***************************************************************************)
(* What is written: values, one behind the other and one in the other.     *)
(***************************************************************************)
\* How many values of indefinite length are open behind the first k tokens
Open(s, k) == Cardinality({i \in 1..k : s[i].len = -1}) - Cardinality({i \in 1..k : s[i].kind = "eoc"})

\* The length of the i-th token is that of values that lie in this one.
Closed(s, i) ==
    LET end == i + s[i].len
    IN  /\ end <= Len(s) /\ Open(s, end) = Open(s, i)
        /\ \A j \in i..end : Open(s, j) >= Open(s, i) /\ j + s[j].len <= end

\* Values, one behind the other
Whole(s) ==
    /\ \A k \in 1..Len(s) : Open(s, k) >= 0 /\ s[k].len >= -1
    /\ Open(s, Len(s)) = 0
    /\ \A i \in 1..Len(s) : s[i].len >= 0 => Closed(s, i)

\* One value
OneValue(s) ==
    /\ Whole(s)
    /\ s # << >>
    /\ IF s[1].len = -1 THEN \A k \in 1..(Len(s) - 1) : Open(s, k) > 0
                        ELSE Len(s) = 1 + s[1].len

Kinds == {"primitive", "bits", "string", "any", "choice", "sequence", "set",
          "sequenceOf", "setOf", "explicit"}

ASSUME EncoderAssumption ==
    /\ Roots \subseteq Types
    /\ NoType \notin Types
    /\ EOC \in Nat /\ ChunkTag \in Nat
    /\ Rules \subseteq {"BER", "CER", "DER"}
    /\ MaxChoices \in Nat
    /\ \A t \in Types :
          LET type == Schema[t]
          IN  /\ type.kind \in Kinds
              /\ type.tag \in Nat
              /\ type.kind = "choice" => Plain[t] \in 1..Len(type.alts)
              /\ type.kind = "choice" => \A i \in 1..Len(type.alts) : type.alts[i].type \in Types
              /\ type.kind \in {"sequence", "set"}
                    => /\ Len(type.fields) \in Nat
                       /\ \A i \in 1..Len(type.fields) : type.fields[i].type \in Types
              /\ type.kind \in {"sequenceOf", "setOf", "explicit"} => type.elem \in Types
    /\ \A value \in AnyTokens :
          /\ value \in Seq([kind : {"tlv", "eoc"}, tag : Nat, constructed : BOOLEAN, len : Int])
          /\ OneValue(value)

VARIABLES
    rules,          \* config.encoding_rules
    encoders,       \* nested encoders, the outermost first
    todo,           \* the type to write
    step,           \* "write": write a value of type `todo`; "next": the handler
                    \* of the innermost encoder goes on; "written": a value has
                    \* been written for it; "done"; "failed"
    left            \* choices left

encoderVars == <<rules, encoders, todo, step, left>>

\* Labels: the type written and the place (frame type, component) it is for.
Label == [type : Types \cup {NoType}, within : Types \cup {NoType}, field : Nat]

inner == encoders[Len(encoders)]
SetInner(f) == [encoders EXCEPT ![Len(encoders)] = f]

\* Encoder::new, Encoder::new_set
NewEncoder(t, isSet) ==
    [type |-> t, field |-> 1, out |-> << >>, isSet |-> isSet, buffer |-> << >>, elements |-> << >>]

Item(kind, tag, constructed, len, label) ==
    [kind |-> kind, tag |-> tag, constructed |-> constructed, len |-> len, label |-> label]
Here(t) == [type |-> t, within |-> inner.type, field |-> inner.field]
NoLabel == [type |-> NoType, within |-> NoType, field |-> 0]
EndOfContents == Item("eoc", EOC, FALSE, 0, NoLabel)

\* Mutant: what is kept stays in the output as well, clone instead of mem::take.
EncodeToSetCloned(f, tag) ==
    IF f.isSet THEN [f EXCEPT !.buffer = [t \in DOMAIN @ \cup {tag} |->
                                             IF t = tag THEN f.out ELSE @[t]]]
               ELSE f

\* encode_to_set: inside a SET what has been written since the last value is
\* kept under the tag of the value.
EncodeToSet(f, tag) ==
    IF f.isSet THEN [f EXCEPT !.buffer = [t \in DOMAIN @ \cup {tag} |->
                                             IF t = tag THEN f.out ELSE @[t]],
                              !.out = << >>]
               ELSE f

\* The tags of a SET's buffer in ascending order, as its BTreeMap holds them: the
\* k-th is the one with k - 1 tags below it.
InOrder(tags) == [k \in 1..Cardinality(tags) |->
                    CHOOSE t \in tags : Cardinality({u \in tags : u < t}) = k - 1]

\* Encoder::output
Output(f) == IF f.isSet THEN FlattenSeq([k \in 1..Cardinality(DOMAIN f.buffer) |->
                                            f.buffer[InOrder(DOMAIN f.buffer)[k]]])
                        ELSE f.out

Write(f, items) == [f EXCEPT !.out = @ \o items]

\* encode_value of a primitive: identifier, length and contents
Primitive(f, tag, label) ==
    EncodeToSet(Write(f, << Item("tlv", tag, FALSE, 0, label) >>), tag)

\* Mutant: CER closes an indefinite length only in the outermost value.
ConstructedOpen(tag, contents, label) ==
    IF rules = "CER"
    THEN << Item("tlv", tag, TRUE, -1, label) >> \o contents
            \o (IF Len(encoders) > 2 THEN << >> ELSE << EndOfContents >>)
    ELSE << Item("tlv", tag, TRUE, Len(contents), label) >> \o contents

\* encode_value of a constructed value: CER uses the indefinite length.
Constructed(tag, contents, label) ==
    IF rules = "CER"
    THEN << Item("tlv", tag, TRUE, -1, label) >> \o contents \o << EndOfContents >>
    ELSE << Item("tlv", tag, TRUE, Len(contents), label) >> \o contents

\* A choice that departs from the plain value, if one is left
Depart(other) == IF other THEN left > 0 /\ left' = left - 1 ELSE UNCHANGED left

Written(f) == encoders' = SetInner(f) /\ step' = "written" /\ UNCHANGED todo
WriteNext(t) == todo' = t /\ step' = "write"

(***************************************************************************)
(* Writing a value of type `todo`.                                         *)
(***************************************************************************)
Kind(t) == IF t = NoType THEN "root" ELSE Schema[t].kind
Doing(kinds) == step = "write" /\ Kind(todo) \in kinds

\* encode_bool, encode_integer, encode_enumerated, encode_null, ...
EncodePrimitive ==
    /\ Doing({"primitive"})
    /\ Written(Primitive(inner, Schema[todo].tag, Here(todo)))
    /\ UNCHANGED <<rules, left>>

\* What encode_octet_string_ and encode_bit_string give to encode_string: the tag of
\* the parts of a string of type t
PartTag(t) == IF Kind(t) = "bits" THEN BIT_STRING ELSE ChunkTag

\* The label of the k-th part of a string of type t.  The octet that says how many
\* bits are unused is the first of a BIT STRING's first part, and of that alone.
PartLabel(t, k) == [type |-> t, within |-> NoType, field |-> k]

\* encode_string, for encode_bit_string as well: CER writes a long string in parts;
\* every part goes through encode_primitive, and so through encode_to_set.  A long
\* string is written in two parts here.
EncodeString ==
    /\ Doing({"string", "bits"})
    /\ \E long \in BOOLEAN :
          /\ Depart(long)
          /\ LET tag == Schema[todo].tag
                 opened == Write(inner, << Item("tlv", tag, TRUE, -1, Here(todo)) >>)
                 part(f, k) == Primitive(f, PartTag(todo), PartLabel(todo, k))
             IN  Written(IF long /\ rules = "CER"
                         THEN EncodeToSet(Write(part(part(opened, 1), 2), << EndOfContents >>), tag)
                         ELSE Primitive(inner, tag, Here(todo)))
    /\ UNCHANGED rules

\* Contents that are there already, the first token with a label
Labelled(value, label) ==
    [i \in 1..Len(value) |-> Item(value[i].kind, value[i].tag, value[i].constructed, value[i].len,
                                  IF i = 1 THEN label ELSE NoLabel)]

\* encode_any: the contents as they are, behind a tag if the place has one.
\* (An empty Any, which writes nothing, is not among AnyTokens.)
EncodeAny ==
    /\ Doing({"any"})
    /\ ~inner.isSet
    /\ \E value \in AnyTokens :
          LET tag == Schema[todo].tag
              items == Labelled(value, IF tag = EOC THEN Here(todo) ELSE NoLabel)
              wrapped == IF value[1].constructed
                         THEN Constructed(tag, items, Here(todo))
                         ELSE << Item("tlv", tag, FALSE, Len(items), Here(todo)) >> \o items
          IN  /\ Depart(Len(value) > 1)
              /\ Written(IF tag = EOC THEN Write(inner, items)
                         ELSE EncodeToSet(Write(inner, wrapped), tag))
    /\ UNCHANGED rules

\* BerEncodeErrorKind::AnyInSet: the encoding fails.
RefuseAny ==
    /\ Doing({"any"})
    /\ inner.isSet
    /\ step' = "failed"
    /\ UNCHANGED <<rules, encoders, todo, left>>

\* encode_choice: the variant writes itself.
EncodeChoice ==
    /\ Doing({"choice"})
    /\ \E i \in 1..Len(Schema[todo].alts) :
          /\ Depart(i # Plain[todo])
          /\ WriteNext(Schema[todo].alts[i].type)
    /\ UNCHANGED <<rules, encoders>>

\* encode_sequence, encode_set, encode_sequence_of, encode_set_of and
\* encode_explicit_prefix write into an encoder of their own.
EnterConstructed ==
    /\ Doing({"sequence", "set", "sequenceOf", "setOf", "explicit"})
    /\ encoders' = Append(encoders, NewEncoder(todo, Kind(todo) = "set"))
    /\ step' = "next"
    /\ UNCHANGED <<rules, todo, left>>

(***************************************************************************)
(* The handlers.                                                           *)
(***************************************************************************)
At(kinds) == step = "next" /\ Kind(inner.type) \in kinds
Fields(f) == Schema[f.type].fields

\* encode_constructed of what the inner encoder holds
Leave(contents) ==
    LET tag == Schema[inner.type].tag
        outer == encoders[Len(encoders) - 1]
        label == [type |-> inner.type, within |-> outer.type, field |-> outer.field]
        done == EncodeToSet(Write(outer, Constructed(tag, contents, label)), tag)
    IN  /\ encoders' = [SubSeq(encoders, 1, Len(encoders) - 1)
                           EXCEPT ![Len(encoders) - 1] = done]
        /\ step' = "written"
        /\ UNCHANGED todo

\* The next component: written, or left out if it is OPTIONAL and absent or
\* has its DEFAULT value.
EncodeField ==
    /\ At({"sequence", "set"})
    /\ inner.field <= Len(Fields(inner))
    /\ \/ /\ Depart(Fields(inner)[inner.field].mode # "required")
          /\ WriteNext(Fields(inner)[inner.field].type)
          /\ UNCHANGED encoders
       \/ /\ Fields(inner)[inner.field].mode # "required"
          /\ encoders' = SetInner([inner EXCEPT !.field = @ + 1])
          /\ UNCHANGED <<todo, step, left>>
    /\ UNCHANGED rules

EncodeFieldsEnd ==
    /\ At({"sequence", "set"})
    /\ inner.field > Len(Fields(inner))
    /\ Leave(Output(inner))
    /\ UNCHANGED <<rules, left>>

EncodeElement ==
    /\ At({"sequenceOf", "setOf"})
    /\ Depart(TRUE)
    /\ WriteNext(Schema[inner.type].elem)
    /\ UNCHANGED <<rules, encoders>>

\* Mutant: the elements of a SET OF stay in the order of the hash table.
AscendingNever(a, b) == FALSE

\* octet_string_ascending, as far as the tokens tell the octets apart: by the
\* first identifier octet, class before form before number
FirstOctet(a) == IF a = << >> THEN 0 ELSE 1 + IdentifierOctet(a[1].tag, a[1].constructed)
Ascending(a, b) == FirstOctet(a) < FirstOctet(b)

\* sort_by is stable, which SortSeq does not say: what compares as equal keeps its
\* order.  The k-th element is the one with k - 1 elements before it.
Sorted(s) ==
    LET Before(i) == {j \in 1..Len(s) : \/ Ascending(s[j], s[i])
                                        \/ ~Ascending(s[i], s[j]) /\ j < i}
    IN  [k \in 1..Len(s) |-> s[CHOOSE i \in 1..Len(s) : Cardinality(Before(i)) = k - 1]]

\* encode_sequence_of has written the elements one behind the other,
\* encode_set_of each into an encoder of its own, to sort them.
EncodeElementsEnd ==
    /\ At({"sequenceOf", "setOf"})
    /\ Leave(FlattenSeq(Sorted(inner.elements)) \o inner.out)
    /\ UNCHANGED <<rules, left>>

EncodeContent ==
    /\ At({"explicit"})
    /\ WriteNext(Schema[inner.type].elem)
    /\ UNCHANGED <<rules, encoders, left>>

\* A value has been written: the handler goes on behind it.
GoOn(f) == encoders' = SetInner(f) /\ step' = "next" /\ UNCHANGED todo

AfterWritten ==
    /\ step = "written"
    /\ \/ Kind(inner.type) \in {"sequence", "set"} /\ GoOn([inner EXCEPT !.field = @ + 1])
       \/ Kind(inner.type) = "sequenceOf" /\ GoOn(inner)
       \/ /\ Kind(inner.type) = "setOf"
          /\ GoOn([inner EXCEPT !.elements = Append(@, inner.out), !.out = << >>])
       \/ Kind(inner.type) = "explicit" /\ Leave(inner.out)
       \/ Kind(inner.type) = "root" /\ step' = "done" /\ UNCHANGED <<encoders, todo>>
    /\ UNCHANGED <<rules, left>>

EncoderInit ==
    /\ rules \in Rules
    /\ encoders = << NewEncoder(NoType, FALSE) >>
    /\ todo \in Roots
    /\ step = "write"
    /\ left = MaxChoices

EncoderNext ==
    \/ EncodePrimitive \/ EncodeString \/ EncodeAny \/ RefuseAny \/ EncodeChoice
    \/ EnterConstructed \/ EncodeField \/ EncodeFieldsEnd \/ EncodeElement \/ EncodeElementsEnd
    \/ EncodeContent \/ AfterWritten

EncoderSpec == EncoderInit /\ [][EncoderNext]_encoderVars

(***************************************************************************)
(* Properties.                                                             *)
(***************************************************************************)
\* Every nested encoder is at a component of its type, or just behind the
\* last one, and only the encoder of a SET sorts.  What has been written is taken
\* over at once: in a SET into the buffer, in a SET OF into the elements, in an
\* explicit tag into the encoder around it.
FramesOK ==
    \A i \in 1..Len(encoders) :
        LET f == encoders[i]
        IN  /\ f.type = NoType <=> i = 1
            /\ f.isSet <=> Kind(f.type) = "set"
            /\ Kind(f.type) \in {"sequence", "set"} => f.field \in 1..(Len(Fields(f)) + 1)
            /\ f.isSet => f.out = << >>
            /\ Kind(f.type) \in {"setOf", "explicit"} /\ f.out # << >>
                  => i = Len(encoders) /\ step = "written"

\* What the encoders hold are whole values; an entry of a SET's buffer is one value
\* with the tag it is kept under, an element of a SET OF is one value, and so is
\* what an explicit tag is put around.
ValuesHeld ==
    \A i \in 1..Len(encoders) :
        LET f == encoders[i]
        IN  /\ Whole(f.out)
            /\ \A tag \in DOMAIN f.buffer : OneValue(f.buffer[tag]) /\ f.buffer[tag][1].tag = tag
            /\ \A k \in 1..Len(f.elements) : OneValue(f.elements[k])
            /\ Kind(f.type) \in {"setOf", "explicit"} /\ i = Len(encoders) /\ step = "written"
                  => OneValue(f.out)

\* Whatever is encoded, no encoder loses its place or mixes up what it has written:
\* what Encoder::output hands on (enc.rs:85) are whole values.
EncoderOK == FramesOK /\ ValuesHeld

\* CER writes a long string, a BIT STRING or another, inside a SET: its parts do not
\* stay together (enc.rs:222), and ValuesHeld ends there.
SplitsInSet == Doing({"string", "bits"}) /\ rules = "CER" /\ inner.isSet /\ Depart(TRUE)

\* What Encoder::output returns at the end
Encoding == encoders[1].out

\* The value that starts with token i ends with token j.
EndsWith(s, i, j) ==
    IF s[i].len >= 0 THEN j = i + s[i].len
    ELSE /\ j > i /\ Open(s, j) = Open(s, i - 1)
         /\ \A k \in i..(j - 1) : Open(s, k) > Open(s, i - 1)

\* One value right behind the other, and in no value that the other is not in
Follows(s, i, j) ==
    /\ s[i].kind = "tlv" /\ s[j].kind = "tlv" /\ EndsWith(s, i, j - 1)
    /\ \A k \in 1..(i - 1) : k + s[k].len >= i => k + s[k].len >= j

\* The order that DER and CER prescribe (X.690, 9.3, 10.3, 11.6): the components of
\* a SET by their tags, the elements of a SET OF by their octets, of which the model
\* has the first.
InPlace(a, b) ==
    /\ Kind(a.label.within) = "set" => a.tag < b.tag
    /\ Kind(a.label.within) = "setOf"
          => IdentifierOctet(a.tag, a.constructed) <= IdentifierOctet(b.tag, b.constructed)

\* However deep they are nested
Canonical(s) == \A i, j \in 1..Len(s) : InPlace(s[i], s[j]) \/ ~Follows(s, i, j)

\* Whatever is encoded is in the canonical order in the end: what encode_to_set keeps by
\* its tags (enc.rs:253), and encode_set_of sorts (enc.rs:662), stays so in all that
\* is put around it.
CanonicalOrder == step = "done" => Canonical(Encoding)
=============================================================================
