----------------------------- MODULE PerEncoder ------------------------------
(***************************************************************************)
(* The encoder of the packed encoding rules (src/src/per/enc.rs), aligned  *)
(* (APER) and unaligned (UPER), driven by the calls that                   *)
(* #[derive(Encode)] makes for a value.                                    *)
(*                                                                         *)
(* Every constructed value, every item of a list, every alternative and    *)
(* every extension addition has an encoder of its own, whose bits are put  *)
(* into the outer one when it is complete: a preamble comes before         *)
(* components that were encoded earlier.  In the aligned variant a field   *)
(* may start only at a multiple of eight bits of the whole encoding, so    *)
(* that each encoder also has to know where its bits will end up.          *)
(*                                                                         *)
(* A primitive value is an INTEGER (0..2^w - 1), or a BOOLEAN if w = 1.    *)
(* Lengths are below 16K: PerFragment is about longer ones.                *)
(***************************************************************************)
EXTENDS PerBits

CONSTANTS
    Type,           \* names of types
    Kind,           \* Kind[t]
    Fields,         \* Fields[t]: FIELDS and then EXTENDED_FIELDS of a SEQUENCE or
                    \* SET, VARIANTS and then EXTENDED_VARIANTS of a CHOICE, the
                    \* item of a SEQUENCE OF
    Extensible,     \* Extensible[t]: IS_EXTENSIBLE, or that of the size constraint
    Bound,          \* Bound[t]: the width w of a primitive type; m for a list with
                    \* SIZE (0..m), and 0 for one without a size constraint
    Node,           \* values
    TypeOf,         \* TypeOf[n]
    Child,          \* Child[n]: components, in the order of the declaration
    Alt,            \* Alt[n]: the alternative of a CHOICE, from 1; the number of a
                    \* primitive value
    Roots,          \* the values an encoding may start with
    Tag,            \* context tags
    Absent          \* no value

Constructed == {"sequence", "set"}

VARIABLES
    aligned,    \* EncoderOptions::aligned
    root,       \* the value being encoded
    cur,        \* the value whose `encode` is called next, with its tag
    frames,     \* the calls under way, the outermost first
    encoders,   \* the Encoder objects, the last one runs
    res         \* "run" or "ok"

vars == <<aligned, root, cur, frames, encoders, res>>

-----------------------------------------------------------------------------

Front(s) == SubSeq(s, 1, Len(s) - 1)
Top(s) == s[Len(s)]
KindOf(n) == Kind[TypeOf[n]]
FieldsOf(n) == Fields[TypeOf[n]]
RootCount(t) == Cardinality({i \in 1..Len(Fields[t]) : ~Fields[t][i].ext})
ExtCount(t) == Len(Fields[t]) - RootCount(t)
OptCount(t) == Cardinality({i \in 1..Len(Fields[t]) : Fields[t][i].opt /\ ~Fields[t][i].ext})

Flat(ss) ==
    LET upTo[k \in 0..Len(ss)] == IF k = 0 THEN << >> ELSE upTo[k - 1] \o ss[k]
    IN  upTo[Len(ss)]

\* An Encoder.  `preamble` counts the bits that encode_constructed puts before
\* its output, is_extension_sequence and number_optional_default_fields;
\* `parent` is parent_output_length.
Encoder == [output : Seq(Bit), set : BOOLEAN, set_output : [Tag -> Seq(Bit)],
            preamble : Nat, parent : Nat]
NewEncoder(set, preamble, parent) ==
    [output |-> << >>, set |-> set, set_output |-> [tg \in Tag |-> << >>],
     preamble |-> preamble, parent |-> parent]
E == Top(encoders)

Ascending(s) == [k \in 1..Cardinality(s) |->
                    CHOOSE x \in s : Cardinality({y \in s : y < x}) = k - 1]

\* bitstring_output: a SET's components in the order of their tags
Output(e) == IF e.set THEN Flat([k \in 1..Cardinality(Tag) |-> e.set_output[Ascending(Tag)[k]]])
             ELSE e.output

\* Mutant of OutputLength: the bits of the preamble are not counted
OutputLengthOfRoot(e) == e.parent + Len(Output(e))

\* output_length and pad_to_alignment
OutputLength(e) == e.preamble + e.parent + Len(Output(e))
Pad(e, bits) == IF aligned THEN bits \o Zeros((8 - ((OutputLength(e) + Len(bits)) % 8)) % 8)
                ELSE bits

\* extend(tag, bits), by the encoder at the top of es
Extend(es, bits, tag) ==
    encoders' = [es EXCEPT ![Len(es)] =
                    IF @.set THEN [@ EXCEPT !.set_output[tag] = bits]
                    ELSE [@ EXCEPT !.output = @ \o bits]]

\* encode_length without a constraint, of k items with these bits
Lengthened(e, buffer, k, bits) == Pad(e, buffer) \o LengthBits(k) \o bits

\* A call of encode_sequence, encode_set, encode_sequence_of, encode_choice,
\* encode_extension_addition or encode_extension_addition_group.  `bits` are
\* those of the items of a list so far, `root_bitfield` and `extension_fields`
\* belong to the encoder of a SEQUENCE or SET.
Addition == [present : BOOLEAN, octets : Seq(Bit)]
Frame == [call : Constructed \cup {"list", "item", "choice", "addition", "group"}, node : Node, tag : Tag,
          next : Nat, bits : Seq(Bit), root_bitfield : Seq([bit : BOOLEAN, tag : Tag]),
          extension_fields : Seq(Addition)]
FrameOf(call, c, i) ==
    [call |-> call, node |-> c.node, tag |-> c.tag, next |-> i, bits |-> << >>,
     root_bitfield |-> << >>, extension_fields |-> << >>]
F == Top(frames)
FrameType(f) == TypeOf[f.node]

Nobody == [node |-> Absent, tag |-> CHOOSE tg \in Tag : TRUE]
Component(n, i) == [node |-> Child[n][i], tag |-> FieldsOf(n)[i].tag]

Call(kinds) == res = "run" /\ cur.node # Absent /\ KindOf(cur.node) \in kinds
Resume(calls) == res = "run" /\ cur.node = Absent /\ frames # << >> /\ F.call \in calls
UpdateFrame(f) == frames' = [frames EXCEPT ![Len(frames)] = f]

-----------------------------------------------------------------------------

Init == /\ aligned \in BOOLEAN
        /\ root \in Roots
        /\ cur = [node |-> root, tag |-> CHOOSE tg \in Tag : TRUE]
        /\ frames = << >>
        /\ encoders = <<NewEncoder(FALSE, 0, 0)>>
        /\ res = "run"

\* encode_bool, encode_integer.  256 values are the only range here that is
\* aligned.
Number(e, n) == (IF Bound[TypeOf[n]] = 8 THEN Pad(e, << >>) ELSE << >>)
                    \o Binary(Alt[n], Bound[TypeOf[n]])

EncodePrimitive ==
    /\ Call({"primitive"})
    /\ Extend(encoders, Number(E, cur.node), cur.tag)
    /\ cur' = Nobody
    /\ UNCHANGED <<aligned, root, frames, res>>

\* new_sequence_encoder, new_set_encoder
PreambleBits(t) == OptCount(t) + BitOf(Extensible[t])
EncodeConstructed ==
    /\ Call(Constructed)
    /\ frames' = Append(frames, FrameOf(KindOf(cur.node), cur, 1))
    /\ encoders' = Append(encoders, NewEncoder(KindOf(cur.node) = "set",
                                               PreambleBits(TypeOf[cur.node]), OutputLength(E)))
    /\ cur' = Nobody
    /\ UNCHANGED <<aligned, root, res>>

\* The closure: the next field, and whether it is one of the extension root
AtField(ext) == /\ Resume(Constructed) /\ F.next <= Len(FieldsOf(F.node))
                /\ FieldsOf(F.node)[F.next].ext = ext
FieldHere == Child[F.node][F.next]
Presence(bit) == IF FieldsOf(F.node)[F.next].opt
                 THEN Append(F.root_bitfield, [bit |-> bit, tag |-> FieldsOf(F.node)[F.next].tag])
                 ELSE F.root_bitfield

EncodeField ==
    /\ AtField(FALSE) /\ FieldHere # Absent
    /\ UpdateFrame([F EXCEPT !.next = @ + 1, !.root_bitfield = Presence(TRUE)])
    /\ cur' = Component(F.node, F.next)
    /\ UNCHANGED <<aligned, root, encoders, res>>

EncodeNone ==
    /\ AtField(FALSE) /\ FieldHere = Absent
    /\ UpdateFrame([F EXCEPT !.next = @ + 1, !.root_bitfield = Presence(FALSE)])
    /\ UNCHANGED <<aligned, root, cur, encoders, res>>

\* encode_extension_addition of a value that is there: a new encoder, at the
\* start of an octet.  That of a group counts from the outer one.
IsGroup == FieldsOf(F.node)[F.next].group
GroupEncoder(t) == NewEncoder(FALSE, 1 + OptCount(t), OutputLength(E))
EncodeAddition ==
    /\ AtField(TRUE) /\ FieldHere # Absent
    /\ frames' = Append([frames EXCEPT ![Len(frames)].next = @ + 1],
                        FrameOf(IF IsGroup THEN "group" ELSE "addition", Component(F.node, F.next), 1))
    /\ encoders' = Append(encoders, IF IsGroup THEN GroupEncoder(TypeOf[FieldHere])
                                    ELSE NewEncoder(FALSE, 0, 0))
    /\ cur' = Component(F.node, F.next)
    /\ UNCHANGED <<aligned, root, res>>

Missing == [present |-> FALSE, octets |-> << >>]
EncodeNoAddition ==
    /\ AtField(TRUE) /\ FieldHere = Absent
    /\ UpdateFrame([F EXCEPT !.next = @ + 1, !.extension_fields = Append(@, Missing)])
    /\ UNCHANGED <<aligned, root, cur, encoders, res>>

\* all_absent: a group without required fields in which no bit is set.  (The
\* root_bitfield that the code looks at first is that of the group's own
\* encoder, which stays empty: encode_sequence makes another one.)
HasRequired(t) == \E i \in 1..Len(Fields[t]) : ~Fields[t][i].opt /\ ~Fields[t][i].ext
AllAbsent(n, octets) == ~HasRequired(TypeOf[n]) /\ \A i \in 1..Len(octets) : octets[i] = 0

CloseAddition ==
    /\ Resume({"addition", "group"})
    /\ LET octets == ForcePad(Output(E))
           field == IF F.call = "group" /\ AllAbsent(F.node, octets) THEN Missing
                    ELSE [present |-> TRUE, octets |-> octets]
       IN  frames' = [Front(frames) EXCEPT ![Len(frames) - 1].extension_fields = Append(@, field)]
    /\ encoders' = Front(encoders)
    /\ UNCHANGED <<aligned, root, cur, res>>

-----------------------------------------------------------------------------

\* encode_constructed.  The bits of a SET are sorted by the tags of its fields.
Sorted(bits) ==
    LET Rank(i) == Cardinality({j \in 1..Len(bits) : bits[j].tag < bits[i].tag})
    IN  [k \in 1..Len(bits) |-> bits[CHOOSE i \in 1..Len(bits) : Rank(i) = k - 1]]
ExtensionsPresent == \E i \in 1..Len(F.extension_fields) : F.extension_fields[i].present

\* The extension bit, the presence bits and, if there is one, the root
RootPart ==
    LET t == FrameType(F)
        field == IF F.call = "set" THEN Sorted(F.root_bitfield) ELSE F.root_bitfield
        any == HasRequired(t) \/ \E i \in 1..Len(field) : field[i].bit
    IN  (IF Extensible[t] THEN <<BitOf(ExtensionsPresent)>> ELSE << >>)
            \o [k \in 1..Len(field) |-> BitOf(field[k].bit)]
            \o (IF any THEN Output(E) ELSE << >>)

\* The bitmap and the additions, each behind its length; the outer encoder does
\* the padding
Bitmap == SmallInteger(ExtCount(FrameType(F)) - 1)
            \o [k \in 1..Len(F.extension_fields) |-> BitOf(F.extension_fields[k].present)]
Additions(outer, buffer) ==
    LET field(k) == F.extension_fields[k]
        upTo[k \in 0..Len(F.extension_fields)] ==
            IF k = 0 THEN buffer
            ELSE IF ~field(k).present THEN upTo[k - 1]
            ELSE Lengthened(outer, upTo[k - 1], Len(field(k).octets) \div 8, field(k).octets)
    IN  upTo[Len(F.extension_fields)]

CloseConstructed ==
    /\ Resume(Constructed) /\ F.next > Len(FieldsOf(F.node))
    /\ LET outer == encoders[Len(encoders) - 1]
           bits == IF ExtensionsPresent THEN Additions(outer, RootPart \o Bitmap) ELSE RootPart
       IN  Extend(Front(encoders), bits, F.tag)
    /\ frames' = Front(frames)
    /\ UNCHANGED <<aligned, root, cur, res>>

\* encode_sequence_of: the bit of an extensible size constraint.  Then the items,
\* each with a new encoder; only the first is told of the bits before it.
ExtensionBit(n) == IF Extensible[TypeOf[n]] THEN <<BitOf(Len(Child[n]) > Bound[TypeOf[n]])>>
                   ELSE << >>
EncodeList ==
    /\ Call({"list"})
    /\ frames' = Append(frames, FrameOf("list", cur, 1))
    /\ cur' = Nobody
    /\ UNCHANGED <<aligned, root, encoders, res>>

EncodeItem ==
    /\ Resume({"list"}) /\ F.next <= Len(Child[F.node])
    /\ LET item == [node |-> Child[F.node][F.next], tag |-> FieldsOf(F.node)[1].tag]
       IN  /\ frames' = Append([frames EXCEPT ![Len(frames)].next = @ + 1], FrameOf("item", item, 1))
           /\ cur' = item
    /\ encoders' = Append(encoders, NewEncoder(E.set, 0, IF F.next = 1 THEN Len(ExtensionBit(F.node))
                                                         ELSE 0))
    /\ UNCHANGED <<aligned, root, res>>

CloseItem ==
    /\ Resume({"item"})
    /\ frames' = [Front(frames) EXCEPT ![Len(frames) - 1].bits = @ \o Output(E)]
    /\ encoders' = Front(encoders)
    /\ UNCHANGED <<aligned, root, cur, res>>

\* encode_length.  A size beyond an extensible constraint is written as if it were
\* within.
Counted(e, n, bits) ==
    IF Bound[TypeOf[n]] > 0
    THEN ExtensionBit(n) \o Binary(Len(Child[n]), Log2(Bound[TypeOf[n]] + 1)) \o bits
    ELSE Lengthened(e, ExtensionBit(n), Len(Child[n]), bits)

CloseList ==
    /\ Resume({"list"}) /\ F.next > Len(Child[F.node])
    /\ Extend(encoders, Counted(E, F.node, F.bits), F.tag)
    /\ frames' = Front(frames)
    /\ UNCHANGED <<aligned, root, cur, res>>

\* encode_choice: the alternative is encoded first, and told of the bits that the
\* CHOICE puts before it
Variant(n) == FieldsOf(n)[Alt[n]]
IndexBits(t) == Log2(RootCount(t))
ChoiceBits(n) == BitOf(aligned /\ Extensible[TypeOf[n]])
                    + (IF Variant(n).ext THEN 0 ELSE IndexBits(TypeOf[n]))
EncodeChoice ==
    /\ Call({"choice"})
    /\ frames' = Append(frames, FrameOf("choice", [node |-> cur.node, tag |-> Variant(cur.node).tag], 1))
    /\ encoders' = Append(encoders, NewEncoder(FALSE, 0, ChoiceBits(cur.node)))
    /\ cur' = [node |-> Child[cur.node][1], tag |-> Variant(cur.node).tag]
    /\ UNCHANGED <<aligned, root, res>>

Chosen(e, n, bits) ==
    LET t == TypeOf[n]
        extension == IF Extensible[t] THEN <<BitOf(Variant(n).ext)>> ELSE << >>
        octets == OpenOctets(bits)
    IN  IF Variant(n).ext
        THEN Lengthened(e, extension \o SmallInteger(Alt[n] - RootCount(t) - 1), Len(octets) \div 8, octets)
        ELSE extension \o Binary(Alt[n] - 1, IndexBits(t)) \o bits

CloseChoice ==
    /\ Resume({"choice"})
    /\ Extend(Front(encoders), Chosen(encoders[Len(encoders) - 1], F.node, E.output), F.tag)
    /\ frames' = Front(frames)
    /\ UNCHANGED <<aligned, root, cur, res>>

Finish ==
    /\ res = "run" /\ cur.node = Absent /\ frames = << >>
    /\ res' = "ok"
    /\ UNCHANGED <<aligned, root, cur, frames, encoders>>

\* What encode() returns; uper::encode returns at least one octet
Encoded == IF aligned THEN ForcePad(Output(encoders[1])) ELSE OpenOctets(Output(encoders[1]))

Step == \/ EncodePrimitive
        \/ EncodeConstructed \/ EncodeField \/ EncodeNone
        \/ EncodeAddition \/ EncodeNoAddition \/ CloseAddition \/ CloseConstructed
        \/ EncodeList \/ EncodeItem \/ CloseItem \/ CloseList
        \/ EncodeChoice \/ CloseChoice
        \/ Finish

Stop == res # "run" /\ UNCHANGED vars

Next == Step \/ Stop
Spec == Init /\ [][Next]_vars

-----------------------------------------------------------------------------

\* Every encoder belongs to a call that is under way, and every call keeps the
\* state the code keeps for it.
TypeOK ==
    /\ aligned \in BOOLEAN
    /\ root \in Roots
    /\ cur \in [node : Node \cup {Absent}, tag : Tag]
    /\ frames \in Seq(Frame)
    /\ encoders \in Seq(Encoder)
    /\ Len(encoders) = 1 + Cardinality({i \in 1..Len(frames) : frames[i].call # "list"})
    /\ res \in {"run", "ok"}
====
