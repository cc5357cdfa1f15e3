----------------------------- MODULE OerEncoder ------------------------------
(***************************************************************************)
(* The encoder of the octet encoding rules (src/src/oer/enc.rs), driven by *)
(* the calls that #[derive(Encode)] makes for a value.                     *)
(*                                                                         *)
(* The encoder works in place: a SEQUENCE reserves octets for its preamble *)
(* and its extension bitmap and fills them in when its components have     *)
(* been written.  An extension addition needs its length first, so it is   *)
(* encoded with the two buffers, `output` and `worker`, exchanged.  All    *)
(* nested encoders share the two buffers, and each of them relies on the   *)
(* worker being empty and on its output growing only at the end.           *)
(*                                                                         *)
(* A primitive value is one octet, as an INTEGER (0..255) is.  A value is  *)
(* a node: its type, its components (Absent for an OPTIONAL that is None   *)
(* or a DEFAULT equal to its default), and for a CHOICE the alternative.   *)
(***************************************************************************)
EXTENDS Integers, Sequences, FiniteSets

CONSTANTS
    Type,           \* names of types
    Kind,           \* Kind[t]
    Fields,         \* Fields[t]: FIELDS and then EXTENDED_FIELDS of a SEQUENCE or
                    \* SET, VARIANTS and then EXTENDED_VARIANTS of a CHOICE, the
                    \* item of a SEQUENCE OF
    Extensible,     \* Extensible[t]: IS_EXTENSIBLE
    Node,           \* values
    TypeOf,         \* TypeOf[n]
    Child,          \* Child[n]: components, in the order of the declaration
    Alt,            \* Alt[n]: the alternative of a CHOICE, from 1; the octet of a
                    \* primitive value
    Roots,          \* the values an encoding may start with
    Tag,            \* context tags that fit in the first octet
    Absent          \* no value

Constructed == {"sequence", "set"}
Octet == 0..255

VARIABLES
    root,       \* the value being encoded
    cur,        \* the value whose `encode` is called next, with its tag
    frames,     \* the calls under way, the outermost first
    encoders,   \* the Encoder objects, the last one runs
    buf,        \* the two buffers
    res         \* "run", "ok" or "panic"

vars == <<root, cur, frames, encoders, buf, res>>

-----------------------------------------------------------------------------

Front(s) == SubSeq(s, 1, Len(s) - 1)
Top(s) == s[Len(s)]
KindOf(n) == Kind[TypeOf[n]]
FieldsOf(n) == Fields[TypeOf[n]]

RootCount(t) == Cardinality({i \in 1..Len(Fields[t]) : ~Fields[t][i].ext})
ExtCount(t) == Len(Fields[t]) - RootCount(t)
OptCount(t) == Cardinality({i \in 1..Len(Fields[t]) : Fields[t][i].opt /\ ~Fields[t][i].ext})

\* Bits, the first one highest, in octets filled up with zeros
Pack(bits) ==
    LET Bit(i) == IF i > Len(bits) THEN 0 ELSE IF bits[i] THEN 1 ELSE 0
        Value(k) == LET v[i \in 0..8] == IF i = 0 THEN 0 ELSE 2 * v[i - 1] + Bit(8 * (k - 1) + i)
                    IN  v[8]
    IN  [k \in 1..((Len(bits) + 7) \div 8) |-> Value(k)]

\* ConstructedCursor::new
PreambleWidth(t) == (OptCount(t) + (IF Extensible[t] THEN 1 ELSE 0) + 7) \div 8
MissingBits(t) == (8 - (ExtCount(t) % 8)) % 8
BitmapWidth(t) == 1 + (ExtCount(t) + 7) \div 8
BitmapTotal(t) == BitmapWidth(t) + 1

\* encode_length
LengthOctets(n) == IF n < 128 THEN <<n>>
                   ELSE IF n < 256 THEN <<129, n>> ELSE <<130, n \div 256, n % 256>>

Zeros(k) == [i \in 1..k |-> 0]

\* output[at .. at + Len(bytes)].copy_from_slice(bytes)
Fits(s, at, bytes) == at + Len(bytes) <= Len(s)
Replace(s, at, bytes) ==
    [i \in 1..Len(s) |-> IF i \in (at + 1)..(at + Len(bytes)) THEN bytes[i - at] ELSE s[i]]
Truncate(s, n) == SubSeq(s, 1, IF n < Len(s) THEN n ELSE Len(s))

\* An Encoder: which buffer is its output, options.set_encoding, set_output
Encoder == [out : 1..2, set : BOOLEAN, set_output : [Tag -> Seq(Octet)]]
NewEncoder(out, set) == [out |-> out, set |-> set, set_output |-> [tg \in Tag |-> << >>]]
E == Top(encoders)
Worker(e) == 3 - e.out
Output == buf[E.out]

\* A call of encode_sequence, encode_set, encode_sequence_of, encode_choice or
\* encode_extension_addition ("addition").  `mark` is the position it keeps: of
\* its preamble, of the alternative, or where to truncate; `bitmap` the one of
\* the extension bitmap.  The bitfields hold what has been set so far.
Frame == [call : Constructed \cup {"list", "choice", "addition"}, node : Node, tag : Tag,
          next : Nat, mark : Nat, bitmap : Nat, root_bitfield : Seq(BOOLEAN),
          extension_bitfield : Seq(BOOLEAN)]
FrameOf(call, c, i, mark) ==
    [call |-> call, node |-> c.node, tag |-> c.tag, next |-> i, mark |-> mark, bitmap |-> 0,
     root_bitfield |-> << >>, extension_bitfield |-> << >>]
F == Top(frames)
FrameType(f) == TypeOf[f.node]

Nobody == [node |-> Absent, tag |-> CHOOSE tg \in Tag : TRUE]
Component(n, i) == [node |-> Child[n][i], tag |-> FieldsOf(n)[i].tag]

Call(kinds) == res = "run" /\ cur.node # Absent /\ KindOf(cur.node) \in kinds
Resume(calls) == res = "run" /\ cur.node = Absent /\ frames # << >> /\ F.call \in calls

\* extend(tag): the encoder at the top of es, after it wrote `out`
Extend(es, b, out, tag) ==
    LET e == Top(es)
    IN  /\ encoders' = IF e.set THEN [es EXCEPT ![Len(es)].set_output[tag] = out] ELSE es
        /\ buf' = [b EXCEPT ![e.out] = IF e.set THEN << >> ELSE out]

-----------------------------------------------------------------------------

Init == /\ root \in Roots
        /\ cur = [node |-> root, tag |-> CHOOSE tg \in Tag : TRUE]
        /\ frames = << >>
        /\ encoders = <<NewEncoder(1, FALSE)>>
        /\ buf = [i \in 1..2 |-> << >>]
        /\ res = "run"

\* encode_bool, encode_integer, the strings...
EncodePrimitive ==
    /\ Call({"primitive"})
    /\ Extend(encoders, buf, Append(Output, Alt[cur.node]), cur.tag)
    /\ cur' = Nobody
    /\ UNCHANGED <<root, frames, res>>

\* encode_sequence up to the closure: reserve the preamble
EncodeSequence ==
    /\ Call({"sequence"})
    /\ frames' = Append(frames, FrameOf("sequence", cur, 1, Len(Output)))
    /\ encoders' = Append(encoders, NewEncoder(E.out, FALSE))
    /\ buf' = [buf EXCEPT ![E.out] = @ \o Zeros(PreambleWidth(TypeOf[cur.node]))]
    /\ cur' = Nobody
    /\ UNCHANGED <<root, res>>

\* encode_set up to the closure
EncodeSet ==
    /\ Call({"set"})
    /\ frames' = Append(frames, FrameOf("set", cur, 1, 0))
    /\ encoders' = Append(encoders, NewEncoder(E.out, TRUE))
    /\ cur' = Nobody
    /\ UNCHANGED <<root, buf, res>>

\* The closure: the next field, and whether it is one of the extension root
AtField(ext) == /\ Resume(Constructed) /\ F.next <= Len(FieldsOf(F.node))
                /\ FieldsOf(F.node)[F.next].ext = ext
FieldHere == Child[F.node][F.next]
Presence(bit) == IF FieldsOf(F.node)[F.next].opt THEN Append(F.root_bitfield, bit)
                 ELSE F.root_bitfield
UpdateFrame(f) == frames' = [frames EXCEPT ![Len(frames)] = f]

\* encode, encode_some, encode_default, with set_presence
EncodeField ==
    /\ AtField(FALSE) /\ FieldHere # Absent
    /\ UpdateFrame([F EXCEPT !.next = @ + 1, !.root_bitfield = Presence(TRUE)])
    /\ cur' = Component(F.node, F.next)
    /\ UNCHANGED <<root, encoders, buf, res>>

\* encode_none
EncodeNone ==
    /\ AtField(FALSE) /\ FieldHere = Absent
    /\ UpdateFrame([F EXCEPT !.next = @ + 1, !.root_bitfield = Presence(FALSE)])
    /\ UNCHANGED <<root, cur, encoders, buf, res>>

\* extension_bitmap_reserve, when no position is kept yet
Reserved(out) == IF F.bitmap = 0 THEN out \o Zeros(BitmapTotal(FrameType(F))) ELSE out

\* encode_extension_addition and encode_extension_addition_group of a value
\* that is there: exchange the buffers
EncodeAddition ==
    /\ AtField(TRUE) /\ FieldHere # Absent
    /\ buf' = [buf EXCEPT ![E.out] = Reserved(@)]
    /\ frames' = Append([frames EXCEPT ![Len(frames)] =
                            [@ EXCEPT !.next = @ + 1,
                                      !.bitmap = IF @ = 0 THEN Len(Output) ELSE @]],
                        FrameOf("addition", Component(F.node, F.next), 1, Len(Reserved(Output))))
    /\ encoders' = Append(encoders, NewEncoder(Worker(E), E.set))
    /\ cur' = Component(F.node, F.next)
    /\ UNCHANGED <<root, res>>

EncodeNoAddition ==
    /\ AtField(TRUE) /\ FieldHere = Absent
    /\ UpdateFrame([F EXCEPT !.next = @ + 1, !.extension_bitfield = Append(@, FALSE)])
    /\ UNCHANGED <<root, cur, encoders, buf, res>>

\* The end of it: cut the outer buffer back, append length and value
CloseAddition ==
    /\ Resume({"addition"})
    /\ buf' = [buf EXCEPT ![Worker(E)] = Truncate(@, F.mark) \o LengthOctets(Len(Output)) \o Output,
                          ![E.out] = << >>]
    /\ frames' = [Front(frames) EXCEPT ![Len(frames) - 1].extension_bitfield = Append(@, TRUE)]
    /\ encoders' = Front(encoders)
    /\ UNCHANGED <<root, cur, res>>

-----------------------------------------------------------------------------

\* encode_constructed.  The bits of a SET are sorted by the tags of its fields.
OptFields(t) == SelectSeq(Fields[t], LAMBDA f : f.opt /\ ~f.ext)
Rank(t, i) == Cardinality({j \in 1..Len(OptFields(t)) : OptFields(t)[j].tag < OptFields(t)[i].tag})
Sorted(t, bits) == [k \in 1..Len(bits) |-> bits[CHOOSE i \in 1..Len(bits) : Rank(t, i) = k - 1]]

ExtensionsPresent == \E i \in 1..Len(F.extension_bitfield) : F.extension_bitfield[i]
Preamble == LET t == FrameType(F)
                bits == IF F.call = "set" THEN Sorted(t, F.root_bitfield) ELSE F.root_bitfield
            IN  Pack(IF Extensible[t] THEN <<ExtensionsPresent>> \o bits ELSE bits)

\* Mutant of WithPreamble: the preamble goes to the start of the buffer
WithPreambleAtStart(out) == Replace(out, 0, Preamble)

WithPreamble(out) ==
    CASE PreambleWidth(FrameType(F)) = 0 -> out
      [] PreambleWidth(FrameType(F)) > 0 /\ RootCount(FrameType(F)) = 0 ->
            Append(out, IF ExtensionsPresent THEN 128 ELSE 0)
      [] PreambleWidth(FrameType(F)) > 0 /\ RootCount(FrameType(F)) > 0 /\ F.call = "set" -> out \o Preamble
      [] OTHER -> Replace(out, F.mark, Preamble)
PreambleFits == IF F.call = "set" THEN TRUE
                ELSE RootCount(FrameType(F)) > 0 => Fits(Output, F.mark, Preamble)

\* The length of the bitmap is written to the end of the worker, and all of the
\* worker copied
Bitmap == buf[Worker(E)] \o LengthOctets(BitmapWidth(FrameType(F))) \o <<MissingBits(FrameType(F))>>
            \o Pack(F.extension_bitfield)
BitmapFits == ExtensionsPresent => Fits(WithPreamble(Output), F.bitmap, Bitmap)

WithBitmap(out) == IF ExtensionsPresent THEN Replace(out, F.bitmap, Bitmap) ELSE out

\* collect_set: set_output in the order of the tags
Collected(e) ==
    LET upTo[k \in -1..62] == IF k = -1 THEN << >>
                              ELSE upTo[k - 1] \o (IF k \in Tag THEN e.set_output[k] ELSE << >>)
    IN  upTo[62]

\* The end of encode_sequence and encode_set.  If the outer encoder is that of a
\* SET, the output goes to its map; the components of an inner SET come after.
CloseConstructed ==
    /\ Resume(Constructed) /\ F.next > Len(FieldsOf(F.node))
    /\ PreambleFits /\ BitmapFits
    /\ LET out == WithBitmap(WithPreamble(Output))
           outer == encoders[Len(encoders) - 1]
           kept == (IF outer.set THEN << >> ELSE out)
                        \o (IF F.call = "set" THEN Collected(E) ELSE << >>)
       IN  /\ buf' = [buf EXCEPT ![E.out] = kept,
                                 ![Worker(E)] = IF ExtensionsPresent THEN << >> ELSE @]
           /\ encoders' = IF outer.set
                          THEN [Front(encoders) EXCEPT ![Len(encoders) - 1].set_output[F.tag] = out]
                          ELSE Front(encoders)
    /\ frames' = Front(frames)
    /\ UNCHANGED <<root, cur, res>>

\* A slice index out of range
Panic ==
    /\ Resume(Constructed) /\ F.next > Len(FieldsOf(F.node))
    /\ ~(PreambleFits /\ BitmapFits)
    /\ res' = "panic"
    /\ UNCHANGED <<root, cur, frames, encoders, buf>>

\* encode_sequence_of, encode_set_of: the quantity, and an encoder for all items
EncodeList ==
    /\ Call({"list"})
    /\ buf' = [buf EXCEPT ![E.out] = @ \o <<1, Len(Child[cur.node])>>]
    /\ frames' = Append(frames, FrameOf("list", cur, 1, 0))
    /\ encoders' = Append(encoders, NewEncoder(E.out, E.set))
    /\ cur' = Nobody
    /\ UNCHANGED <<root, res>>

EncodeItem ==
    /\ Resume({"list"}) /\ F.next <= Len(Child[F.node])
    /\ UpdateFrame([F EXCEPT !.next = @ + 1])
    /\ cur' = [node |-> Child[F.node][F.next], tag |-> FieldsOf(F.node)[1].tag]
    /\ UNCHANGED <<root, encoders, buf, res>>

CloseList ==
    /\ Resume({"list"}) /\ F.next > Len(Child[F.node])
    /\ Extend(Front(encoders), buf, Output, F.tag)
    /\ frames' = Front(frames)
    /\ UNCHANGED <<root, cur, res>>

\* encode_choice: the tag, then the alternative with the same encoder
Variant(n) == FieldsOf(n)[Alt[n]]

EncodeChoice ==
    /\ Call({"choice"})
    /\ buf' = [buf EXCEPT ![E.out] = Append(@, 128 + Variant(cur.node).tag)]
    /\ frames' = Append(frames, FrameOf("choice", [node |-> cur.node, tag |-> Variant(cur.node).tag],
                                        2, Len(Output) + 1))
    /\ cur' = [node |-> Child[cur.node][1], tag |-> Variant(cur.node).tag]
    /\ UNCHANGED <<root, encoders, res>>

\* An extended alternative is moved to the end of the worker, and everything
\* there back behind its length.  In a SET the output may have been taken: then
\* split_off panics.
CloseChoice ==
    /\ Resume({"choice"})
    /\ Variant(F.node).ext => F.mark <= Len(Output)
    /\ LET moved == buf[Worker(E)] \o SubSeq(Output, F.mark + 1, Len(Output))
           out == IF Variant(F.node).ext
                  THEN SubSeq(Output, 1, F.mark) \o LengthOctets(Len(moved)) \o moved
                  ELSE Output
           emptied == IF Variant(F.node).ext THEN [buf EXCEPT ![Worker(E)] = << >>] ELSE buf
       IN  Extend(encoders, emptied, out, F.tag)
    /\ frames' = Front(frames)
    /\ UNCHANGED <<root, cur, res>>

PanicChoice ==
    /\ Resume({"choice"}) /\ Variant(F.node).ext /\ F.mark > Len(Output)
    /\ res' = "panic"
    /\ UNCHANGED <<root, cur, frames, encoders, buf>>

Finish ==
    /\ res = "run" /\ cur.node = Absent /\ frames = << >>
    /\ res' = "ok"
    /\ UNCHANGED <<root, cur, frames, encoders, buf>>

Step == \/ EncodePrimitive
        \/ EncodeSequence \/ EncodeSet \/ EncodeField \/ EncodeNone
        \/ EncodeAddition \/ EncodeNoAddition \/ CloseAddition
        \/ CloseConstructed \/ Panic
        \/ EncodeList \/ EncodeItem \/ CloseList
        \/ EncodeChoice \/ CloseChoice \/ PanicChoice
        \/ Finish

Stop == res # "run" /\ UNCHANGED vars

Next == Step \/ Stop
Spec == Init /\ [][Next]_vars

-----------------------------------------------------------------------------

TypeOK ==
    /\ root \in Roots
    /\ cur \in [node : Node \cup {Absent}, tag : Tag]
    /\ frames \in Seq(Frame)
    /\ encoders \in Seq(Encoder) /\ encoders # << >>
    /\ buf \in [1..2 -> Seq(Octet)]
    /\ res \in {"run", "ok", "panic"}
====
