------------------------------ MODULE PerCodec -------------------------------
(***************************************************************************)
(* UPER and APER from end to end: encode() of a value (PerEncoder), and    *)
(* decode() of the bits (PerDecoder) as the same type or as another        *)
(* version of it, with fewer or with more extension additions.             *)
(***************************************************************************)
EXTENDS PerDecoder

CONSTANTS
    Node, TypeOf, Child, Alt, Roots, Tag,       \* PerEncoder
    Versions,       \* Versions[t]: the types a value of type t may be read as
    ReadAs          \* the types that the Inputs are read as

ASSUME PerNodesAssumption ==
    /\ TypeOf \in [Node -> Type]
    /\ Child \in [Node -> Seq(Node \cup {Absent})]
    /\ Alt \in [Node -> 0..255]
    /\ Absent \notin Node
    /\ Roots \subseteq Node
    /\ \A n \in Node :
        LET t == TypeOf[n]
        IN  CASE Kind[t] = "primitive" -> Child[n] = << >> /\ Alt[n] < 2^Bound[t]
              [] Kind[t] = "list" ->
                    /\ \A i \in 1..Len(Child[n]) : Child[n][i] \in Node
                    /\ Bound[t] = 0 \/ Extensible[t] \/ Len(Child[n]) <= Bound[t]
              [] Kind[t] = "choice" -> /\ Len(Child[n]) = 1
                                       /\ Child[n][1] \in Node
                                       /\ Alt[n] \in 1..Len(Fields[t])
              [] OTHER -> Len(Child[n]) = Len(Fields[t])
ASSUME PerFieldsAssumption ==
    /\ Tag \subseteq Nat
    \* additions come last, and need the extension marker; [[ ]] is an addition
    /\ \A t \in Type : \A i \in 1..Len(Fields[t]) :
            /\ Fields[t][i].tag \in Tag
            /\ Fields[t][i].ext => /\ Extensible[t]
                                   /\ \A j \in i..Len(Fields[t]) : Fields[t][j].ext
            /\ Fields[t][i].group => Fields[t][i].ext /\ Kind[Fields[t][i].type] = "sequence"
    \* the number of additions is a normally small length of less than 64
    /\ \A t \in Type : Len(Fields[t]) < 64
    /\ \A t \in Type : Kind[t] = "list" => (Extensible[t] => Bound[t] > 0)
ASSUME PerVersionsAssumption ==
    /\ ReadAs \subseteq Type
    /\ Versions \in [Type -> SUBSET Type]
    \* versions have the extension root in common, and the first additions
    /\ \A t \in Type : \A v \in Versions[t] :
            /\ Kind[v] = Kind[t] /\ Extensible[v] = Extensible[t] /\ Bound[v] = Bound[t]
            /\ RootFields(v) = RootFields(t)
            /\ \A i \in 1..Len(Fields[t]) : i <= Len(Fields[v]) => Fields[v][i] = Fields[t][i]

VARIABLES root, cur, frames, encoders, res              \* PerEncoder

Enc == INSTANCE PerEncoder

encoder == <<root, cur, frames, encoders, res>>
decoder == <<input, calls, goal, value, status>>
everything == <<aligned, encoder, decoder>>

\* encode() of a value, or decode() of bits that come from elsewhere
EncodeInit == /\ Enc!Init
              /\ input = << >> /\ calls = << >> /\ goal = Absent
              /\ value = Absent /\ status = "idle"
DecodeInit == /\ Init /\ goal \in ReadAs
              /\ root = Absent /\ cur = Absent /\ frames = << >> /\ encoders = << >>
              /\ res = "idle"

Encode == Enc!Step /\ UNCHANGED decoder

\* encode() returned; decode() of what it returned, as the type v
Begin == /\ res = "ok" /\ status = "idle"
         /\ \E v \in Versions[TypeOf[root]] :
                /\ goal' = v
                /\ calls' = Outermost(v, Len(Enc!Encoded))
         /\ input' = Enc!Encoded
         /\ status' = "run"
         /\ UNCHANGED <<aligned, encoder, value>>

Decode == Step /\ UNCHANGED encoder

CodecStop == status \notin {"idle", "run"} /\ UNCHANGED everything

CodecInit == EncodeInit \/ DecodeInit
CodecNext == Encode \/ Begin \/ Decode \/ CodecStop
CodecSpec == CodecInit /\ [][CodecNext]_everything

-----------------------------------------------------------------------------

KindOf(n) == Kind[TypeOf[n]]
FieldsOf(n) == Fields[TypeOf[n]]
Variant(n) == FieldsOf(n)[Alt[n]]
RootCount(t) == Cardinality(RootFields(t))

\* The bits a value should have, from the value and its position alone.  A group of
\* additions none of which is there is not there itself.
Blank(n) == \A i \in 1..Len(Child[n]) : Child[n][i] = Absent
Kept(n) == [i \in 1..Len(Child[n]) |->
              IF KindOf(n) \in Constructed /\ Child[n][i] # Absent
              THEN IF FieldsOf(n)[i].group /\ Blank(Child[n][i]) THEN Absent ELSE Child[n][i]
              ELSE Child[n][i]]
Present(n) == {i \in 1..Len(Child[n]) : Kept(n)[i] # Absent}

\* The positions of the fields in s: as declared, those of a SET by their tags
InOrder(n, s) ==
    LET Precedes(i, j) == IF KindOf(n) = "set" THEN FieldsOf(n)[i].tag < FieldsOf(n)[j].tag
                          ELSE i < j
    IN  [k \in 1..Cardinality(s) |->
            CHOOSE i \in s : Cardinality({j \in s : Precedes(j, i)}) = k - 1]
PresenceBits(n, s) == [k \in 1..Cardinality(s) |-> BitOf(InOrder(n, s)[k] \in Present(n))]
RootSet(n) == {i \in 1..Len(FieldsOf(n)) : ~FieldsOf(n)[i].ext}
ExtSet(n) == 1..Len(FieldsOf(n)) \ RootSet(n)
OptSet(n) == {i \in RootSet(n) : FieldsOf(n)[i].opt}

\* What an encoding consists of: bits, bits on an octet boundary, the encoding of a
\* component, and a component in octets of its own behind their length
Piece(kind, bits, n) == [kind |-> kind, bits |-> bits, node |-> n]
Fixed(bits) == Piece("fixed", bits, Absent)
OnOctet(bits) == Piece("octet", bits, Absent)
Part(n) == Piece("part", << >>, n)
OpenType(n) == Piece("open", << >>, n)

Pieces(n) ==
    LET t == TypeOf[n]
        Marker(b) == IF Extensible[t] THEN <<Fixed(<<BitOf(b)>>)>> ELSE << >>
        Those(s, P(_)) == [k \in 1..Cardinality(s) |-> P(Child[n][InOrder(n, s)[k]])]
        extended == ExtSet(n) \cap Present(n)
        header == SmallInteger(Cardinality(ExtSet(n)) - 1) \o PresenceBits(n, ExtSet(n))
        size == Len(Child[n])
        within == size <= Bound[t]
    IN  CASE Kind[t] = "primitive" ->
                <<IF Bound[t] = 8 THEN OnOctet(Binary(Alt[n], 8))
                  ELSE Fixed(Binary(Alt[n], Bound[t]))>>
          [] Kind[t] = "list" ->
                Marker(~within)
                    \o <<IF Bound[t] > 0 /\ within THEN Fixed(Binary(size, Log2(Bound[t] + 1)))
                         ELSE OnOctet(LengthBits(size))>>
                    \o [k \in 1..size |-> Part(Child[n][k])]
          [] Kind[t] = "choice" ->
                Marker(Variant(n).ext)
                    \o (IF Variant(n).ext
                        THEN <<Fixed(SmallInteger(Alt[n] - RootCount(t) - 1)), OpenType(Child[n][1])>>
                        ELSE <<Fixed(Binary(Alt[n] - 1, Log2(RootCount(t)))), Part(Child[n][1])>>)
          [] OTHER ->
                Marker(extended # {}) \o <<Fixed(PresenceBits(n, OptSet(n)))>>
                    \o Those(RootSet(n) \cap Present(n), Part)
                    \o (IF extended = {} THEN << >> ELSE <<Fixed(header)>> \o Those(extended, OpenType))

PaddingAt(at) == IF aligned THEN Zeros((8 - (at % 8)) % 8) ELSE << >>
SizedOctets(octets) == LengthBits(Len(octets) \div 8) \o octets

\* The bits of n if the first one is at `at`
RECURSIVE Bits(_, _)
Bits(n, at) ==
    LET pieces == Pieces(n)
        One(x, p) == LET inner == Bits(x.node, IF x.kind = "open" THEN 0 ELSE p)
                     IN  CASE x.kind = "fixed" -> x.bits
                           [] x.kind = "octet" -> PaddingAt(p) \o x.bits
                           [] x.kind = "part" -> inner
                           [] x.kind = "open" -> PaddingAt(p) \o SizedOctets(OpenOctets(inner))
        upTo[k \in 0..Len(pieces)] ==
            IF k = 0 THEN << >> ELSE upTo[k - 1] \o One(pieces[k], at + Len(upTo[k - 1]))
    IN  upTo[Len(pieces)]

-----------------------------------------------------------------------------

\* The values the codec is made for.  The presence bits of a SET are read in the
\* order of the declaration, and the components stored by tag, where that of a
\* CHOICE is the tag of the alternative.  A list is not longer than its extensible
\* size constraint says.  An addition has at least one bit.
InTagOrder(t, s) == \A i, j \in s : i < j => Fields[t][i].tag < Fields[t][j].tag
Unmixed(n) ==
    /\ InTagOrder(TypeOf[n], IF aligned THEN RootSet(n) ELSE OptSet(n))
    /\ \A i \in Present(n) : KindOf(Child[n][i]) # "choice"

\* In the aligned variant the encoder knows its position in a SEQUENCE; in a CHOICE
\* and in the items of a list only if they begin on an octet boundary (`fresh`).
Regular(n, fresh) ==
    LET t == TypeOf[n]
    IN  CASE Kind[t] = "list" -> Bound[t] = 0 \/ (~aligned /\ Len(Child[n]) <= Bound[t])
          [] Kind[t] = "choice" -> aligned => fresh /\ ~Variant(n).ext
          [] Kind[t] = "set" -> Unmixed(n)
          [] OTHER -> TRUE
RegularPart(n, i) ==
    LET width == Len(Bits(Child[n][i], 0))
    IN  CASE KindOf(n) \in Constructed ->
                FieldsOf(n)[i].ext => width > 0 /\ ~(aligned /\ FieldsOf(n)[i].group)
          [] KindOf(n) = "list" -> aligned /\ i < Len(Child[n]) => width % 8 = 0
          [] OTHER -> TRUE
FreshPart(n, i) == CASE KindOf(n) \in Constructed -> FieldsOf(n)[i].ext
                     [] KindOf(n) = "list" -> TRUE
                     [] OTHER -> FALSE
RECURSIVE Supported(_, _)
Supported(n, fresh) ==
    /\ Regular(n, fresh)
    /\ \A i \in Present(n) : RegularPart(n, i) /\ Supported(Child[n][i], FreshPart(n, i))

\* The value as read with version v: additions v does not know are dropped,
\* additions the writer did not know are absent.
RECURSIVE Copy(_), Depth(_)
Copy(n) == IF n = Absent THEN Absent
           ELSE Decoded(TypeOf[n], IF KindOf(n) \in {"primitive", "choice"} THEN Alt[n] ELSE 0,
                            [i \in 1..Len(Child[n]) |-> Copy(Kept(n)[i])])
Seen(n, v) == IF KindOf(n) \in Constructed THEN 1..Len(Fields[v]) ELSE 1..Len(Child[n])
ViewChild(n, v) == [i \in Seen(n, v) |-> IF i <= Len(Child[n]) THEN Kept(n)[i] ELSE Absent]
View(n, v) == [Copy(n) EXCEPT !.type = v, !.child = [i \in Seen(n, v) |-> Copy(ViewChild(n, v)[i])]]

Highest(s) == CHOOSE k \in s \cup {0} : \A j \in s : j <= k
Depth(n) == IF n = Absent THEN 0
            ELSE IF KindOf(n) = "primitive" THEN 0
            ELSE 1 + Highest({Depth(Kept(n)[i]) : i \in 1..Len(Child[n])})
ViewDepth(n, v) == IF KindOf(n) = "primitive" THEN 0
                   ELSE 1 + Highest({Depth(ViewChild(n, v)[i]) : i \in Seen(n, v)})

\* The reasons there may be to refuse the encoding of n as a v
NeedsMore(n, v) == KindOf(n) \in Constructed
                    /\ \E i \in Seen(n, v) : ViewChild(n, v)[i] = Absent /\ ~Fields[v][i].opt
Refusals(n, v) == {e \in {"depth", "variant", "required"} :
                     CASE e = "depth" -> ViewDepth(n, v) > MaxDepth
                       [] e = "variant" -> KindOf(n) = "choice" /\ Alt[n] > Len(Fields[v])
                       [] e = "required" -> NeedsMore(n, v)}

\* Every nested encoder belongs to a call under way (TypeOK), so that none is lost
\* or left over; and a value gets the bits the rules prescribe, whatever is nested in what: preambles
\* and bitmaps come before components that were encoded earlier, and in the aligned
\* variant everything is padded for the place where it ends up.
PacksCanonically ==
    /\ root # Absent => Enc!TypeOK
    /\ (res = "ok" /\ status = "idle" /\ Supported(root, TRUE)) =>
          Enc!Output(encoders[1]) = Bits(root, 0)

\* What was encoded is decoded by every version of the type: all components that
\* the version knows are the ones that were encoded, all others are absent, and it
\* fails only for an alternative it does not know, an addition it requires, or a
\* value nested deeper than the limit.  The same version stops at the last bit.
Agreed == LET v == calls[1].type
          IN  IF Refusals(root, v) # {} THEN status \in Refusals(root, v)
              ELSE /\ status = "ok"
                   /\ value = View(root, v)
                   /\ v = TypeOf[root] => calls[1].pos = Len(Bits(root, 0)) + 1
ReadersAgree == (res = "ok" /\ status \notin {"idle", "run"} /\ Supported(root, TRUE)) => Agreed

\* The same of all values, as src/aper.rs and src/uper.rs promise for every value.
ReadersAlwaysAgree == (res = "ok" /\ status \notin {"idle", "run"}) => Agreed
====
