------------------------------ MODULE OerCodec -------------------------------
(***************************************************************************)
(* COER from end to end: coer::encode of a value (OerEncoder), and         *)
(* coer::decode of the octets (OerDecoder) as the same type or as another  *)
(* version of it, with fewer or with more extension additions.             *)
(***************************************************************************)
EXTENDS OerDecoder

CONSTANTS
    Node, TypeOf, Child, Alt, Roots, Tag,       \* OerEncoder
    Versions,       \* Versions[t]: the types a value of type t may be read as
    ReadAs          \* the types that the Inputs are read as

ASSUME OerNodesAssumption ==
    /\ TypeOf \in [Node -> Type]
    /\ Child \in [Node -> Seq(Node \cup {Absent})]
    /\ Alt \in [Node -> Octet]
    /\ Absent \notin Node
    /\ Roots \subseteq Node
    /\ \A n \in Node :
        CASE Kind[TypeOf[n]] = "primitive" -> Child[n] = << >>
          [] Kind[TypeOf[n]] = "list" -> \A i \in 1..Len(Child[n]) : Child[n][i] \in Node
          [] Kind[TypeOf[n]] = "choice" -> /\ Len(Child[n]) = 1
                                           /\ Child[n][1] \in Node
                                           /\ Alt[n] \in 1..Len(Fields[TypeOf[n]])
          [] OTHER -> Len(Child[n]) = Len(Fields[TypeOf[n]])
ASSUME OerFieldsAssumption ==
    /\ Tag \subseteq 0..62
    /\ \A t \in Type : \A i \in 1..Len(Fields[t]) :
            /\ Fields[t][i].tag \in Tag
            \* additions come last, and need the extension marker
            /\ Fields[t][i].ext => /\ Extensible[t]
                                   /\ \A j \in i..Len(Fields[t]) : Fields[t][j].ext
    \* the lengths that are reserved for take one octet
    /\ \A t \in Type : Len(Fields[t]) < 100
ASSUME OerVersionsAssumption ==
    /\ ReadAs \subseteq Type
    /\ Versions \in [Type -> SUBSET Type]
    \* versions have the extension root in common, and the first additions
    /\ \A t \in Type : \A v \in Versions[t] :
            /\ Kind[v] = Kind[t] /\ Extensible[v] = Extensible[t]
            /\ RootFields(v) = RootFields(t)
            /\ \A i \in 1..Len(Fields[t]) : i <= Len(Fields[v]) => Fields[v][i] = Fields[t][i]

VARIABLES root, cur, frames, encoders, buf, res         \* OerEncoder

Enc == INSTANCE OerEncoder

encoder == <<root, cur, frames, encoders, buf, res>>
everything == <<encoder, vars>>

\* encode() of a value, or decode() of octets that come from elsewhere
EncodeInit == /\ Enc!Init
              /\ input = << >> /\ calls = << >> /\ goal = Absent
              /\ value = Absent /\ status = "idle"
DecodeInit == /\ Init /\ goal \in ReadAs
              /\ root = Absent /\ cur = Absent /\ frames = << >> /\ encoders = << >>
              /\ buf = << >> /\ res = "idle"

Encode == Enc!Step /\ UNCHANGED vars

\* encode() returned; decode() of what it returned, as the type v
Begin == /\ res = "ok" /\ status = "idle"
         /\ \E v \in Versions[TypeOf[root]] :
                /\ goal' = v
                /\ calls' = Outermost(v, Len(buf[1]))
         /\ input' = buf[1]
         /\ status' = "run"
         /\ UNCHANGED <<encoder, value>>

Decode == Step /\ UNCHANGED encoder

Ended == IF status = "idle" THEN res = "panic" ELSE status # "run"
CodecStop == Ended /\ UNCHANGED everything

CodecInit == EncodeInit \/ DecodeInit
CodecNext == Encode \/ Begin \/ Decode \/ CodecStop
CodecSpec == CodecInit /\ [][CodecNext]_everything

-----------------------------------------------------------------------------

\* The encoding a value should have, from the value alone
Present(n) == {i \in 1..Len(Child[n]) : Child[n][i] # Absent}

\* The positions of the fields in s: as declared, those of a SET by their tags
InOrder(n, s) ==
    LET Precedes(i, j) == IF Enc!KindOf(n) = "set" THEN Enc!FieldsOf(n)[i].tag < Enc!FieldsOf(n)[j].tag
                          ELSE i < j
    IN  [k \in 1..Cardinality(s) |->
            CHOOSE i \in s : Cardinality({j \in s : Precedes(j, i)}) = k - 1]

Flat(ss) ==
    LET upTo[k \in 0..Len(ss)] == IF k = 0 THEN << >> ELSE upTo[k - 1] \o ss[k]
    IN  upTo[Len(ss)]
Bits(n, s) == [k \in 1..Cardinality(s) |-> InOrder(n, s)[k] \in Present(n)]
RootSet(n) == {i \in 1..Len(Enc!FieldsOf(n)) : ~Enc!FieldsOf(n)[i].ext}
ExtSet(n) == 1..Len(Enc!FieldsOf(n)) \ RootSet(n)
OptSet(n) == {i \in RootSet(n) : Enc!FieldsOf(n)[i].opt}
Sized(s) == Enc!LengthOctets(Len(s)) \o s

RECURSIVE Octets(_)
Octets(n) ==
    LET each(s) == Flat([k \in 1..Cardinality(s) |-> Octets(Child[n][InOrder(n, s)[k]])])
        sized(s) == Flat([k \in 1..Cardinality(s) |-> Sized(Octets(Child[n][InOrder(n, s)[k]]))])
        extended == ExtSet(n) \cap Present(n)
        marker == IF Extensible[TypeOf[n]] THEN <<extended # {}>> ELSE << >>
        unused == (8 - (Cardinality(ExtSet(n)) % 8)) % 8
    IN  CASE Enc!KindOf(n) = "primitive" -> <<Alt[n]>>
          [] Enc!KindOf(n) = "list" -> <<1, Len(Child[n])>> \o each(1..Len(Child[n]))
          [] Enc!KindOf(n) = "choice" ->
                <<128 + Enc!Variant(n).tag>>
                    \o (IF Enc!Variant(n).ext THEN Sized(Octets(Child[n][1])) ELSE Octets(Child[n][1]))
          [] OTHER -> Enc!Pack(marker \o Bits(n, OptSet(n)))
                        \o each(RootSet(n) \cap Present(n))
                        \o (IF extended = {} THEN << >>
                            ELSE Sized(<<unused>> \o Enc!Pack(Bits(n, ExtSet(n)))) \o sized(extended))

\* The values the encoder is made for.  An addition is encoded with the worker in
\* use: it has no additions and no extended alternatives of its own.  A SET is
\* not inside another value, except as an addition, and has no additions, lists or
\* CHOICEs.  An extensible SEQUENCE has a field in the extension root.
RECURSIVE Supported(_, _, _)
Supported(n, extended, alone) ==
    LET t == TypeOf[n]
        Sub(i) == Child[n][i] = Absent
                    \/ Supported(Child[n][i], extended \/ Enc!FieldsOf(n)[i].ext, Enc!FieldsOf(n)[i].ext)
    IN  CASE Kind[t] = "primitive" -> TRUE
          [] Kind[t] = "list" -> \A i \in 1..Len(Child[n]) : Supported(Child[n][i], extended, FALSE)
          [] Kind[t] = "choice" -> /\ ~(extended /\ Enc!Variant(n).ext)
                                   /\ Supported(Child[n][1], extended, FALSE)
          [] Kind[t] = "set" -> /\ alone
                                /\ Enc!ExtCount(t) = 0
                                /\ \A i \in Present(n) : Enc!KindOf(Child[n][i]) \in {"primitive", "sequence"}
                                /\ \A i \in 1..Len(Child[n]) : Sub(i)
          [] OTHER -> /\ Extensible[t] => Enc!RootCount(t) > 0
                      /\ extended => ExtSet(n) \cap Present(n) = {}
                      /\ \A i \in 1..Len(Child[n]) : Sub(i)

\* The value as read with version v: additions v does not know are dropped,
\* additions the writer did not know are absent.
RECURSIVE Copy(_), Depth(_)
Copy(n) == IF n = Absent THEN Absent
           ELSE Decoded(TypeOf[n], IF Enc!KindOf(n) \in {"primitive", "choice"} THEN Alt[n] ELSE 0,
                            [i \in 1..Len(Child[n]) |-> Copy(Child[n][i])])
Seen(n, v) == IF Enc!KindOf(n) \in Constructed THEN 1..Len(Fields[v]) ELSE 1..Len(Child[n])
ViewChild(n, v) == [i \in Seen(n, v) |-> IF i <= Len(Child[n]) THEN Child[n][i] ELSE Absent]
View(n, v) == [Copy(n) EXCEPT !.type = v, !.child = [i \in Seen(n, v) |-> Copy(ViewChild(n, v)[i])]]

Highest(s) == CHOOSE k \in s \cup {0} : \A j \in s : j <= k
Depth(n) == IF n = Absent THEN 0
            ELSE IF Enc!KindOf(n) = "primitive" THEN 0
            ELSE 1 + Highest({Depth(Child[n][i]) : i \in 1..Len(Child[n])})
ViewDepth(n, v) == IF Enc!KindOf(n) = "primitive" THEN 0
                   ELSE 1 + Highest({Depth(ViewChild(n, v)[i]) : i \in Seen(n, v)})

\* The reasons there may be to refuse the encoding of n as a v
Missing(n, v) == Enc!KindOf(n) \in Constructed
                    /\ \E i \in Seen(n, v) : ViewChild(n, v)[i] = Absent /\ ~Fields[v][i].opt
Refusals(n, v) == {e \in {"depth", "variant", "required"} :
                     CASE e = "depth" -> ViewDepth(n, v) > MaxDepth
                       [] e = "variant" -> Enc!KindOf(n) = "choice" /\ Alt[n] > Len(Fields[v])
                       [] e = "required" -> Missing(n, v)}

\* A value is encoded without a panic and to the octets the rules prescribe,
\* whatever is nested in what: every reserved preamble and bitmap is filled in at
\* its place, and nothing is left in the other buffer; on the way there all state
\* has its type.
EncodesCanonically ==
    /\ root # Absent => Enc!TypeOK
    /\ (res # "run" /\ status = "idle" /\ Supported(root, FALSE, TRUE)) =>
          res = "ok" /\ buf[1] = Octets(root) /\ buf[2] = << >>

\* The same of all values, as the README's claim of COER support has it.
AlwaysCanonical == (res # "run" /\ status = "idle") => res = "ok" /\ buf[1] = Octets(root)

\* What was encoded is decoded by every version of the type: all components that
\* the version knows are the ones that were encoded, all others are absent, and
\* it fails only for an alternative it does not know, an addition it requires, or
\* a value nested deeper than the limit.
VersionsAgree ==
    (res = "ok" /\ status \notin {"idle", "run"} /\ Supported(root, FALSE, TRUE)) =>
        LET v == calls[1].type
        IN  IF Refusals(root, v) # {} THEN status \in Refusals(root, v)
            ELSE /\ status = "ok"
                 /\ value = View(root, v)
                 /\ Len(calls) = 1
                 /\ v = TypeOf[root] => calls[1].pos = Len(input) + 1
====
