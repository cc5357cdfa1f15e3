----------------------------- MODULE OerDecoder ------------------------------
(***************************************************************************)
(* The decoder of the octet encoding rules (src/src/oer/de.rs), with the   *)
(* canonical rules (coer::decode), driven by the calls that                *)
(* #[derive(Decode)] makes for a type.  The octets need not be an encoding *)
(* of the type, or of anything.                                            *)
(*                                                                         *)
(* A SEQUENCE makes a decoder of its own on the rest of the input and      *)
(* hands back where that one stopped.  The value of an extension addition, *)
(* and of an extended alternative, is cut out first and decoded alone.     *)
(* The extension bitmap is read when the first addition is asked for.      *)
(***************************************************************************)
EXTENDS CallStack

CONSTANT Inputs         \* the octets given to decode

Octet == 0..255
TypeKind == Constructed \cup {"primitive", "list", "choice"}
FieldDef == [type : Type, tag : Nat, opt : BOOLEAN, ext : BOOLEAN]

ASSUME OerTypesAssumption ==
    /\ Kind \in [Type -> TypeKind]
    /\ Fields \in [Type -> Seq(FieldDef)]
    /\ Extensible \in [Type -> BOOLEAN]
    /\ \A t \in Type : Kind[t] = "list" => Len(Fields[t]) = 1
    \* the tags of a SET are distinct; its extension additions are not modelled
    /\ \A t \in Type : Kind[t] = "set" =>
            \A i, j \in 1..Len(Fields[t]) :
                ~Fields[t][i].ext /\ (i # j => Fields[t][i].tag # Fields[t][j].tag)
    /\ Absent \notin Type
    /\ MaxDepth \in Nat
    \* lengths are in the short form
    /\ \A s \in Inputs : s \in Seq(Octet) /\ Len(s) < 128

VARIABLES
    input,          \* the octets
    calls,          \* the calls under way, the outermost first
    goal,           \* the type whose `decode` is called next, or Absent
    value,          \* the value decoded last
    status          \* "idle", "run", "ok" or the error

C == Top(calls)
SetCall(c) == calls' = [calls EXCEPT ![Len(calls)] = c]
Fail(e) == status' = e /\ UNCHANGED <<input, calls, goal, value>>

ExtFields(t) == SelectSeq([i \in 1..Len(Fields[t]) |-> i], LAMBDA i : Fields[t][i].ext)

\* The bit with index i, from 0, of the octets from position p on
BitAt(p, i) == (input[p + i \div 8] \div 2^(7 - (i % 8))) % 2 = 1

\* decode_length and extract_data_by_length: where the contents begin and end.
\* The inputs are shorter than 128 octets, so that a length in the long form is
\* either not canonical or more than there is.
Short(p, end) == p <= end /\ input[p] < 128
Slice(p, end) == IF Short(p, end) THEN [ok |-> p + input[p] <= end, from |-> p + 1, to |-> p + input[p]]
                 ELSE [ok |-> FALSE, from |-> p, to |-> p]

Starting(kinds) == status = "run" /\ goal # Absent /\ Kind[goal] \in kinds
Going(kinds) == status = "run" /\ goal = Absent /\ C.call \in kinds

-----------------------------------------------------------------------------

\* A call returns v and where it stopped; its caller goes on from there, unless
\* the slice was cut out
Returns(v, pos, cs, own) ==
    /\ goal' = Absent
    /\ value' = v
    /\ UNCHANGED input
    /\ LET c == Top(cs)
           caller == [c EXCEPT !.got = Append(@, v), !.pos = IF own THEN @ ELSE pos]
       IN  /\ calls' = [cs EXCEPT ![Len(cs)] = caller]
           /\ status' = IF c.call = "root" THEN "ok" ELSE status

\* decode_bool, decode_integer, the strings...  The decoder of the caller is used,
\* except behind a length
DecodePrimitive ==
    /\ Starting({"primitive"})
    /\ IF C.pos > C.end THEN Fail("end")
       ELSE IF C.call = "addition" THEN Returns(Decoded(goal, input[C.pos], << >>), 0, calls, TRUE)
       ELSE Returns(Decoded(goal, input[C.pos], << >>), C.pos + 1, calls, FALSE)

\* Mutant of PresentBits: the bit of the extension marker is not skipped
PresentBitsUnshifted(t, p) == [k \in 1..Cardinality(OptFields(t)) |-> BitAt(p, k - 1)]

\* parse_preamble
PreambleBits(t) == Cardinality(OptFields(t)) + (IF Extensible[t] THEN 1 ELSE 0)
PreambleEnd(t, p) == p + ((PreambleBits(t) + 7) \div 8)
PresentBits(t, p) ==
    [k \in 1..Cardinality(OptFields(t)) |-> BitAt(p, k - 1 + (IF Extensible[t] THEN 1 ELSE 0))]
UnusedBits(t, p) == {i \in PreambleBits(t)..(8 * (PreambleEnd(t, p) - p) - 1) : BitAt(p, i)}

\* The initial value, if every field has one: nothing of the input is read
IsDefault(t) == IF RootFields(t) = {} THEN TRUE
                ELSE Cardinality(RootFields(t)) = Cardinality(OptFields(t)) /\ C.pos > C.end
AllOptional(t) == \A i \in 1..Len(Fields[t]) : Fields[t][i].opt

DecodeConstructed ==
    /\ Starting(Constructed)
    /\ LET t == goal
           new == [CallOf(Kind[t], t, PreambleEnd(t, C.pos), C.end, C.depth - 1, FALSE)
                        EXCEPT !.present = PresentBits(t, C.pos),
                               !.extensions = IF Extensible[t] /\ BitAt(C.pos, 0)
                                              THEN "unread" ELSE "none",
                               !.order = DecodeOrder(t)]
       IN  IF Exceeds(C.depth) THEN Fail("depth")
           ELSE IF Kind[t] = "sequence" /\ IsDefault(t)
           THEN IF AllOptional(t)
                THEN Returns(Decoded(t, 0, [i \in 1..Len(Fields[t]) |-> Absent]), C.pos, calls, FALSE)
                ELSE Fail("end")
           ELSE IF PreambleEnd(t, C.pos) > C.end + 1 THEN Fail("end")
           ELSE IF UnusedBits(t, C.pos) # {} THEN Fail("preamble")
           ELSE /\ calls' = Append(calls, new)
                /\ goal' = Absent
                /\ UNCHANGED <<input, value, status>>

\* The next field of the extension root: decode, or decode_optional with
\* require_field; decode_set looks the presence up itself.
Here == C.order[Len(C.got) + 1]
PresentHere ==
    LET before == {k \in 1..(Len(C.got) + 1) : Fields[C.type][C.order[k]].opt}
    IN  Fields[C.type][Here].opt => C.present[Cardinality(before)]
AtField(ext) == Going(Constructed) /\ Len(C.got) < Len(C.order) /\ Fields[C.type][Here].ext = ext

DecodeField ==
    /\ AtField(FALSE) /\ PresentHere
    /\ goal' = Fields[C.type][Here].type
    /\ UNCHANGED <<input, calls, value, status>>

DecodeAbsent ==
    /\ AtField(FALSE) /\ ~PresentHere
    /\ SetCall([C EXCEPT !.got = Append(@, Absent)])
    /\ UNCHANGED <<input, goal, value, status>>

\* parse_extension_header.  Bits after the last octet are not set, bits for which
\* there is no field are not looked at.
HeaderBits(s, t) ==
    [k \in 1..Len(ExtFields(t)) |-> s.from + 1 + (k - 1) \div 8 <= s.to /\ BitAt(s.from + 1, k - 1)]
HeaderFault(s, t) ==
    IF ~s.ok THEN "end"
    ELSE IF s.to < s.from \/ input[s.from] > (IF s.to = s.from THEN 0 ELSE 7) THEN "header"
    ELSE IF \E k \in 1..Len(ExtFields(t)) : ~Fields[t][ExtFields(t)[k]].opt /\ ~HeaderBits(s, t)[k]
    THEN "required"
    ELSE "none"

ReadHeader ==
    /\ AtField(TRUE) /\ C.extensions = "unread"
    /\ LET s == Slice(C.pos, C.end)
       IN  IF HeaderFault(s, C.type) # "none" THEN Fail(HeaderFault(s, C.type))
           ELSE /\ SetCall([C EXCEPT !.extensions = "read", !.pos = s.to + 1,
                                     !.additions = HeaderBits(s, C.type)])
                /\ UNCHANGED <<input, goal, value, status>>

\* decode_extension_addition..., decode_extension_addition_group
AdditionIndex == Len(C.got) + 1 - Cardinality(RootFields(C.type))
AdditionPresent == C.extensions = "read" /\ C.additions[AdditionIndex]

\* Mutant of DecodeAddition: the caller goes on with the last octet of the addition
DecodeAdditionOverlapping ==
    /\ AtField(TRUE) /\ AdditionPresent
    /\ LET s == Slice(C.pos, C.end)
       IN  IF ~s.ok THEN Fail("end")
           ELSE /\ calls' = Append([calls EXCEPT ![Len(calls)].pos = s.to],
                                   CallOf("addition", C.type, s.from, s.to, C.depth, TRUE))
                /\ goal' = Fields[C.type][Here].type
                /\ UNCHANGED <<input, value, status>>

DecodeAddition ==
    /\ AtField(TRUE) /\ AdditionPresent
    /\ LET s == Slice(C.pos, C.end)
       IN  IF ~s.ok THEN Fail("end")
           ELSE /\ calls' = Append([calls EXCEPT ![Len(calls)].pos = s.to + 1],
                                   CallOf("addition", C.type, s.from, s.to, C.depth, TRUE))
                /\ goal' = Fields[C.type][Here].type
                /\ UNCHANGED <<input, value, status>>

\* An addition that is not there: the derived code gives None or the default, or
\* an error if it needs the value
DecodeNoAddition ==
    /\ AtField(TRUE) /\ C.extensions # "unread" /\ ~AdditionPresent
    /\ IF Fields[C.type][Here].opt
       THEN /\ SetCall([C EXCEPT !.got = Append(@, Absent)])
            /\ UNCHANGED <<input, goal, value, status>>
       ELSE Fail("required")

\* The value of an addition is complete; what is left of its slice is ignored
CloseAddition ==
    /\ Going({"addition"}) /\ Len(C.got) = 1
    /\ Returns(C.got[1], 0, Front(calls), TRUE)

\* decode_sequence_of, decode_set_of: the quantity
Quantity(s) ==
    LET v[k \in (s.from - 1)..s.to] == IF k < s.from THEN 0 ELSE 256 * v[k - 1] + input[k]
    IN  v[s.to]
QuantityFault(s) ==
    IF ~s.ok THEN "end"
    ELSE IF s.to > s.from /\ input[s.from] = 0 THEN "canonical"
    ELSE IF s.to - s.from > 7 THEN "integer"
    ELSE "none"

DecodeList ==
    /\ Starting({"list"})
    /\ LET s == Slice(C.pos, C.end)
       IN  IF Exceeds(C.depth) THEN Fail("depth")
           ELSE IF QuantityFault(s) # "none" THEN Fail(QuantityFault(s))
           ELSE /\ calls' = Append(calls, [CallOf("list", goal, s.to + 1, C.end, C.depth - 1, FALSE)
                                                EXCEPT !.left = Quantity(s)])
                /\ goal' = Absent
                /\ UNCHANGED <<input, value, status>>

DecodeItem ==
    /\ Going({"list"}) /\ Len(C.got) < C.left
    /\ goal' = Fields[C.type][1].type
    /\ UNCHANGED <<input, calls, value, status>>

\* decode_choice: the tag, and a slice of its own for an extended alternative
Variants(t, octet) == {i \in 1..Len(Fields[t]) : 128 + Fields[t][i].tag = octet}

DecodeChoice ==
    /\ Starting({"choice"})
    /\ IF Exceeds(C.depth) THEN Fail("depth")
       ELSE IF C.pos > C.end THEN Fail("end")
       ELSE IF Variants(goal, input[C.pos]) = {} THEN Fail("variant")
       ELSE LET i == CHOOSE k \in Variants(goal, input[C.pos]) : TRUE
                s == Slice(C.pos + 1, C.end)
                ext == Fields[goal][i].ext
            IN  IF ext /\ ~s.ok THEN Fail("end")
                ELSE /\ calls' = Append(IF ext THEN [calls EXCEPT ![Len(calls)].pos = s.to + 1] ELSE calls,
                                        [CallOf("choice", goal, IF ext THEN s.from ELSE C.pos + 1,
                                                IF ext THEN s.to ELSE C.end, C.depth - 1, ext)
                                            EXCEPT !.alt = i])
                     /\ goal' = Fields[goal][i].type
                     /\ UNCHANGED <<input, value, status>>

\* Mutant of Close: where the call stopped is not handed back
CloseUnread ==
    /\ Going(Constructed \cup {"list", "choice"}) /\ Complete(C)
    /\ Returns(Decoded(C.type, C.alt, Placed(C)), Top(Front(calls)).pos, Front(calls), C.own)

Close ==
    /\ Going(Constructed \cup {"list", "choice"}) /\ Complete(C)
    /\ Returns(Decoded(C.type, C.alt, Placed(C)), C.pos, Front(calls), C.own)

Step == \/ DecodePrimitive \/ DecodeConstructed \/ DecodeField \/ DecodeAbsent
        \/ ReadHeader \/ DecodeAddition \/ DecodeNoAddition \/ CloseAddition
        \/ DecodeList \/ DecodeItem \/ DecodeChoice \/ Close

vars == <<input, calls, goal, value, status>>

Init == /\ input \in Inputs
        /\ goal \in Type
        /\ calls = Outermost(goal, Len(input))
        /\ value = Absent
        /\ status = "run"

\* decode() has returned
Stop == status # "run" /\ UNCHANGED vars

Next == Step \/ Stop
Spec == Init /\ [][Next]_vars

-----------------------------------------------------------------------------

\* Whatever the octets are, no call reads before or behind the slice it was given,
\* the slices nest, and no more of them than the depth limit allows.
SlicesNest == Nests(calls, Len(input))

\* Whatever the octets are, decoding goes forwards: nothing is read twice, no call is lost
\* with what it has decoded, and only the outermost call reports success.
ReadsForward ==
    [][status = "run" => Proceeds(calls, calls') /\ (status' = "ok" => Len(calls') = 1)]_vars
====
