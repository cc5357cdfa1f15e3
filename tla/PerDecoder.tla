----------------------------- MODULE PerDecoder ------------------------------
(***************************************************************************)
(* The decoder of the packed encoding rules (src/src/per/de.rs), aligned   *)
(* and unaligned, driven by the calls that #[derive(Decode)] makes for a   *)
(* type.  The bits need not be an encoding of the type, or of anything.    *)
(*                                                                         *)
(* Nothing in the input says where a component ends: a decoder that stops  *)
(* one bit off reads everything after it wrongly.  A SEQUENCE makes a      *)
(* decoder of its own on the rest of the input and hands back where that   *)
(* one stopped; an extension addition and an extended alternative are cut  *)
(* out by their length and decoded alone.  In the aligned variant padding  *)
(* is skipped up to the next multiple of eight from the END of the slice.  *)
(***************************************************************************)
EXTENDS CallStack, PerBits

CONSTANTS
    Bound,          \* as in PerEncoder
    Inputs          \* the bits given to decode

TypeKind == Constructed \cup {"primitive", "list", "choice"}
FieldDef == [type : Type, tag : Nat, opt : BOOLEAN, ext : BOOLEAN, group : BOOLEAN]

ASSUME PerTypesAssumption ==
    /\ Kind \in [Type -> TypeKind]
    /\ Fields \in [Type -> Seq(FieldDef)]
    /\ Extensible \in [Type -> BOOLEAN]
    /\ Bound \in [Type -> 0..8]
    /\ \A t \in Type : Kind[t] = "list" => Len(Fields[t]) = 1
    \* the tags of a SET are distinct; its extension additions are not modelled
    /\ \A t \in Type : Kind[t] = "set" =>
            \A i, j \in 1..Len(Fields[t]) :
                ~Fields[t][i].ext /\ (i # j => Fields[t][i].tag # Fields[t][j].tag)
    /\ Absent \notin Type
    /\ MaxDepth \in Nat
    \* a fragment is more than there is
    /\ \A s \in Inputs : s \in Seq(Bit) /\ Len(s) < 16384

VARIABLES
    aligned,        \* DecoderOptions::aligned
    input,          \* the bits
    calls,          \* the calls under way, the outermost first
    goal,           \* the type whose `decode` is called next, or Absent
    value,          \* the value decoded last
    status          \* "idle", "run", "ok" or the error

C == Top(calls)
SetCall(c) == calls' = [calls EXCEPT ![Len(calls)] = c]
Fail(e) == status' = e /\ UNCHANGED <<aligned, input, calls, goal, value>>

ExtFields(t) == 1..Len(Fields[t]) \ RootFields(t)

\* take(w): are there w bits at p, and the number they are
Has(p, w, end) == p + w <= end + 1
Number(p, w) == LET v[i \in 0..w] == IF i = 0 THEN 0 ELSE 2 * v[i - 1] + input[p + i - 1] IN v[w]

\* parse_padding
Padded(p, end) == IF aligned THEN p + ((end + 1 - p) % 8) ELSE p

\* decode_unknown_length in its short forms.  The inputs are shorter than 16K: a
\* fragment is always more than there is.
Length(at, end) ==
    LET p == Padded(at, end)
    IN  IF Has(p, 8, end) /\ input[p] = 0
        THEN [ok |-> TRUE, count |-> Number(p + 1, 7), next |-> p + 8]
        ELSE IF Has(p, 16, end) /\ input[p + 1] = 0
        THEN [ok |-> TRUE, count |-> Number(p + 2, 14), next |-> p + 16]
        ELSE [ok |-> FALSE, count |-> 0, next |-> p]

\* Mutant of Octets: they end one bit late
OctetsTooLong(at, end) ==
    LET n == Length(at, end)
    IN  [ok |-> n.ok /\ Has(n.next, 8 * n.count, end), from |-> n.next, to |-> n.next + 8 * n.count]

\* decode_octets: where the octets are
Octets(at, end) ==
    LET n == Length(at, end)
    IN  [ok |-> n.ok /\ Has(n.next, 8 * n.count, end), from |-> n.next, to |-> n.next + 8 * n.count - 1]

Starting(kinds) == status = "run" /\ goal # Absent /\ Kind[goal] \in kinds
Going(kinds) == status = "run" /\ goal = Absent /\ C.call \in kinds

-----------------------------------------------------------------------------

\* A call returns v and where it stopped; its caller goes on from there, unless
\* the slice was cut out
Returns(v, pos, cs, own) ==
    /\ goal' = Absent
    /\ value' = v
    /\ UNCHANGED <<aligned, input>>
    /\ LET c == Top(cs)
           caller == [c EXCEPT !.got = Append(@, v), !.pos = IF own THEN @ ELSE pos]
       IN  /\ calls' = [cs EXCEPT ![Len(cs)] = caller]
           /\ status' = IF c.call = "root" THEN "ok" ELSE status

\* decode_bool, decode_integer
DecodePrimitive ==
    /\ Starting({"primitive"})
    /\ LET w == Bound[goal]
           p == IF w = 8 THEN Padded(C.pos, C.end) ELSE C.pos
       IN  IF Has(p, w, C.end) THEN Returns(Decoded(goal, Number(p, w), << >>), p + w, calls, FALSE)
           ELSE Fail("end")

\* The extension bit and parse_optional_and_default_field_bitmap; the bits are
\* taken for the fields in the order of their declaration
Marked(t) == IF Extensible[t] THEN 1 ELSE 0
PresentBits(t, p) ==
    [i \in OptFields(t) |-> input[p + Cardinality({j \in OptFields(t) : j < i})] = 1]

DecodeConstructed ==
    /\ Starting(Constructed)
    /\ LET t == goal
           root == C.pos + Marked(t)
           next == root + Cardinality(OptFields(t))
       IN  IF Exceeds(C.depth) THEN Fail("depth")
           ELSE IF next > C.end + 1 THEN Fail("end")
           ELSE /\ calls' = Append(calls,
                                   [CallOf(Kind[t], t, next, C.end, C.depth - 1, FALSE)
                                        EXCEPT !.present = PresentBits(t, root),
                                               !.extensions = IF Extensible[t] /\ input[C.pos] = 1
                                                              THEN "unread" ELSE "none",
                                               !.order = DecodeOrder(t)])
                /\ goal' = Absent
                /\ UNCHANGED <<aligned, input, value, status>>

\* The next field: decode, or decode_optional with require_field; decode_set looks
\* the presence up itself.
Here == C.order[Len(C.got) + 1]
PresentHere == Here \in OptFields(C.type) => C.present[Here]
AtField(ext) == Going(Constructed) /\ Len(C.got) < Len(C.order) /\ Fields[C.type][Here].ext = ext

DecodeField ==
    /\ AtField(FALSE) /\ PresentHere
    /\ goal' = Fields[C.type][Here].type
    /\ UNCHANGED <<aligned, input, calls, value, status>>

DecodeAbsent ==
    /\ AtField(FALSE) /\ ~PresentHere
    /\ SetCall([C EXCEPT !.got = Append(@, Absent)])
    /\ UNCHANGED <<aligned, input, goal, value, status>>

\* parse_extension_header: a normally small length, and as many bits.  They are
\* zipped with the fields: those without a field are dropped, those without a bit
\* are not looked at.
SmallLength(p, end) ==
    IF ~Has(p, 1, end) THEN [ok |-> FALSE, count |-> 0, next |-> p]
    ELSE IF input[p] = 1 THEN Length(p + 1, end)
    ELSE [ok |-> Has(p, 7, end), count |-> IF Has(p, 7, end) THEN Number(p + 1, 6) ELSE 0, next |-> p + 7]

\* Mutant of HeaderCount: the lower bound of the length is forgotten
HeaderCountUnshifted(n) == n.count

HeaderCount(n) == n.count + 1
HeaderBits(t, n) ==
    [i \in ExtFields(t) |->
        LET k == i - Cardinality(RootFields(t))
        IN  k <= HeaderCount(n) /\ input[n.next + k - 1] = 1]
Zipped(t, n) == {i \in ExtFields(t) : i - Cardinality(RootFields(t)) <= HeaderCount(n)}

ReadHeader ==
    /\ AtField(TRUE) /\ C.extensions = "unread"
    /\ LET n == SmallLength(C.pos, C.end)
       IN  IF ~n.ok \/ ~Has(n.next, HeaderCount(n), C.end) THEN Fail("end")
           ELSE IF \E i \in Zipped(C.type, n) : ~Fields[C.type][i].opt /\ ~HeaderBits(C.type, n)[i]
           THEN Fail("required")
           ELSE /\ SetCall([C EXCEPT !.extensions = "read", !.pos = n.next + HeaderCount(n),
                                     !.additions = HeaderBits(C.type, n)])
                /\ UNCHANGED <<aligned, input, goal, value, status>>

\* decode_extension_addition..., decode_extension_addition_group
AdditionPresent == C.extensions = "read" /\ C.additions[Here]

DecodeAddition ==
    /\ AtField(TRUE) /\ AdditionPresent
    /\ LET s == Octets(C.pos, C.end)
       IN  IF ~s.ok THEN Fail("end")
           ELSE /\ calls' = Append([calls EXCEPT ![Len(calls)].pos = s.to + 1],
                                   CallOf("addition", C.type, s.from, s.to, C.depth, TRUE))
                /\ goal' = Fields[C.type][Here].type
                /\ UNCHANGED <<aligned, input, value, status>>

\* An addition that is not there: the derived code gives None or the default, or
\* an error if it needs the value
DecodeNoAddition ==
    /\ AtField(TRUE) /\ C.extensions # "unread" /\ ~AdditionPresent
    /\ IF Fields[C.type][Here].opt
       THEN /\ SetCall([C EXCEPT !.got = Append(@, Absent)])
            /\ UNCHANGED <<aligned, input, goal, value, status>>
       ELSE Fail("required")

\* The value of an addition is complete; what is left of its octets is ignored
CloseAddition ==
    /\ Going({"addition"}) /\ Len(C.got) = 1
    /\ Returns(C.got[1], 0, Front(calls), TRUE)

\* decode_sequence_of: the bit of an extensible size constraint, then the number of
\* items; in the aligned variant padding is skipped after a constrained number too
Count(t, p, end) ==
    LET w == Log2(Bound[t] + 1)
        q == p + Marked(t)
    IN  IF ~Has(p, Marked(t), end) THEN [ok |-> FALSE, count |-> 0, next |-> p]
        ELSE IF Bound[t] = 0 THEN Length(q, end)
        ELSE IF Extensible[t] /\ input[p] = 1 THEN Length(q, end)
        ELSE [ok |-> Has(q, w, end), count |-> IF Has(q, w, end) THEN Number(q, w) ELSE 0,
              next |-> Padded(q + w, end)]

DecodeList ==
    /\ Starting({"list"})
    /\ LET n == Count(goal, C.pos, C.end)
       IN  IF Exceeds(C.depth) THEN Fail("depth")
           ELSE IF ~n.ok THEN Fail("end")
           ELSE /\ calls' = Append(calls, [CallOf("list", goal, n.next, C.end, C.depth - 1, FALSE)
                                                EXCEPT !.left = n.count])
                /\ goal' = Absent
                /\ UNCHANGED <<aligned, input, value, status>>

DecodeItem ==
    /\ Going({"list"}) /\ Len(C.got) < C.left
    /\ goal' = Fields[C.type][1].type
    /\ UNCHANGED <<aligned, input, calls, value, status>>

\* decode_choice: the extension bit and the index, a normally small integer for an
\* extended alternative, which then has octets of its own
Indices(t, ext) == IF ext THEN ExtFields(t) ELSE RootFields(t)
At(t, ext, k) == {i \in Indices(t, ext) : i = k + 1 + (IF ext THEN Cardinality(RootFields(t)) ELSE 0)}

\* [ok, alts, next]: the alternatives with the index (at most one)
RootIndex(t, p, end) ==
    LET w == Log2(Cardinality(RootFields(t)))
    IN  [ok |-> Has(p, w, end), alts |-> IF Has(p, w, end) THEN At(t, FALSE, Number(p, w)) ELSE {},
         next |-> p + w]
ExtIndex(t, p, end) ==
    LET s == Octets(p + 1, end)
        w == s.to + 1 - s.from
    IN  IF ~Has(p, 1, end) THEN [ok |-> FALSE, alts |-> {}, next |-> p]
        ELSE IF input[p] = 1
        THEN [ok |-> s.ok, next |-> s.to + 1,
              alts |-> {i \in ExtFields(t) : /\ s.ok /\ w >= 8
                                             /\ \A k \in s.from..(s.to - 8) : input[k] = 0
                                             /\ i \in At(t, TRUE, Number(s.to - 7, 8))}]
        ELSE [ok |-> Has(p, 7, end), next |-> p + 7,
              alts |-> IF Has(p, 7, end) THEN At(t, TRUE, Number(p + 1, 6)) ELSE {}]

DecodeChoice ==
    /\ Starting({"choice"})
    /\ LET t == goal
           marked == Has(C.pos, Marked(t), C.end)
           ext == marked /\ Extensible[t] /\ input[C.pos] = 1
           n == IF ext THEN ExtIndex(t, C.pos + 1, C.end) ELSE RootIndex(t, C.pos + Marked(t), C.end)
           i == CHOOSE k \in n.alts : TRUE
           s == Octets(n.next, C.end)
       IN  IF Exceeds(C.depth) THEN Fail("depth")
           ELSE IF ~marked \/ ~n.ok THEN Fail("end")
           ELSE IF n.alts = {} THEN Fail("variant")
           ELSE IF ext /\ ~s.ok THEN Fail("end")
           ELSE /\ calls' = Append(IF ext THEN [calls EXCEPT ![Len(calls)].pos = s.to + 1] ELSE calls,
                                   [CallOf("choice", t, IF ext THEN s.from ELSE n.next,
                                           IF ext THEN s.to ELSE C.end, C.depth - 1, ext)
                                        EXCEPT !.alt = i])
                /\ goal' = Fields[t][i].type
                /\ UNCHANGED <<aligned, input, value, status>>

\* Mutant of Close: where the call stopped is not handed back
CloseUnread ==
    /\ Going(Constructed \cup {"list", "choice"}) /\ Complete(C)
    /\ Returns(Decoded(C.type, C.alt, Placed(C)), Top(Front(calls)).pos, Front(calls), C.own)

Close ==
    /\ Going(Constructed \cup {"list", "choice"}) /\ Complete(C)
    /\ Returns(Decoded(C.type, C.alt, Placed(C)), C.pos, Front(calls), C.own)

Step == \/ DecodePrimitive \/ DecodeConstructed \/ DecodeField \/ DecodeAbsent
        \/ ReadHeader \/ DecodeAddition \/ DecodeNoAddition \/ CloseAddition
        \/ DecodeList \/ DecodeItem \/ DecodeChoice \/ Close

vars == <<aligned, input, calls, goal, value, status>>

Init == /\ aligned \in BOOLEAN
        /\ input \in Inputs
        /\ goal \in Type
        /\ calls = Outermost(goal, Len(input))
        /\ value = Absent
        /\ status = "run"

\* decode() has returned
Stop == status # "run" /\ UNCHANGED vars

Next == Step \/ Stop
Spec == Init /\ [][Next]_vars

-----------------------------------------------------------------------------

\* Whatever the bits are, no call reads before or behind the slice it was given, the
\* slices nest, and no more of them than the depth limit allows.
ReadsNest == Nests(calls, Len(input))

\* Whatever the bits are, decoding goes forwards: nothing is read twice, no call is lost
\* with what it has decoded, and only the outermost call reports success.
ReadsForward ==
    [][status = "run" => Proceeds(calls, calls') /\ (status' = "ok" => Len(calls') = 1)]_vars
====
