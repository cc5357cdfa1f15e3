----------------------------- MODULE TextEncoder -----------------------------
(***************************************************************************)
(* The encoders of the text rules, JER (src/src/jer/enc.rs) and AVN        *)
(* (src/src/avn/enc.rs), driven by the calls that #[derive(Encode)] makes  *)
(* for a value.                                                            *)
(*                                                                         *)
(* Neither encoder is told which field it writes: a SEQUENCE pushes the    *)
(* names of all its fields on `stack`, and whatever value is finished next *)
(* takes the name on top.  Names and values stay paired only if every call *)
(* of the generated code, however deep it recurses, pops exactly one name. *)
(*                                                                         *)
(* A value is a node: its type, its components (Absent for an OPTIONAL     *)
(* that is None or a DEFAULT equal to its default), and for a CHOICE the   *)
(* alternative.  The JSON or AVN value made for a node is referred to by   *)
(* that node; `doc` holds its contents.                                    *)
(***************************************************************************)
EXTENDS Integers, Sequences

CONSTANTS
    Type,           \* names of types
    Kind,           \* Kind[t]
    Names,          \* Names[t]: FIELDS and then EXTENDED_FIELDS of a SEQUENCE or
                    \* SET, the IDENTIFIERS of a CHOICE.  Extension additions
                    \* are declared after the root, as in the generated calls.
    Variants,       \* Variants[t]: a tag tree for each alternative of a CHOICE
    Node,           \* values
    TypeOf,         \* TypeOf[n]
    Child,          \* Child[n]: components, in the order of the declaration
    Alt,            \* Alt[n]: the alternative of a CHOICE, from 1
    Roots,          \* the values an encoding may start with
    Name, Tag,      \* identifiers and tags
    EOC,            \* Tag::EOC, the TAG of an untagged CHOICE type
    Absent          \* no value

Constructed == {"sequence", "set"}
TypeKind == Constructed \cup {"primitive", "list", "choice"}

\* TagTree: a leaf, or the leaves of an untagged CHOICE
TagTree == [choice : BOOLEAN, leaves : Seq(Tag)]

ASSUME TypesAssumption ==
    /\ Kind \in [Type -> TypeKind]
    /\ Names \in [Type -> Seq(Name)]
    /\ Variants \in [Type -> Seq(TagTree)]
    /\ EOC \in Tag
    \* a struct cannot have two fields of one name
    /\ \A t \in Type : \A i, j \in 1..Len(Names[t]) : Names[t][i] = Names[t][j] => i = j
    /\ \A t \in Type : Kind[t] = "choice" => Len(Names[t]) = Len(Variants[t])
    \* a leaf has one tag, and no two leaves the same
    /\ \A t \in Type : \A i \in 1..Len(Variants[t]) :
            ~Variants[t][i].choice =>
                /\ Len(Variants[t][i].leaves) = 1
                /\ \A j \in 1..Len(Variants[t]) :
                        Variants[t][j].leaves = Variants[t][i].leaves => i = j
ASSUME NodesAssumption ==
    /\ TypeOf \in [Node -> Type]
    /\ Child \in [Node -> Seq(Node \cup {Absent})]
    /\ Alt \in [Node -> Nat]
    /\ Absent \notin Node
    /\ Roots \subseteq Node
    /\ \A n \in Node :
        CASE Kind[TypeOf[n]] = "primitive" -> Child[n] = << >>
          [] Kind[TypeOf[n]] = "list" -> \A i \in 1..Len(Child[n]) : Child[n][i] \in Node
          [] Kind[TypeOf[n]] = "choice" -> /\ Len(Child[n]) = 1
                                           /\ Child[n][1] \in Node
                                           /\ Alt[n] \in 1..Len(Variants[TypeOf[n]])
          [] OTHER -> Len(Child[n]) = Len(Names[TypeOf[n]])

VARIABLES
    codec,      \* which of the two encoders runs
    root,       \* the value being encoded
    cur,        \* the value whose `encode` is called next, or Absent
    frames,     \* the calls under way, the outermost first
    encoders,   \* the encoders; the last one runs, the others wait for the
                \* items of a SEQUENCE OF or SET OF
    doc,        \* contents of the values made so far
    res         \* "run", "ok" or the error

vars == <<codec, root, cur, frames, encoders, doc, res>>

-----------------------------------------------------------------------------

KindOf(n) == Kind[TypeOf[n]]
NamesOf(n) == Names[TypeOf[n]]
Front(s) == SubSeq(s, 1, Len(s) - 1)
Top(s) == s[Len(s)]

\* Variants::from_slice: the leaves of all alternatives in one list
Flatten(trees) ==
    LET f[i \in 0..Len(trees)] == IF i = 0 THEN << >> ELSE f[i - 1] \o trees[i].leaves
    IN  f[Len(trees)]

\* The tag the generated code passes for the alternative it matched
VariantTag(t, i) == IF Variants[t][i].choice THEN EOC ELSE Variants[t][i].leaves[1]

\* encode_choice looks the identifier up at the first index of the flattened
\* list that has the tag and at which IDENTIFIERS has an entry.
Matches(t, tag) ==
    {i \in 1..Len(Flatten(Variants[t])) : Flatten(Variants[t])[i] = tag /\ i <= Len(Names[t])}
Identifier(t, tag) == Names[t][CHOOSE i \in Matches(t, tag) : \A j \in Matches(t, tag) : i <= j]

\* A ValueMap, or AVN's vector of pairs: the value stored under each name
Map == [Name -> Node \cup {Absent}]
EmptyMap == [nm \in Name |-> Absent]

Encoder == [stack : Seq(Name), constructed_stack : Seq(Map), root_value : Node \cup {Absent}]
New == [stack |-> << >>, constructed_stack |-> << >>, root_value |-> Absent]
E == Top(encoders)

\* A frame is a call of encode_sequence, encode_choice or encode_sequence_of
\* for `node`: `next` is the next component, `items` the values folded so
\* far.  The rest says where the call found its encoder: which one, and the
\* heights of its two stacks.
Frame == [node : Node, next : Nat, items : Seq(Node), enc : Nat, base : Nat, maps : Nat]
FrameOf(n, i) == [node |-> n, next |-> i, items |-> << >>, enc |-> Len(encoders),
                  base |-> Len(E.stack), maps |-> Len(E.constructed_stack)]
F == Top(frames)

Value == [kind : {"primitive", "object", "choice", "array"}, map : Map, items : Seq(Node)]
Put(n, v) == doc' = [m \in DOMAIN doc \cup {n} |-> IF m = n THEN v ELSE doc[m]]

\* update_root_or_constructed(n) by encoder e
Mismatch(e) == e.stack # << >> /\ e.constructed_stack = << >>
Updated(e, n) ==
    IF e.stack = << >> THEN [e EXCEPT !.root_value = n]
    ELSE [e EXCEPT !.stack = Front(@),
                   !.constructed_stack =
                        IF @ = << >> THEN @ ELSE [@ EXCEPT ![Len(@)][Top(e.stack)] = n]]
Update(es, n) ==
    /\ encoders' = [es EXCEPT ![Len(es)] = Updated(@, n)]
    /\ res' = IF Mismatch(Top(es)) THEN "mismatch" ELSE res

Call(kinds) == res = "run" /\ cur # Absent /\ KindOf(cur) \in kinds
Resume(kinds) == res = "run" /\ cur = Absent /\ frames # << >> /\ KindOf(F.node) \in kinds
Return == frames' = Front(frames)
Advance == frames' = [frames EXCEPT ![Len(frames)].next = @ + 1]

-----------------------------------------------------------------------------

Init == /\ codec \in {"jer", "avn"}
        /\ root \in Roots
        /\ cur = root
        /\ frames = << >>
        /\ encoders = <<New>>
        /\ doc = << >>
        /\ res = "run"

\* Mutants: the encoder with one plausible mistake each.  The names of the
\* fields are pushed in the order of the declaration;
EncodeSequenceForward ==
    /\ Call(Constructed)
    /\ encoders' = [encoders EXCEPT ![Len(encoders)] =
            [E EXCEPT !.stack = @ \o NamesOf(cur),
                      !.constructed_stack = Append(@, EmptyMap)]]
    /\ frames' = Append(frames, FrameOf(cur, 1))
    /\ cur' = Absent
    /\ UNCHANGED <<codec, root, doc, res>>

\* the name of an absent field stays on the stack.
EncodeNoneKeepsName ==
    /\ Resume(Constructed) /\ F.next <= Len(Child[F.node])
    /\ Child[F.node][F.next] = Absent
    /\ Advance
    /\ UNCHANGED <<codec, root, cur, encoders, doc, res>>

\* encode_bool, encode_integer, encode_null, the strings...
EncodePrimitive ==
    /\ Call({"primitive"})
    /\ Put(cur, [kind |-> "primitive", map |-> EmptyMap, items |-> << >>])
    /\ Update(encoders, cur)
    /\ cur' = Absent
    /\ UNCHANGED <<codec, root, frames>>

\* encode_sequence and encode_set, up to the call of the closure
Reversed(s) == [i \in 1..Len(s) |-> s[Len(s) + 1 - i]]

EncodeSequence ==
    /\ Call(Constructed)
    /\ encoders' = [encoders EXCEPT ![Len(encoders)] =
            [E EXCEPT !.stack = @ \o Reversed(NamesOf(cur)),
                      !.constructed_stack = Append(@, EmptyMap)]]
    /\ frames' = Append(frames, FrameOf(cur, 1))
    /\ cur' = Absent
    /\ UNCHANGED <<codec, root, doc, res>>

\* The closure encodes a field that is there: encode, encode_some, encode_default,
\* encode_extension_addition or encode_extension_addition_group
EncodeField ==
    /\ Resume(Constructed) /\ F.next <= Len(Child[F.node])
    /\ Child[F.node][F.next] # Absent
    /\ cur' = Child[F.node][F.next]
    /\ Advance
    /\ UNCHANGED <<codec, root, encoders, doc, res>>

\* encode_none, encode_none_with_tag.  AVN stores the name with no value, which
\* the map does not tell from a name that is not there.
EncodeNone ==
    /\ Resume(Constructed) /\ F.next <= Len(Child[F.node])
    /\ Child[F.node][F.next] = Absent
    /\ encoders' = [encoders EXCEPT ![Len(encoders)].stack = IF @ = << >> THEN @ ELSE Front(@)]
    /\ Advance
    /\ UNCHANGED <<codec, root, cur, doc, res>>

\* The end of encode_sequence and encode_choice: pop the map, make `value` of it
Close(value) ==
    /\ Return
    /\ IF E.constructed_stack = << >>
       THEN res' = "mismatch" /\ UNCHANGED <<encoders, doc>>
       ELSE /\ Put(F.node, value)
            /\ Update([encoders EXCEPT ![Len(encoders)].constructed_stack = Front(@)], F.node)
    /\ UNCHANGED <<codec, root, cur>>

CloseSequence ==
    /\ Resume(Constructed) /\ F.next > Len(Child[F.node])
    /\ Close([kind |-> "object", map |-> Top(E.constructed_stack), items |-> << >>])

\* encode_choice, up to the call of the closure, which encodes the alternative
TagOf(n) == VariantTag(TypeOf[n], Alt[n])

EncodeChoice ==
    /\ Call({"choice"}) /\ Matches(TypeOf[cur], TagOf(cur)) # {}
    /\ encoders' = [encoders EXCEPT ![Len(encoders)] =
            [E EXCEPT !.stack = Append(@, Identifier(TypeOf[cur], TagOf(cur))),
                      !.constructed_stack = Append(@, EmptyMap)]]
    /\ frames' = Append(frames, FrameOf(cur, 2))
    /\ cur' = Child[cur][1]
    /\ UNCHANGED <<codec, root, doc, res>>

\* variant_not_in_choice
RejectChoice ==
    /\ Call({"choice"}) /\ Matches(TypeOf[cur], TagOf(cur)) = {}
    /\ res' = "variant"
    /\ UNCHANGED <<codec, root, cur, frames, encoders, doc>>

\* encode_choice, after the closure.  JER keeps the object with one entry; AVN
\* takes the first value out of it (NULL if there is none, here Absent) and
\* stores it under the identifier.
ChoiceMap(n, map) ==
    LET stored == {nm \in Name : map[nm] # Absent}
    IN  IF codec = "jer" THEN map
        ELSE [nm \in Name |-> IF nm = Identifier(TypeOf[n], TagOf(n)) /\ stored # {}
                              THEN map[CHOOSE s \in stored : TRUE] ELSE Absent]

CloseChoice ==
    /\ Resume({"choice"})
    /\ Close([kind |-> IF codec = "jer" THEN "object" ELSE "choice",
              map |-> ChoiceMap(F.node, Top(E.constructed_stack)), items |-> << >>])

\* encode_sequence_of and encode_set_of: the items are encoded by encoders of
\* their own, while this one waits
EncodeList ==
    /\ Call({"list"})
    /\ frames' = Append(frames, FrameOf(cur, 1))
    /\ encoders' = Append(encoders, New)
    /\ cur' = Absent
    /\ UNCHANGED <<codec, root, doc, res>>

\* One turn of try_fold: to_json of the item just encoded, and a new encoder
\* for the next one
NoRoot == F.next > 1 /\ E.root_value = Absent

Folded == IF F.next = 1 THEN F.items ELSE Append(F.items, E.root_value)

EncodeItem ==
    /\ Resume({"list"}) /\ F.next <= Len(Child[F.node]) /\ ~NoRoot
    /\ cur' = Child[F.node][F.next]
    /\ frames' = [frames EXCEPT ![Len(frames)] = [F EXCEPT !.next = @ + 1, !.items = Folded]]
    /\ encoders' = [encoders EXCEPT ![Len(encoders)] = New]
    /\ UNCHANGED <<codec, root, doc, res>>

CloseList ==
    /\ Resume({"list"}) /\ F.next > Len(Child[F.node]) /\ ~NoRoot
    /\ Return
    /\ Put(F.node, [kind |-> "array", map |-> EmptyMap, items |-> Folded])
    /\ Update(Front(encoders), F.node)
    /\ UNCHANGED <<codec, root, cur>>

\* to_json, to_avn, of the whole value or of an item that left no root value
Returned == IF frames = << >> THEN TRUE ELSE KindOf(F.node) = "list" /\ NoRoot

Finish ==
    /\ res = "run" /\ cur = Absent /\ Returned
    /\ res' = IF E.root_value = Absent THEN "noroot" ELSE "ok"
    /\ UNCHANGED <<codec, root, cur, frames, encoders, doc>>

Stop == res # "run" /\ UNCHANGED vars

Step == \/ EncodePrimitive
        \/ EncodeSequence \/ EncodeField \/ EncodeNone \/ CloseSequence
        \/ EncodeChoice \/ RejectChoice \/ CloseChoice
        \/ EncodeList \/ EncodeItem \/ CloseList
        \/ Finish

Next == Step \/ Stop

Spec == Init /\ [][Next]_vars

-----------------------------------------------------------------------------

\* What the contents of a node's value ought to be when its components are
\* called `names`: every component that is there under its name, the items of a
\* list in their order, and nothing else.
MapWith(names, values) ==
    [nm \in Name |-> IF \E i \in 1..Len(names) : names[i] = nm
                     THEN values[CHOOSE i \in 1..Len(names) : names[i] = nm] ELSE Absent]
Written(n, names) ==
    [kind |-> CASE KindOf(n) \in Constructed -> "object"
                [] KindOf(n) = "choice" -> IF codec = "jer" THEN "object" ELSE "choice"
                [] KindOf(n) = "list" -> "array"
                [] OTHER -> "primitive",
     map |-> IF KindOf(n) \in Constructed \cup {"choice"} THEN MapWith(names, Child[n])
             ELSE EmptyMap,
     items |-> IF KindOf(n) = "list" THEN Child[n] ELSE << >>]

\* The names of the fields, or the identifier of the alternative itself
ComponentNames(n) == IF KindOf(n) = "choice" THEN <<NamesOf(n)[Alt[n]]>> ELSE NamesOf(n)
Expected(n) == Written(n, ComponentNames(n))

\* In a CHOICE, neither the alternative nor one before it is an untagged CHOICE:
\* its place in the flattened list of tags is its place in IDENTIFIERS.
InPosition(n) ==
    KindOf(n) = "choice" => \A i \in 1..Alt[n] : ~Variants[TypeOf[n]][i].choice

\* v is what the value of n ought to hold; a CHOICE whose alternative is not in
\* position may hold it under the identifier of another alternative.
Faithful(n, v) ==
    /\ InPosition(n) => v = Expected(n)
    /\ KindOf(n) = "choice" => \E i \in 1..Len(NamesOf(n)) : v = Written(n, <<NamesOf(n)[i]>>)

TypeOK ==
    /\ codec \in {"jer", "avn"}
    /\ root \in Roots
    /\ cur \in Node \cup {Absent}
    /\ frames \in Seq(Frame)
    /\ encoders \in Seq(Encoder) /\ encoders # << >>
    /\ DOMAIN doc \subseteq Node
    /\ \A n \in DOMAIN doc : doc[n] \in Value
    /\ res \in {"run", "ok", "mismatch", "variant", "noroot"}

\* The stacks never run out of step with the calls: the encoder never reports
\* an "Internal stack mismatch!" or a missing root value, and a finished
\* encoding leaves no name, no map and no suspended encoder behind.
StacksMatch ==
    /\ TypeOK
    /\ res \notin {"mismatch", "noroot"}
    /\ res = "ok" => encoders = <<[New EXCEPT !.root_value = root]>>

\* Every value made, however deep, holds each of its components under the
\* component's own name and nothing else, and each of these was made too, down
\* to the leaves; a finished encoding is of the root.  Of a CHOICE that has an
\* untagged CHOICE for the alternative chosen or for one before it, the value
\* is stored under one of the CHOICE's identifiers, which may be the wrong one.
EncodesFaithfully ==
    /\ \A n \in DOMAIN doc :
            /\ Faithful(n, doc[n])
            /\ \A i \in 1..Len(Child[n]) : Child[n][i] \in DOMAIN doc \cup {Absent}
    /\ res = "ok" => root \in DOMAIN doc
====
