----------------------------- MODULE BerDecoder ------------------------------
(***************************************************************************)
(* The BER/CER/DER decoder (src/src/ber/de.rs, src/src/ber/de/parser.rs)   *)
(* driven by the code that #[derive(Decode)] generates for a type.         *)
(*                                                                         *)
(* The input is a sequence of tokens.  A token is the identifier and the   *)
(* length of a TLV, or the end-of-contents octets.  The contents of a      *)
(* constructed TLV are the `len` tokens after it, or, if its length is     *)
(* indefinite, the tokens up to the matching end of contents.  The octets  *)
(* of a primitive value are not modelled: `ok` says whether they are valid *)
(* for the type that reads them.                                           *)
(*                                                                         *)
(* Every nested `Decoder` is a frame: its slice of the input (pos, end)    *)
(* and its `config.remaining_depth`, with the local state of the handler   *)
(* that runs in it.                                                        *)
(***************************************************************************)
EXTENDS Integers, Sequences, FiniteSets

CONSTANTS
    Types,          \* names of the types
    Schema,         \* Schema[t]: how type t is declared
    Roots,          \* the types a decode may start with
    Tags,           \* tags
    EOC,            \* Tag::EOC, the tag of what has none of its own
    ChunkTag,       \* Tag::OCTET_STRING, the tag of the parts of a string
    Inputs,         \* the inputs a decode may start with
    MaxDepth,       \* DecoderOptions::remaining_depth, 128
    NoType          \* not a type

Indefinite == -1

TypeKind == {"primitive", "string", "bits", "any",
             "sequence", "set", "sequenceOf", "setOf", "explicit", "choice"}

\* A component of a SEQUENCE or SET: required, OPTIONAL, DEFAULT, or one of
\* the last two with an explicit tag.  `tag` is what its place announces: the
\* tag that OPTIONAL looks for and that selects it in a SET.
Mode == {"required", "optional", "default", "optionalExplicit"}
Component == [type : Types, mode : Mode, tag : Tags]

\* An alternative of a CHOICE: the tags of its TAG_TREE select it.
Alternative == [type : Types, tree : SUBSET Tags]

\* `elem` is the element of a collection or the content of an explicit tag,
\* `alts` are the alternatives of a CHOICE in the order of declaration.
Declaration == [kind : TypeKind, tag : Tags, elem : Types \cup {NoType},
                fields : Seq(Component), alts : Seq(Alternative)]

Token == [kind : {"tlv", "eoc"}, tag : Tags, constructed : BOOLEAN,
          len : Nat \cup {Indefinite}, ok : BOOLEAN]

ASSUME SchemaAssumption ==
    /\ Schema \in [Types -> Declaration]
    /\ Roots \subseteq Types
    /\ NoType \notin Types
    /\ EOC \in Tags
    /\ \A t \in Types : Schema[t].kind \in {"sequenceOf", "setOf", "explicit"}
                            => Schema[t].elem \in Types
ASSUME InputsAssumption == Inputs \subseteq Seq(Token)
ASSUME DepthAssumption == MaxDepth \in Nat

VARIABLES
    input,          \* the tokens being decoded
    root,           \* the type the caller asked for
    der,            \* config.encoding_rules.is_der()
    stack,          \* nested decoders, the outermost first
    pc,             \* "decode": decode `goal` in the innermost decoder;
                    \* "step": continue the handler of the innermost decoder;
                    \* "return": give `res` to that handler; "done"
    goal,           \* the type to decode
    res             \* "ok", "err" or "depth" (ExceedsMaxParseDepth)

vars == <<input, root, der, stack, pc, goal, res>>

(***************************************************************************)
(* Frames.                                                                 *)
(***************************************************************************)
Frame == [type : Types \cup {NoType}, pos : Nat, end : Nat, depth : Nat,
          streaming : BOOLEAN, field : Nat \ {0}, seen : SUBSET Nat, twice : BOOLEAN]

top == stack[Len(stack)]
SetTop(f) == [stack EXCEPT ![Len(stack)] = f]
Below == SubSeq(stack, 1, Len(stack) - 1)

AtEnd(d) == d.pos = d.end
Peek(d) == input[d.pos + 1]
AtEoc(d) == ~AtEnd(d) /\ Peek(d).kind = "eoc"

Kind(d) == IF d.type = NoType THEN "root" ELSE Schema[d.type].kind
Fields(d) == Schema[d.type].fields

(***************************************************************************)
(* parser.rs                                                               *)
(***************************************************************************)
\* parse_identifier_octet succeeds: there is a TLV, not an end of contents.
HasIdentifier(d) == ~AtEnd(d) /\ Peek(d).kind = "tlv"

\* Mutant: the length is compared with the octets left before the header.
HasContentsLate(d) ==
    LET t == Peek(d) IN
    IF t.len = Indefinite THEN t.constructed /\ ~der
                          ELSE d.pos + t.len <= d.end

\* parse_contents and take_contents succeed: the whole content is there, or
\* the length is indefinite where that is allowed.
HasContents(d) ==
    LET t == Peek(d) IN
    IF t.len = Indefinite THEN t.constructed /\ ~der
                          ELSE d.pos + 1 + t.len <= d.end

\* parse_value(tag) succeeds.  When it fails, the decoder's input is unchanged.
ParseValue(d, tag) == HasIdentifier(d) /\ Peek(d).tag = tag /\ HasContents(d)

\* The decoder's input after parse_value: behind the value, or at the
\* contents if the length is indefinite.
AfterValue(d) ==
    IF Peek(d).len = Indefinite THEN d.pos + 1 ELSE d.pos + 1 + Peek(d).len

\* parse_encoded_value: a value that may come in parts.  The parts of a
\* constructed value are looked for behind what parse_value left, also if
\* its length is definite.  Loop(e, strict)[j] is where the loop over the parts
\* ends that starts behind token j, -1 if it fails; `strict` if the contents of
\* every part are judged.
Loop(e, strict) ==
    LET At(j) == [pos |-> j, end |-> e]
        loop[j \in 0..e] ==
            IF j = e \/ Peek(At(j)).kind = "eoc" THEN j
            ELSE IF ~HasContents(At(j)) THEN -1
            ELSE IF ~Peek(At(j)).constructed
            THEN IF strict /\ ~Peek(At(j)).ok THEN -1 ELSE loop[AfterValue(At(j))]
            ELSE LET last == IF der THEN -1 ELSE loop[AfterValue(At(j))] IN
                 IF last = -1 THEN -1
                 ELSE IF Peek(At(j)).len # Indefinite THEN loop[last]
                 ELSE IF last = e THEN -1 ELSE loop[last + 1]
    IN  loop

\* The position behind the value that parse_encoded_value reads behind token
\* j, -1 if it fails.
Encoded(j, e, strict) ==
    LET d == [pos |-> j, end |-> e]
        last == Loop(e, strict)[AfterValue(d)]
    IN  IF ~HasIdentifier(d) \/ ~HasContents(d) THEN -1
        ELSE IF ~Peek(d).constructed
        THEN IF strict /\ ~Peek(d).ok THEN -1 ELSE AfterValue(d)
        ELSE IF der \/ last = -1 THEN -1
        ELSE IF Peek(d).len # Indefinite THEN last
        ELSE IF last = e THEN -1 ELSE last + 1

\* The loops of decode_octet_string: where the parts that start behind token
\* i and have the tag of an OCTET STRING stop.
StringParts(i, e) ==
    LET stop[j \in 0..e] ==
            IF j = e \/ input[j + 1].kind = "eoc" \/ input[j + 1].tag # ChunkTag THEN j
            ELSE LET next == Encoded(j, e, FALSE) IN IF next = -1 THEN j ELSE stop[next]
    IN  stop[i]

Return(r) == pc' = "return" /\ res' = r /\ UNCHANGED goal
Decode(t) == pc' = "decode" /\ goal' = t /\ UNCHANGED res

(***************************************************************************)
(* Decoding a goal in the innermost decoder.                               *)
(***************************************************************************)
\* Mutant: a primitive value does not move the input.
DecodePrimitiveStuck ==
    /\ pc = "decode"
    /\ Schema[goal].kind = "primitive"
    /\ Return(IF ParseValue(top, Schema[goal].tag) /\ Peek(top).len # Indefinite /\ Peek(top).ok
              THEN "ok" ELSE "err")
    /\ UNCHANGED <<input, root, der, stack>>

\* decode_bool, decode_integer, decode_null, ...: parse_primitive_value moves
\* the input before the contents are judged.
DecodePrimitive ==
    /\ pc = "decode"
    /\ Schema[goal].kind = "primitive"
    /\ LET d == top
           good == Peek(d).len # Indefinite /\ Peek(d).ok
       IN  IF ~ParseValue(d, Schema[goal].tag)
           THEN Return("err") /\ UNCHANGED stack
           ELSE /\ stack' = SetTop([d EXCEPT !.pos = AfterValue(d)])
                /\ Return(IF good THEN "ok" ELSE "err")
    /\ UNCHANGED <<input, root, der>>

\* decode_octet_string, which every kind of character string uses: the
\* octets at once, or in parts unless the rules are DER.  The characters are
\* judged when all parts have been read.
DecodeString ==
    /\ pc = "decode"
    /\ Schema[goal].kind = "string"
    /\ LET d == top
           indefinite == Peek(d).len = Indefinite
           end == IF indefinite THEN d.end ELSE AfterValue(d)
       IN  \/ /\ ~ParseValue(d, Schema[goal].tag)
              /\ Return("err")
              /\ UNCHANGED stack
           \/ /\ ParseValue(d, Schema[goal].tag)
              /\ ~Peek(d).constructed \/ der
              /\ stack' = SetTop([d EXCEPT !.pos = AfterValue(d)])
              /\ Return(IF Peek(d).constructed \/ ~Peek(d).ok THEN "err" ELSE "ok")
           \/ /\ ParseValue(d, Schema[goal].tag)
              /\ Peek(d).constructed
              /\ ~der
              /\ \E p \in (d.pos + 1)..end :
                    LET closed == indefinite /\ p < end /\ input[p + 1].kind = "eoc"
                    IN  /\ p = StringParts(d.pos + 1, end)
                        /\ stack' = SetTop([d EXCEPT !.pos = IF ~indefinite THEN end
                                                             ELSE IF closed THEN p + 1 ELSE p])
                        /\ Return(IF (IF indefinite THEN closed ELSE p = end) /\ Peek(d).ok
                                  THEN "ok" ELSE "err")
    /\ UNCHANGED <<input, root, der>>

\* decode_any with Tag::EOC takes whatever value comes.
AnyTag(t) == Schema[t].kind = "any" /\ Schema[t].tag = EOC

\* decode_bit_string and decode_any: parse_encoded_value, and the input moves
\* only if it succeeds.  Any does not look into a definite length.
DecodeEncoded ==
    /\ pc = "decode"
    /\ Schema[goal].kind \in {"bits", "any"}
    /\ LET d == top
           strict == Schema[goal].kind = "bits"
           parses == /\ HasIdentifier(d)
                     /\ HasContents(d)
                     /\ AnyTag(goal) \/ Peek(d).tag = Schema[goal].tag
           behind == IF ~parses THEN -1
                     ELSE IF ~strict /\ Peek(d).len # Indefinite THEN AfterValue(d)
                     ELSE Encoded(d.pos, d.end, strict)
       IN  IF behind \in d.pos..d.end
           THEN stack' = SetTop([d EXCEPT !.pos = behind]) /\ Return("ok")
           ELSE Return("err") /\ UNCHANGED stack
    /\ UNCHANGED <<input, root, der>>

\* decode_choice: the first alternative whose tags contain the one that
\* comes (from_tag), or the decode fails.
DecodeChoice ==
    /\ pc = "decode"
    /\ Schema[goal].kind = "choice"
    /\ LET alts == Schema[goal].alts
           chosen == {i \in 1..Len(alts) : HasIdentifier(top) /\ Peek(top).tag \in alts[i].tree}
       IN  IF chosen = {} THEN Return("err")
           ELSE \E i \in chosen : (\A j \in chosen : i <= j) /\ Decode(alts[i].type)
    /\ UNCHANGED <<input, root, der, stack>>

\* Mutant: the subtraction does not saturate.
InnerDepthUnderflow(t, depth) ==
    depth - (IF Schema[t].kind \in {"sequenceOf", "setOf"} THEN 2 ELSE 1)

\* Mutant: the inner decoder gets the configuration of the outer one.
InnerDepthSame(t, depth) == depth

\* remaining_depth of a decoder that parse_constructed_contents creates;
\* decode_sequence_of and decode_set_of take one more level for themselves.
InnerDepth(t, depth) ==
    LET cost == IF Schema[t].kind \in {"sequenceOf", "setOf"} THEN 2 ELSE 1
    IN  IF depth >= cost THEN depth - cost ELSE 0

\* The first half of parse_constructed_contents: depth, identifier, length.
EnterConstructed ==
    /\ pc = "decode"
    /\ Schema[goal].kind \in {"sequence", "set", "sequenceOf", "setOf", "explicit"}
    /\ LET d == top
           outer == [d EXCEPT !.pos = AfterValue(d)]
           inner == [type |-> goal, pos |-> d.pos + 1,
                     end |-> IF Peek(d).len = Indefinite THEN d.end ELSE AfterValue(d),
                     depth |-> InnerDepth(goal, d.depth),
                     streaming |-> Peek(d).len = Indefinite,
                     field |-> 1, seen |-> {}, twice |-> FALSE]
       IN  IF d.depth = 0
           THEN Return("depth") /\ UNCHANGED stack
           ELSE IF ~ParseValue(d, Schema[goal].tag)
           THEN Return("err") /\ UNCHANGED stack
           ELSE IF Schema[goal].kind # "explicit" /\ ~Peek(d).constructed
           THEN stack' = SetTop(outer) /\ Return("err")
           ELSE /\ stack' = Append(SetTop(outer), inner)
                /\ pc' = "step"
                /\ UNCHANGED <<goal, res>>
    /\ UNCHANGED <<input, root, der>>

(***************************************************************************)
(* The handlers that run inside a constructed value.                       *)
(***************************************************************************)
\* The second half of parse_constructed_contents, once decode_fn returned Ok:
\* the end of contents, or nothing left over.
LeaveConstructed ==
    LET d == top
        outer == stack[Len(stack) - 1]
        here == [outer EXCEPT !.pos = d.pos]
        closed == [outer EXCEPT !.pos = d.pos + 1]
        Put(f) == stack' = [Below EXCEPT ![Len(stack) - 1] = f]
    IN  IF d.streaming
        THEN IF AtEoc(here) THEN Put(closed) /\ Return("ok")
                            ELSE Put(here) /\ Return("err")
        ELSE Put(outer) /\ Return(IF AtEnd(d) THEN "ok" ELSE "err")

\* Mutant: the outer decoder is put back to where the error was.
PropagateRestores(e) == stack' = [Below EXCEPT ![Len(stack) - 1].pos = top.pos - 1] /\ Return(e)

\* decode_fn returned an error: the inner decoder is dropped.
Propagate(e) == stack' = Below /\ Return(e)

\* Mutant: an empty slice is enough for the default initializer.
SequenceIsDefaultEmpty(d) == Fields(d) = << >> \/ (d.field = 1 /\ AtEnd(d))

\* decode_sequence: the default initializer is used when there is nothing to
\* decode and nothing is required; the fields are decoded in order otherwise.
SequenceIsDefault(d) ==
    \/ Fields(d) = << >>
    \/ /\ d.field = 1
       /\ AtEnd(d)
       /\ \A i \in 1..Len(Fields(d)) : Fields(d)[i].mode # "required"

SequenceEnd ==
    /\ pc = "step"
    /\ Kind(top) = "sequence"
    /\ SequenceIsDefault(top) \/ top.field > Len(Fields(top))
    /\ LeaveConstructed
    /\ UNCHANGED <<input, root, der>>

InSequence(modes) ==
    /\ pc = "step"
    /\ Kind(top) = "sequence"
    /\ ~SequenceIsDefault(top)
    /\ top.field <= Len(Fields(top))
    /\ Fields(top)[top.field].mode \in modes

\* A required field, or an OPTIONAL one with an explicit tag, whose decoding
\* is attempted whatever comes next in the input.
SequenceField ==
    /\ InSequence({"required", "optionalExplicit"})
    /\ Decode(Fields(top)[top.field].type)
    /\ UNCHANGED <<input, root, der, stack>>

\* decode_optional_with_check: absent at the end of the slice, before an end
\* of contents (not in DER) and before another tag; peek_tag may fail.  A place
\* without a tag of its own (a CHOICE, ANY) is not checked.
SequenceOptional ==
    /\ InSequence({"optional", "default"})
    /\ LET f == Fields(top)[top.field]
           absent == \/ AtEnd(top)
                     \/ AtEoc(top) /\ ~der
                     \/ f.tag # EOC /\ HasIdentifier(top) /\ Peek(top).tag # f.tag
           unreadable == ~absent /\ f.tag # EOC /\ ~HasIdentifier(top)
       IN  \/ /\ absent
              /\ stack' = SetTop([top EXCEPT !.field = @ + 1])
              /\ UNCHANGED <<pc, goal, res>>
           \/ unreadable /\ Propagate("err")
           \/ /\ ~absent
              /\ ~unreadable
              /\ Decode(f.type)
              /\ UNCHANGED stack
    /\ UNCHANGED <<input, root, der>>

\* decode_sequence_of returns as soon as the slice is empty; decode_set_of
\* goes on until an element fails.
CollectionElement ==
    /\ pc = "step"
    /\ Kind(top) \in {"sequenceOf", "setOf"}
    /\ IF Kind(top) = "sequenceOf" /\ AtEnd(top)
       THEN LeaveConstructed
       ELSE Decode(Schema[top.type].elem) /\ UNCHANGED stack
    /\ UNCHANGED <<input, root, der>>

ExplicitContent ==
    /\ pc = "step"
    /\ Kind(top) = "explicit"
    /\ Decode(Schema[top.type].elem)
    /\ UNCHANGED <<input, root, der, stack>>

\* field_fn of a SET: no component twice; every component whose Rust type is
\* not an Option must be there, the DEFAULT ones too
SetComplete(d) ==
    /\ ~d.twice
    /\ \A i \in 1..Len(Fields(d)) :
          Fields(d)[i].mode \in {"required", "default"} => i \in d.seen

EndSet == IF SetComplete(top) THEN LeaveConstructed ELSE Propagate("err")

\* decode_set decodes a CHOICE of the components until that fails.
SetElement ==
    /\ pc = "step"
    /\ Kind(top) = "set"
    /\ LET matching == {i \in 1..Len(Fields(top)) :
                           HasIdentifier(top) /\ Fields(top)[i].tag = Peek(top).tag}
       IN  IF matching = {}
           THEN EndSet
           ELSE \E i \in matching :
                   /\ \A j \in matching : i <= j
                   /\ stack' = SetTop([top EXCEPT !.field = i])
                   /\ Decode(Fields(top)[i].type)
    /\ UNCHANGED <<input, root, der>>

(***************************************************************************)
(* A decode returns to the handler of the innermost decoder.               *)
(***************************************************************************)
Continue(d) == stack' = SetTop(d) /\ pc' = "step" /\ UNCHANGED <<goal, res>>

ReturnOk ==
    /\ pc = "return"
    /\ res = "ok"
    /\ \/ Kind(top) = "root" /\ pc' = "done" /\ UNCHANGED <<stack, goal, res>>
       \/ Kind(top) = "sequence" /\ Continue([top EXCEPT !.field = @ + 1])
       \/ Kind(top) \in {"sequenceOf", "setOf"} /\ Continue(top)
       \/ /\ Kind(top) = "set"
          /\ Continue([top EXCEPT !.seen = @ \cup {top.field},
                                  !.twice = @ \/ top.field \in top.seen])
       \/ Kind(top) = "explicit" /\ LeaveConstructed
    /\ UNCHANGED <<input, root, der>>

\* decode_optional_with_explicit_prefix turns every error into None.
SwallowsError(d) ==
    Kind(d) = "sequence" /\ Fields(d)[d.field].mode = "optionalExplicit"

\* Mutant: SET OF returns the error of the element that failed.
EndsCollectionNotSetOf(d) == Kind(d) \in {"sequenceOf", "set"} /\ res # "depth"

\* Mutant: the recursion limit ends a collection like any other error.
EndsCollectionAlways(d) == Kind(d) \in {"sequenceOf", "setOf", "set"}

\* decode_sequence_of, decode_set_of and decode_set end at an element that
\* fails, unless the recursion limit was hit.
EndsCollection(d) == Kind(d) \in {"sequenceOf", "setOf", "set"} /\ res # "depth"

ReturnErr ==
    /\ pc = "return"
    /\ res # "ok"
    /\ \/ /\ Kind(top) = "root"
          /\ pc' = "done"
          /\ UNCHANGED <<stack, goal, res>>
       \/ /\ SwallowsError(top)
          /\ Continue([top EXCEPT !.field = @ + 1])
       \/ /\ EndsCollection(top)
          /\ IF Kind(top) = "set" THEN EndSet ELSE LeaveConstructed
       \/ /\ Kind(top) # "root"
          /\ ~SwallowsError(top)
          /\ ~EndsCollection(top)
          /\ Propagate(res)
    /\ UNCHANGED <<input, root, der>>

Finished == pc = "done" /\ UNCHANGED vars

(***************************************************************************)
(* Specification.                                                          *)
(***************************************************************************)
Init ==
    /\ input \in Inputs
    /\ der \in BOOLEAN
    /\ root \in Roots
    /\ goal = root
    /\ stack = << [type |-> NoType, pos |-> 0, end |-> Len(input), depth |-> MaxDepth,
                   streaming |-> FALSE, field |-> 1, seen |-> {}, twice |-> FALSE] >>
    /\ pc = "decode"
    /\ res = "ok"

Next ==
    \/ DecodePrimitive \/ DecodeString \/ DecodeEncoded \/ DecodeChoice
    \/ EnterConstructed
    \/ SequenceEnd \/ SequenceField \/ SequenceOptional
    \/ CollectionElement \/ ExplicitContent \/ SetElement
    \/ ReturnOk \/ ReturnErr \/ Finished

Spec == Init /\ [][Next]_vars

\* A decode is one call that runs to its end.
FairSpec == Spec /\ WF_vars(Next)

(***************************************************************************)
(* Properties.                                                             *)
(***************************************************************************)
\* Every variable of the decoder and every nested `Decoder` keeps its type.
TypeOK ==
    /\ input \in Seq(Token)
    /\ root \in Roots
    /\ der \in BOOLEAN
    /\ stack \in Seq(Frame) /\ stack # << >>
    /\ pc \in {"decode", "step", "return", "done"}
    /\ goal \in Types
    /\ res \in {"ok", "err", "depth"}

\* The slice of a nested `Decoder` lies inside the slice of the decoder that
\* parse_constructed_contents created it from: a definite value's slice is
\* what that decoder has already moved past, an indefinite one shares its end.
SlicesNested ==
    /\ \A i \in 1..Len(stack) : stack[i].pos <= stack[i].end
    /\ \A i \in 2..Len(stack) :
          IF stack[i].streaming
          THEN stack[i].end = stack[i-1].end /\ stack[i-1].pos <= stack[i].pos
          ELSE stack[i].end = stack[i-1].pos

\* check_recursion_depth: with `remaining_depth` at d, at most d decoders can
\* still be nested, so their number never exceeds the configured limit,
\* whatever collections, SETs and explicit tags the path runs through.
NestingBounded == Len(stack) + stack[Len(stack)].depth <= MaxDepth + 1

\* The decoder implements BoundedReader: seen by the caller, whose decoder is
\* the outermost frame, its input moves forwards only, through errors that are
\* swallowed, collections that end at a failing element and nested decoders
\* that are dropped, and it ends with one outcome outside of all values.
Reader == INSTANCE BoundedReader WITH
    Limit <- MaxDepth,
    size <- Len(input),
    consumed <- stack[1].pos,
    level <- Len(stack) - 1,
    outcome <- IF pc = "done" THEN res ELSE "running"

ReadsForward == Reader!Spec

\* Decoding ends for every input: no loop over elements or components goes on
\* without consuming input, no recursive type recurses for ever.
Terminates == <>(pc = "done")
=============================================================================
