------------------------------- MODULE Derive --------------------------------
(***************************************************************************)
(* What #[derive(AsnType, Encode, Decode)] makes of a type                 *)
(* (src/macros/macros_impl/src), as far as BER, CER and DER see it: which  *)
(* encoder and decoder calls, with which tags.                             *)
(*                                                                         *)
(* A reference to a type is a sequence: "SEQUENCE OF", "SET OF" or         *)
(* "EXPLICIT" before the name of a type.  A call is a reference and a tag: *)
(* encode_with_tag and decode_with_tag, or encode and decode if it is      *)
(* Untagged.  Description gives each call the form that BerEncoder and     *)
(* BerDecoder interpret.                                                   *)
(***************************************************************************)
EXTENDS Asn1Types, SequencesExt

CONSTANTS
    Declared,       \* Declared[name]: a type in the notation of Asn1Types
    Absent          \* no element

EOC_TAG == 0

\* The types that src/src/types provides: how they are encoded, and TAG
Builtin ==
    "BOOLEAN" :> <<"primitive", BOOL>> @@ "INTEGER" :> <<"primitive", INTEGER>>
    @@ "NULL" :> <<"primitive", NULL>> @@ "OBJECT IDENTIFIER" :> <<"primitive", OBJECT_IDENTIFIER>>
    @@ "ANY" :> <<"any", EOC_TAG>> @@ "BIT STRING" :> <<"bits", BIT_STRING>>
    @@ "OCTET STRING" :> <<"string", OCTET_STRING>> @@ "UTF8String" :> <<"string", UTF8_STRING>>
    @@ "IA5String" :> <<"string", IA5_STRING>> @@ "BMPString" :> <<"string", BMP_STRING>>
    @@ "PrintableString" :> <<"string", PRINTABLE_STRING>>
    @@ "NumericString" :> <<"string", NUMERIC_STRING>>
    @@ "TeletexString" :> <<"string", TELETEX_STRING>>
    @@ "VisibleString" :> <<"string", VISIBLE_STRING>>
    @@ "GeneralString" :> <<"string", GENERAL_STRING>>
    @@ "UniversalString" :> <<"string", UNIVERSAL_STRING>>
    @@ "GeneralizedTime" :> <<"primitive", GENERALIZED_TIME>>
    @@ "UTCTime" :> <<"primitive", UTC_TIME>> @@ "INSTANCE OF" :> <<"instance", EXTERNAL>>

IsBuiltin(ref) == ref[1] \in DOMAIN Builtin
Of(ref) == Declared[ref[1]]

\* AsnType::TAG: tag_for_struct, and impl_asntype of an enum
RECURSIVE TagOf(_)
TagOf(ref) ==
    IF ref[1] = "SEQUENCE OF" THEN SEQUENCE
    ELSE IF ref[1] = "SET OF" THEN SET
    ELSE IF IsBuiltin(ref) THEN Builtin[ref[1]][2]
    ELSE LET d == Of(ref) IN
         CASE d.tag # Untagged -> d.tag
           [] d.tag = Untagged /\ d.form \in {"delegate", "alias"} -> TagOf(d.parts[1].type)
           [] d.tag = Untagged /\ d.form = "null" -> NULL
           [] d.tag = Untagged /\ d.form = "set" -> SET
           [] d.tag = Untagged /\ d.form = "sequence" -> SEQUENCE
           [] d.tag = Untagged /\ d.form = "enumerated" -> ENUMERATED
           [] d.tag = Untagged /\ d.form = "choice" -> EOC_TAG

\* Mutant: automatic tags do not count.
PlaceTagStuck(d, i) == IF d.auto THEN Context(0) ELSE d.parts[i].tag

\* The tag at the place of a component or an alternative (FieldConfig::tag,
\* VariantConfig::tag without the type's own one): counted with automatic_tags
PlaceTag(d, i) == IF d.auto THEN Context(i - 1) ELSE d.parts[i].tag

\* AsnType::TAG_TREE and VariantConfig::tag_tree: of a CHOICE the tags of its
\* alternatives, of Any none, of any other type TAG
RECURSIVE TagTree(_)
TagTree(ref) ==
    IF ref[1] \in DOMAIN Declared /\ Of(ref).form = "alias" THEN TagTree(Of(ref).parts[1].type)
    ELSE IF ref[1] \in DOMAIN Declared /\ Of(ref).form = "choice" /\ Of(ref).tag = Untagged
    THEN UNION {IF PlaceTag(Of(ref), i) # Untagged THEN {PlaceTag(Of(ref), i)}
                ELSE TagTree(Of(ref).parts[i].type) : i \in 1..Len(Of(ref).parts)}
    ELSE IF ref[1] = "ANY" THEN {} ELSE {TagOf(ref)}

\* What the code generated for a component or an alternative calls.  With an
\* addition the call always has a tag.
Call(d, i) ==
    LET p == d.parts[i]
        tag == PlaceTag(d, i)
    IN  IF p.explicit THEN << << "EXPLICIT" >> \o p.type, tag >>
        ELSE << p.type, IF p.addition /\ tag = Untagged THEN TagOf(p.type) ELSE tag >>

\* FieldConfig::encode and decode.  In a SET, where a component is selected by
\* its tag, an explicit tag makes no difference.
DeriveField(d, i) ==
    LET p == d.parts[i] IN
    [type |-> Call(d, i),
     mode |-> IF p.explicit /\ p.mode # "required" /\ d.form # "set"
              THEN "optionalExplicit" ELSE p.mode,
     tag |-> IF PlaceTag(d, i) # Untagged THEN PlaceTag(d, i) ELSE TagOf(p.type)]

\* Mutant: an alternative without a tag is selected by TAG.
DeriveVariantFlat(d, i) ==
    [type |-> Call(d, i),
     tree |-> {IF PlaceTag(d, i) # Untagged THEN PlaceTag(d, i) ELSE TagOf(d.parts[i].type)}]

\* VariantConfig::decode
DeriveVariant(d, i) ==
    [type |-> Call(d, i),
     tree |-> IF PlaceTag(d, i) # Untagged THEN {PlaceTag(d, i)} ELSE TagTree(d.parts[i].type)]

Described(kind, tag, elem, fields, alts) ==
    [kind |-> kind, tag |-> tag, elem |-> elem, fields |-> fields, alts |-> alts]
Holding(kind, tag, ref) == Described(kind, tag, << ref, Untagged >>, << >>, << >>)
Leaf(kind, tag) == Described(kind, tag, Absent, << >>, << >>)
DeriveStruct(kind, d, tag) ==
    Described(kind, tag, Absent, [i \in 1..Len(d.parts) |-> DeriveField(d, i)], << >>)
DeriveEnum(d) ==
    Described("choice", EOC_TAG, Absent, << >>,
              [i \in 1..Len(d.parts) |-> DeriveVariant(d, i)])

\* InstanceOf<T>: the object identifier, and a value behind an explicit tag
InstanceOf(tag) ==
    DeriveStruct("sequence", Sequence(<< T("OBJECT IDENTIFIER"), E(0, T("ANY")) >>), tag)

\* The code that derive_struct_impl and derive_enum_impl generate for a type,
\* called with a tag.  An explicit tag of a struct wins over that of the call,
\* and is put before an inner struct (map_to_inner_type, map_from_inner_type)
\* that is always a SEQUENCE and whose components are never tagged
\* automatically.  (An alternative without a tag is no CHOICE with an explicit
\* one: NoExplicitAlternative in MCStandards.)
RECURSIVE Description(_, _)
Description(ref, tag) ==
    LET given == IF tag = Untagged THEN TagOf(ref) ELSE tag
        d == Of(ref)
    IN  CASE ref[1] = "EXPLICIT" -> Holding("explicit", tag, Tail(ref))
          [] ref[1] = "SEQUENCE OF" -> Holding("sequenceOf", given, Tail(ref))
          [] ref[1] = "SET OF" -> Holding("setOf", given, Tail(ref))
          [] ref[1] = "INNER" ->
                IF Declared[ref[2]].form = "choice" THEN DeriveEnum(Declared[ref[2]])
                ELSE DeriveStruct("sequence", Sequence(Declared[ref[2]].parts), SEQUENCE)
          [] IsBuiltin(ref) ->
                IF ref[1] = "INSTANCE OF" THEN InstanceOf(given)
                ELSE Leaf(Builtin[ref[1]][1], given)
          [] ref[1] \in DOMAIN Declared ->
                CASE d.form = "alias" -> Description(d.parts[1].type, tag)
                  [] d.form = "delegate" ->
                        IF d.explicit THEN Holding("explicit", given, d.parts[1].type)
                        ELSE Description(d.parts[1].type, IF given = EOC_TAG THEN Untagged ELSE given)
                  [] d.form = "enumerated" -> Leaf("primitive", given)
                  [] d.form = "choice" ->
                        IF d.explicit THEN Holding("explicit", given, << "INNER", ref[1] >>)
                        ELSE IF tag = Untagged THEN DeriveEnum(d)
                        ELSE Holding("explicit", tag, ref)
                  [] d.form \in {"sequence", "set", "null"} ->
                        IF d.explicit THEN Holding("explicit", d.tag, << "INNER", ref[1] >>)
                        ELSE DeriveStruct(IF d.form = "set" THEN "set" ELSE "sequence", d, given)

(***************************************************************************)
(* All calls that a set of types leads to.                                 *)
(***************************************************************************)
Uses(c) ==
    LET d == Description(c[1], c[2]) IN
    (IF d.elem = Absent THEN {} ELSE {d.elem})
        \cup {d.fields[i].type : i \in 1..Len(d.fields)}
        \cup {d.alts[i].type : i \in 1..Len(d.alts)}

RECURSIVE Closure(_, _)
Closure(known, new) ==
    IF new = {} THEN known
    ELSE LET more == (UNION {Uses(c) : c \in new}) \ (known \cup new)
         IN  Closure(known \cup new, more)

Calls(names) == Closure({}, {<< << n >>, Untagged >> : n \in names})

\* What the schema of a codec is made of
Derived(calls) == [c \in calls |-> Description(c[1], c[2])]

(***************************************************************************)
(* For each CHOICE an alternative with a value of least height.            *)
(***************************************************************************)
Ready(schema, done, c) ==
    LET d == schema[c] IN
    CASE d.kind \in {"primitive", "string", "bits", "any", "sequenceOf", "setOf"} -> TRUE
      [] d.kind = "explicit" -> d.elem \in done
      [] d.kind \in {"sequence", "set"} ->
            \A i \in 1..Len(d.fields) : d.fields[i].mode = "required" => d.fields[i].type \in done
      [] d.kind = "choice" -> \E i \in 1..Len(d.alts) : d.alts[i].type \in done

RECURSIVE Least(_, _, _)
Least(schema, done, plain) ==
    LET new == {c \in DOMAIN schema \ done : Ready(schema, done, c)}
        first(c) == SelectInSeq(schema[c].alts, LAMBDA a : a.type \in done)
        chosen == [c \in {x \in new : schema[x].kind = "choice"} |-> first(c)]
    IN  IF new = {} THEN plain ELSE Least(schema, done \cup new, plain @@ chosen)

LeastAlternatives(schema) == Least(schema, {}, << >>)
=============================================================================
