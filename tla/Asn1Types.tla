------------------------------ MODULE Asn1Types ------------------------------
(***************************************************************************)
(* A notation for the Rust types on which #[derive(AsnType, Encode,        *)
(* Decode)] stands, with what decides how they are tagged: the #[rasn]     *)
(* attributes of the type and of its components, and the types of these.   *)
(* Left out are the names of components, enumerations' values and          *)
(* constraints.                                                            *)
(***************************************************************************)
EXTENDS Integers, Sequences, TLC, Asn1Tag

Untagged == -1

\* A component or an alternative: its type, as the name behind the SEQUENCE OF
\* and SET OF it stands in, and its own attributes.
T(name) == [type |-> << name >>, tag |-> Untagged, explicit |-> FALSE,
            mode |-> "required", addition |-> FALSE]
SequenceOf(p) == [p EXCEPT !.type = << "SEQUENCE OF" >> \o @]
SetOf(p) == [p EXCEPT !.type = << "SET OF" >> \o @]

\* #[rasn(tag(class, n))], #[rasn(tag(explicit(class, n)))]
Implicit(tag, p) == [p EXCEPT !.tag = tag]
Explicit(tag, p) == [p EXCEPT !.tag = tag, !.explicit = TRUE]
I(n, p) == Implicit(Context(n), p)
E(n, p) == Explicit(Context(n), p)

\* Option<T>, #[rasn(default)], #[rasn(extension_addition)]
Opt(p) == [p EXCEPT !.mode = "optional"]
Def(p) == [p EXCEPT !.mode = "default"]
Add(p) == [p EXCEPT !.addition = TRUE]

\* Types
Type(form, parts) == [form |-> form, parts |-> parts, auto |-> FALSE,
                      tag |-> Untagged, explicit |-> FALSE]
Sequence(parts) == Type("sequence", parts)
Set(parts) == Type("set", parts)
Choice(parts) == Type("choice", parts)
Enumerated == Type("enumerated", << >>)
Null == Type("null", << >>)
Delegate(p) == Type("delegate", << p >>)
Alias(p) == Type("alias", << p >>)      \* pub type

\* #[rasn(automatic_tags)], #[rasn(tag(...))] on a type
Auto(t) == [t EXCEPT !.auto = TRUE]
Tagged(tag, t) == [t EXCEPT !.tag = tag]
ExplicitlyTagged(tag, t) == [t EXCEPT !.tag = tag, !.explicit = TRUE]
=============================================================================
