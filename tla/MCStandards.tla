----------------------------- MODULE MCStandards -----------------------------
(***************************************************************************)
(* The types of the standards in src/standards, through the derive macros  *)
(* and the BER, CER and DER codecs: a value of each type is encoded and    *)
(* decoded again.  The value has as little in it as the type allows, but   *)
(* for MaxChoices departures: an OPTIONAL component that is there, an      *)
(* element of a list, another alternative, a long string.                  *)
(***************************************************************************)
EXTENDS StdTraffic, StdPki, StdNet, BerCodec

CONSTANTS
    Absent,         \* no element
    Only,           \* the types to encode, all if empty
    Excluded        \* types left to the run standards_optional

\* What the derive macros make of the types of the standards
Declared == TrafficTypes @@ PkiTypes @@ NetTypes

S == INSTANCE Derive

\* As an alternative without a tag of its own, a CHOICE with an explicit tag is
\* encoded without that tag (encode_with_identifier in macros_impl/src/enum.rs:455
\* and 616), which Description does not have.  No CHOICE of the standards has
\* such an alternative.
ExplicitChoice == {n \in DOMAIN Declared : Declared[n].form = "choice" /\ Declared[n].explicit}
ASSUME NoExplicitAlternative ==
    \A n \in DOMAIN Declared : Declared[n].form = "choice" =>
        \A i \in 1..Len(Declared[n].parts) :
            LET ref == Declared[n].parts[i].type
            IN  S!PlaceTag(Declared[n], i) = Untagged =>
                    /\ ref[1] \notin ExplicitChoice
                    /\ ref[1] \in DOMAIN Declared /\ Declared[ref[1]].form \in {"alias", "delegate"}
                            => Declared[ref[1]].parts[1].type[1] \notin ExplicitChoice

StdTypes == LET calls == S!Calls(DOMAIN Declared) IN calls
StdSchema == LET calls == StdTypes IN S!Derived(calls) @@ << >>
StdPlain == LET schema == StdSchema IN S!LeastAlternatives(schema)

StdRoots == {<< << n >>, Untagged >> : n \in (IF Only = {} THEN DOMAIN Declared ELSE Only) \ Excluded}

\* TLC keeps the value of a definition, but evaluates what a configuration
\* substitutes for a constant at every use: hence the two names.
MCTypes == LET types == StdTypes IN types
MCSchema == LET schema == StdSchema IN schema
MCPlain == LET plain == StdPlain IN plain
MCRoots == LET roots == StdRoots IN roots
MCTags == 0..(4 * ClassSpan - 1)
MCAnyTokens == { << [kind |-> "tlv", tag |-> INTEGER, constructed |-> FALSE, len |-> 0] >> }
=============================================================================
