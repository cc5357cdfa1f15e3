------------------------------- MODULE Asn1Tag -------------------------------
(***************************************************************************)
(* Tags (src/src/types/tag.rs).  A tag is a number: its class, in units of *)
(* ClassSpan, and its value.  The order of the numbers is then the order   *)
(* of `Tag`, class before value.                                           *)
(***************************************************************************)
EXTENDS Naturals

\* Bound: the values of tags are smaller.
ClassSpan == 1000

Universal(n) == n
Application(n) == ClassSpan + n
Context(n) == 2 * ClassSpan + n
Private(n) == 3 * ClassSpan + n

Class(tag) == tag \div ClassSpan
Value(tag) == tag % ClassSpan

\* The universal tags
BOOL == 1
INTEGER == 2
BIT_STRING == 3
OCTET_STRING == 4
NULL == 5
OBJECT_IDENTIFIER == 6
EXTERNAL == 8
ENUMERATED == 10
UTF8_STRING == 12
SEQUENCE == 16
SET == 17
NUMERIC_STRING == 18
PRINTABLE_STRING == 19
TELETEX_STRING == 20
IA5_STRING == 22
UTC_TIME == 23
GENERALIZED_TIME == 24
VISIBLE_STRING == 26
GENERAL_STRING == 27
UNIVERSAL_STRING == 28
BMP_STRING == 30

\* encode_identifier: the first octet of an identifier, class before form
\* before number.  The universal tags of EXTERNAL, SEQUENCE and SET are written
\* as constructed in any case.
IdentifierOctet(tag, constructed) ==
    64 * Class(tag)
        + (IF constructed \/ tag \in {EXTERNAL, SEQUENCE, SET} THEN 32 ELSE 0)
        + (IF Value(tag) < 31 THEN Value(tag) ELSE 31)
=============================================================================
