----------------------------- MODULE FieldOrder ------------------------------
(***************************************************************************)
(* Fields::canonical_sort (src/src/types/fields.rs): the order in which    *)
(* the OER decoder reads the fields of a SET.  The sort runs in constants, *)
(* where only loops over indices may be used: every field is compared with *)
(* those behind it, and exchanged with the ones that have a smaller tag.   *)
(***************************************************************************)
EXTENDS Integers, Sequences

CONSTANTS
    Field,          \* fields of constructed types
    TagOf(_),       \* tag_tree.smallest_tag() of a field
    Declarations    \* the lists of fields to sort

Tag == [class : 0..3, value : Nat]
Distinct(s) == \A a, b \in 1..Len(s) : s[a] = s[b] => a = b

ASSUME FieldAssumption ==
    /\ \A f \in Field : TagOf(f) \in Tag
    /\ \A d \in Declarations : d \in Seq(Field) /\ Distinct(d)

VARIABLES
    declared,       \* the fields as declared
    fields,         \* self.fields
    i, j            \* the indices of the two loops, from 1

vars == <<declared, fields, i, j>>

-----------------------------------------------------------------------------

\* const_cmp: class before value
Greater(a, b) == a.class > b.class \/ (a.class = b.class /\ a.value > b.value)

Init ==
    /\ declared \in Declarations
    /\ fields = declared
    /\ i = 1 /\ j = 2

\* Mutant: one field is copied over the other.
ExchangeLost == [fields EXCEPT ![i] = fields[j]]

\* temp
Exchange == [fields EXCEPT ![i] = fields[j], ![j] = fields[i]]

Compare ==
    /\ i <= Len(fields) /\ j <= Len(fields)
    /\ fields' = IF Greater(TagOf(fields[i]), TagOf(fields[j])) THEN Exchange ELSE fields
    /\ j' = j + 1
    /\ UNCHANGED <<declared, i>>

\* Mutant: the inner loop starts one field too late.
AdvanceTwice ==
    /\ i <= Len(fields) /\ j > Len(fields)
    /\ i' = i + 1
    /\ j' = i + 3
    /\ UNCHANGED <<declared, fields>>

Advance ==
    /\ i <= Len(fields) /\ j > Len(fields)
    /\ i' = i + 1
    /\ j' = i + 2
    /\ UNCHANGED <<declared, fields>>

Sorting == i <= Len(fields)
Return == ~Sorting /\ UNCHANGED vars

Next == Compare \/ Advance \/ Return
Spec == Init /\ [][Next]_vars

-----------------------------------------------------------------------------

TypeOK ==
    /\ declared \in Declarations
    /\ fields \in Seq(Field) /\ Len(fields) = Len(declared)
    /\ i \in 1..(Len(fields) + 1)
    /\ j \in (i + 1)..(Len(fields) + 2)

Ordered(a, b) == ~Greater(TagOf(fields[a]), TagOf(fields[b]))

\* canonical_sort ends with the fields in the order of their tags: what
\* decode_set of OER relies on to read the components in the order in which
\* the encoder's map, keyed by tag, wrote them.
Sorted == ~Sorting => \A a, b \in 1..Len(fields) : a < b => Ordered(a, b)

\* At no moment of the exchanges is a field lost or there twice.
Permuted ==
    /\ Distinct(fields)
    /\ \A a \in 1..Len(declared) : \E b \in 1..Len(fields) : fields[b] = declared[a]
    /\ \A b \in 1..Len(fields) : \E a \in 1..Len(declared) : fields[b] = declared[a]

\* The inductive invariant: what lies before i is in place, and the field at i
\* is not behind any of those it was compared with.
SortInv ==
    /\ TypeOK
    /\ Permuted
    /\ \A a, b \in 1..Len(fields) : a < i /\ a < b => Ordered(a, b)
    /\ \A b \in 1..Len(fields) : i < b /\ b < j => Ordered(i, b)
=============================================================================
