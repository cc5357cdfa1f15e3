------------------------------- MODULE TagTree -------------------------------
(***************************************************************************)
(* Tag trees (src/src/types/tag.rs): the tags a value of a type may start  *)
(* with.  A tree is the tag of a type, or a CHOICE of trees.  The derive   *)
(* macros use them to refuse types whose encodings would be ambiguous, the *)
(* codecs to order the fields of a SET.                                    *)
(***************************************************************************)
EXTENDS Integers, Sequences, SequencesExt, FiniteSetsExt

CONSTANT MaxValue       \* u32::MAX

Leaf(t) == [tag |-> t, nodes |-> << >>, choice |-> FALSE]
Choice(nodes) == [tag |-> [class |-> 3, value |-> MaxValue], nodes |-> nodes, choice |-> TRUE]

\* Mutant: the classes are not looked at.
ConstLessThanValue(a, b) == a.value < b.value

\* const_less_than: class and value, both
ConstLessThan(a, b) == a.class < b.class /\ a.value < b.value

\* smallest_tag, from Private(u32::MAX) on
RECURSIVE SmallestTag(_)
SmallestTag(tree) ==
    FoldLeft(LAMBDA tag, node : LET next == SmallestTag(node)
                                IN  IF ConstLessThan(next, tag) THEN next ELSE tag,
             tree.tag, tree.nodes)

\* tag_contains, tree_contains
RECURSIVE TagContains(_, _)
TagContains(tag, nodes) ==
    \E k \in 1..Len(nodes) : IF nodes[k].choice THEN TagContains(tag, nodes[k].nodes)
                             ELSE nodes[k].tag = tag

RECURSIVE TreeContains(_, _)
TreeContains(tree, nodes) ==
    IF tree.choice THEN \E k \in 1..Len(tree.nodes) : TreeContains(tree.nodes[k], nodes)
    ELSE TagContains(tree.tag, nodes)

Behind(nodes, k) == SubSeq(nodes, k + 1, Len(nodes))

\* Mutant of IsUniqueSet: the alternatives of a CHOICE are compared with each
\* other only.
RECURSIVE IsUniqueSet(_)
IsUniqueSetApart(nodes) ==
    \A k \in 1..Len(nodes) :
        IF nodes[k].choice THEN IsUniqueSet(nodes[k].nodes)
        ELSE ~TagContains(nodes[k].tag, Behind(nodes, k))

\* is_unique_set: every node against those behind it
IsUniqueSet(nodes) ==
    \A k \in 1..Len(nodes) :
        IF nodes[k].choice
        THEN /\ IsUniqueSet(nodes[k].nodes)
             /\ \A m \in 1..Len(nodes[k].nodes) : ~TreeContains(nodes[k].nodes[m], Behind(nodes, k))
        ELSE ~TagContains(nodes[k].tag, Behind(nodes, k))

IsUnique(tree) == tree.choice => IsUniqueSet(tree.nodes)

-----------------------------------------------------------------------------

(***************************************************************************)
(* Fields: [name, tree, optional].                                         *)
(***************************************************************************)

\* The longest runs of OPTIONAL and DEFAULT fields (chunk_by)
Runs(fs) == {<<a, b>> \in (1..Len(fs)) \X (1..Len(fs)) :
                /\ \A k \in a..b : fs[k].optional
                /\ a <= b
                /\ a = 1 \/ ~fs[a - 1].optional
                /\ b = Len(fs) \/ ~fs[b + 1].optional}

Trees(fs, run) == [k \in 1..(run[2] - run[1] + 1) |-> fs[run[1] + k - 1].tree]

\* Mutant: fields are compared with the next one only.
AcceptedNext(fs) ==
    \A run \in Runs(fs) : \A k \in run[1]..(run[2] - 1) : IsUniqueSet(Trees(fs, <<k, k + 1>>))

\* all_optional_tags_are_unique: what derive(AsnType) asserts of the fields
Accepted(fs) == \A run \in Runs(fs) : IsUnique(Choice(Trees(fs, run)))

\* Reading the fields of a SEQUENCE by BER from the tags of the elements that
\* are there: decode_optional, decode and from_tag.  An untagged CHOICE is
\* entered without a look at the tag.
ReadField(st, f) ==
    LET here == st.rest # << >> /\ TagContains(Head(st.rest), <<f.tree>>)
        skipped == f.optional /\ (st.rest = << >> \/ (~f.tree.choice /\ ~here))
    IN  IF here THEN [st EXCEPT !.rest = Tail(@), !.got = Append(@, f.name)]
        ELSE [st EXCEPT !.ok = @ /\ skipped]
ReadFields(fs, tags) == FoldLeft(ReadField, [rest |-> tags, got |-> << >>, ok |-> TRUE], fs)

-----------------------------------------------------------------------------

\* The reference: the tags of a tree from left to right
RECURSIVE Leaves(_)
Leaves(tree) == IF tree.choice THEN FlattenSeq([k \in 1..Len(tree.nodes) |-> Leaves(tree.nodes[k])])
                ELSE <<tree.tag>>

\* X.680, 8.6: the canonical order of tags
Less(a, b) == a.class < b.class \/ (a.class = b.class /\ a.value < b.value)
Least(tree) == LET tags == ToSet(Leaves(tree))
               IN  CHOOSE t \in tags : \A u \in tags : t = u \/ Less(t, u)

\* Trees of which smallest_tag finds the smallest tag: the alternatives come in
\* the order of their tags, and not all of them are private.
Ascending(tree) ==
    LET tags == Leaves(tree)
    IN  tree.choice => /\ tags # << >> /\ tags[1].class < 3
                       /\ \A k \in 1..(Len(tags) - 1) : Less(tags[k], tags[k + 1])
=============================================================================
