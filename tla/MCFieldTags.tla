----------------------------- MODULE MCFieldTags -----------------------------
(***************************************************************************)
(* canonical_sort and the checks of derive on every declaration of up to   *)
(* three fields, with untagged CHOICEs among them, and of four fields with *)
(* one tag each.                                                           *)
(***************************************************************************)
EXTENDS TagTree, FieldOrder

TagAt(c, v) == [class |-> c, value |-> v]
Tags == {TagAt(0, 2), TagAt(0, 3), TagAt(2, 0), TagAt(2, 1), TagAt(3, 1)}
FewTags == {TagAt(0, 2), TagAt(2, 0), TagAt(2, 1)}
LeavesOf(S) == {Leaf(t) : t \in S}
Pairs(S, T) == {Choice(<<a, b>>) : a \in S, b \in T}
Flat == Pairs(LeavesOf(FewTags), LeavesOf(FewTags))
Deep == Pairs(Flat \cup LeavesOf(Tags), Flat \cup LeavesOf(Tags))
            \cup {Choice(<<a, b, c>>) : a, b, c \in LeavesOf(Tags)}
            \cup {Choice(<<a, b, c>>) : a, c \in LeavesOf(FewTags), b \in Flat}
            \cup {Choice(<<Choice(<<a, b>>), c>>) : a, b \in Flat, c \in LeavesOf(FewTags)}

FieldsOf(n, trees, opts) == [name : {n}, tree : trees, optional : opts]
SmallTrees == LeavesOf(FewTags) \cup {Choice(<<Leaf(TagAt(0, 3)), Leaf(TagAt(2, 0))>>),
                                      Choice(<<Leaf(TagAt(2, 1)), Leaf(TagAt(2, 2))>>),
                                      Choice(<<Leaf(TagAt(0, 2)), Choice(<<Leaf(TagAt(0, 3))>>)>>)}

FieldTree == Deep \cup SmallTrees \cup LeavesOf(Tags)
MCDeclarations ==
    {<<f>> : f \in FieldsOf(1, FieldTree, {FALSE})}
        \cup {<<f, g, h>> : f \in FieldsOf(1, SmallTrees, BOOLEAN), g \in FieldsOf(2, SmallTrees, BOOLEAN),
                            h \in FieldsOf(3, SmallTrees, BOOLEAN)}
        \cup {<<f, g, h, k>> : f \in FieldsOf(1, LeavesOf(Tags), {TRUE}),
                               g \in FieldsOf(2, LeavesOf(Tags), {TRUE}),
                               h \in FieldsOf(3, LeavesOf(Tags), {TRUE}),
                               k \in FieldsOf(4, LeavesOf(Tags), {TRUE})}
MCField == {[name |-> n, tree |-> t, optional |-> o] : n \in 1..4, t \in FieldTree, o \in BOOLEAN}
MCTagOf(f) == SmallestTag(f.tree)

-----------------------------------------------------------------------------

AtStart == i = 1 /\ j = 2

\* is_unique refuses exactly the trees in which a tag occurs twice, at whatever
\* depth: what derive asserts of every CHOICE.
UniqueExactly ==
    AtStart => \A k \in 1..Len(declared) :
                  IsUnique(declared[k].tree) <=> IsInjective(Leaves(declared[k].tree))

\* Behind a run of OPTIONAL fields comes no field that starts with a tag of the
\* run (X.680, 25.6), which derive does not check.
Followed(fs) == \A run \in Runs(fs) : run[2] < Len(fs) =>
                    \A k \in run[1]..run[2] : ~TreeContains(fs[k].tree, <<fs[run[2] + 1].tree>>)

\* The tag field f starts with: its own, or that of the first or last alternative
TagIn(f, last) == LET tags == Leaves(f.tree) IN IF last THEN tags[Len(tags)] ELSE tags[1]

\* What derive accepts is read as it was written: whichever OPTIONAL fields are
\* there, each of them takes its own element and no other.  Where an untagged
\* CHOICE is absent the decoder may report an error instead.
ReadsOwn ==
    AtStart /\ Accepted(declared) /\ Followed(declared) =>
        \A absent \in SUBSET {k \in 1..Len(declared) : declared[k].optional} :
        \A last \in SUBSET {k \in 1..Len(declared) : declared[k].tree.choice} :
            LET there == SelectSeq([k \in 1..Len(declared) |-> k], LAMBDA k : k \notin absent)
                tags == [k \in 1..Len(there) |-> TagIn(declared[there[k]], there[k] \in last)]
                read == ReadFields(declared, tags)
            IN  \/ read.ok /\ read.got = there /\ read.rest = << >>
                \/ ~read.ok /\ \E k \in absent : declared[k].tree.choice

\* With the alternatives of every untagged CHOICE in the order of their tags,
\* the fields of a SET are sorted into the canonical order of X.680: by the
\* smallest tag that each may start with.
SetOrderCanonical ==
    ~Sorting /\ (\A k \in 1..Len(fields) : Ascending(fields[k].tree)) =>
        \A a, b \in 1..Len(fields) : a < b => ~Less(Least(fields[b].tree), Least(fields[a].tree))
=============================================================================
