------------------------------ MODULE CallStack ------------------------------
(***************************************************************************)
(* The calls under way in a decoder of the packed or the octet encoding    *)
(* rules, each with the decoder it works with: a slice of the input.       *)
(*                                                                         *)
(* A SEQUENCE, SET, list or CHOICE works on the rest of its caller's slice *)
(* and hands back where it stopped.  The value of an extension addition,   *)
(* and of an extended alternative, is cut out first: its slice is its own, *)
(* and the caller goes on behind it.                                       *)
(***************************************************************************)
EXTENDS Integers, Sequences, FiniteSets

CONSTANTS
    Type, Kind, Fields, Extensible,     \* as in OerEncoder and PerEncoder
    Absent,                             \* no value
    MaxDepth                            \* DecoderOptions::remaining_depth

Constructed == {"sequence", "set"}

\* A decoded value: its type, its number or alternative, its components
Decoded(t, i, c) == [type |-> t, alt |-> i, child |-> c]

Front(s) == SubSeq(s, 1, Len(s) - 1)
Top(s) == s[Len(s)]

\* A call: the slice from `pos` to `end`, the depth left, and which optional fields
\* and which additions are present.  `extensions` is extensions_present: "none",
\* "unread" or "read".  `own` says that the slice was cut out of the caller's.
\* `order` lists the fields that are decoded, `got` their values so far, and `left`
\* is the number of items of a list.
CallOf(call, t, pos, end, depth, own) ==
    [call |-> call, type |-> t, alt |-> 0, pos |-> pos, end |-> end, depth |-> depth, own |-> own,
     present |-> << >>, extensions |-> "none", additions |-> << >>, left |-> 0,
     order |-> << >>, got |-> << >>]

\* decode() of n items of input as a t
Outermost(t, n) == <<CallOf("root", t, 1, n, MaxDepth, FALSE)>>

\* check_recursion_depth
Exceeds(d) == d = 0

RootFields(t) == {i \in 1..Len(Fields[t]) : ~Fields[t][i].ext}
OptFields(t) == {i \in RootFields(t) : Fields[t][i].opt}

\* The fields of the extension root by tag (Fields::canonised)
TagOrder(t) ==
    LET Before(i) == {j \in RootFields(t) : Fields[t][j].tag < Fields[t][i].tag}
    IN  [k \in 1..Cardinality(RootFields(t)) |->
            CHOOSE i \in RootFields(t) : Cardinality(Before(i)) = k - 1]
DecodeOrder(t) == IF Kind[t] = "set" THEN TagOrder(t) ELSE [i \in 1..Len(Fields[t]) |-> i]

\* All components are there.  Those of a SET are put in their places.
Placed(c) == IF c.call # "set" THEN c.got
             ELSE [i \in 1..Len(c.got) |-> c.got[CHOOSE k \in 1..Len(c.got) : c.order[k] = i]]
Complete(c) == IF c.call \in Constructed THEN Len(c.got) = Len(c.order)
               ELSE IF c.call = "list" THEN Len(c.got) = c.left
               ELSE Len(c.got) = 1

-----------------------------------------------------------------------------

\* c is inside the n items of input, and inside the slice of its caller or, cut out,
\* before where the caller goes on
Inside(c, n) == 1 <= c.pos /\ c.pos <= c.end + 1 /\ c.end <= n
Within(c, caller) == IF c.own THEN c.end < caller.pos
                     ELSE c.end = caller.end /\ caller.pos <= c.pos

\* The slices nest, and there are no more of them than the depth limit allows: for
\* every level a constructed value and the addition it is in
Nests(calls, n) ==
    /\ \A i \in 1..Len(calls) : Inside(calls[i], n)
    /\ \A i \in 2..Len(calls) : Within(calls[i], calls[i - 1])
    /\ Len(calls) <= 2 * MaxDepth + 1

\* What had been decoded is still there.
Retains(got, more) == Len(got) <= Len(more) /\ \A k \in 1..Len(got) : more[k] = got[k]
\* d is the call c further on: on the same slice, and not before where it was.
Continues(c, d) == d.end = c.end /\ c.pos <= d.pos /\ Retains(c.got, d.got)

\* One call begins or returns at a time, the others go on, and what the innermost call
\* has read is not read again, neither by the call it begins nor by its caller.
Proceeds(before, after) ==
    /\ Len(after) \in (Len(before) - 1)..(Len(before) + 1)
    /\ \A i \in 1..Len(before) : i <= Len(after) => Continues(before[i], after[i])
    /\ Top(before).pos <= Top(after).pos
====
