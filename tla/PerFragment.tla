----------------------------- MODULE PerFragment -----------------------------
(***************************************************************************)
(* The length-determinant framing of the PER codec: the encoder's          *)
(* `encode_unconstrained_length` (src/src/per/enc.rs) cuts a value of      *)
(* `total` items into fragments, the decoder's `decode_unknown_length`     *)
(* (src/src/per/de.rs) puts them together again.                           *)
(*                                                                         *)
(* The wire is a sequence of cells.  A cell is a length determinant or one *)
(* item of the value; an item is known by its index.  `trailing` cells     *)
(* stand for whatever is encoded after the value.  One encoder action is   *)
(* one turn of the fragment loop.  The decoder's recursion is an explicit  *)
(* stack with one frame per activation that has decoded a fragment.        *)
(***************************************************************************)
EXTENDS Naturals, Sequences

CONSTANTS
    K,              \* SIXTEEN_K, the unit of fragmentation
    ShortMax,       \* 127, the longest length that fits one octet
    Totals,         \* the numbers of items a value may have
    MaxTrailing     \* bound on the cells that follow the value

ASSUME KAssumption == K \in Nat /\ K > 1
ASSUME ShortAssumption == ShortMax \in Nat /\ ShortMax < K
ASSUME TotalsAssumption == Totals \subseteq Nat
ASSUME TrailingAssumption == MaxTrailing \in Nat

VARIABLES
    total,          \* number of items of the value being encoded
    epc,            \* "loop" or "done": the encoder's control state
    length,         \* `length` of encode_unconstrained_length
    min,            \* `min`: the first item not yet emitted
    buffer,         \* the cells written so far
    trailing,       \* number of cells of the following field
    dpc,            \* "idle", "call", "return", "ok" or "err"
    input,          \* cells consumed: the decoder's current input slice
    stack,          \* activations of decode_unknown_length in their loop
    out             \* items handed to decode_fn, in order

encVars == <<total, epc, length, min, buffer, trailing>>
decVars == <<dpc, input, stack, out>>
vars == <<total, epc, length, min, buffer, trailing, dpc, input, stack, out>>

(***************************************************************************)
(* Cells.                                                                  *)
(***************************************************************************)
Item(i) == [kind |-> "item", n |-> i]
Short(n) == [kind |-> "short", n |-> n]       \* one octet, 0nnnnnnn
Long(n) == [kind |-> "long", n |-> n]         \* two octets, 10nnnnnn nnnnnnnn
Frag(n) == [kind |-> "frag", n |-> n]         \* one octet, 110000nn
Next_ == [kind |-> "next", n |-> 0]           \* a cell of the field that follows

Cell == [kind : {"item", "short", "long", "frag", "next"}, n : Nat]

\* Mutants of EncodeFn: an inclusive upper bound, an upper bound one too low, a
\* range that starts one too early
EncodeFnEarly(lo, hi) == [i \in 1..(hi - lo) |-> Item(lo + i - 2)]
EncodeFnInclusive(lo, hi) == [i \in 1..(hi - lo + 1) |-> Item(lo + i - 1)]
EncodeFnDropsLast(lo, hi) ==
    [i \in 1..(IF hi > lo THEN hi - lo - 1 ELSE 0) |-> Item(lo + i - 1)]

\* encode_fn(lo..hi): the items from lo up to, not including, hi
EncodeFn(lo, hi) == [i \in 1..(hi - lo) |-> Item(lo + i - 1)]

(***************************************************************************)
(* Encoder.                                                                *)
(***************************************************************************)
\* The `match length` of the loop: the largest of 64K, 48K, 32K and 16K that fits
FragmentIndex(len) ==
    IF len >= 4 * K THEN 4
    ELSE IF len >= 3 * K THEN 3
    ELSE IF len >= 2 * K THEN 2
    ELSE 1

\* The two arms for a length below 16K, also reached by the recursive call
\* that ends the loop.  Both call encode_fn(0..length), whatever `min` is.
EncodeShort ==
    /\ epc = "loop"
    /\ length < K
    /\ buffer' = buffer \o <<IF length <= ShortMax THEN Short(length) ELSE Long(length)>>
                        \o EncodeFn(0, length)
    /\ epc' = "done"
    /\ UNCHANGED <<total, length, min, trailing>>
    /\ UNCHANGED decVars

\* One turn of the loop that emits a fragment.
EncodeFragment ==
    /\ epc = "loop"
    /\ length >= K
    /\ LET amount == FragmentIndex(length) * K
           full == buffer \o <<Frag(FragmentIndex(length))>> \o EncodeFn(min, min + amount)
       IN  /\ min' = min + amount
           /\ IF length = K
              THEN /\ buffer' = full \o <<Short(0)>>
                   /\ epc' = "done"
                   /\ length' = length
              ELSE /\ buffer' = full
                   /\ length' = length - amount
                   /\ epc' = epc
    /\ UNCHANGED <<total, trailing>>
    /\ UNCHANGED decVars

Encode == EncodeShort \/ EncodeFragment

(***************************************************************************)
(* Decoder.                                                                *)
(***************************************************************************)
\* Everything the decoder can read: the value's encoding and what follows it
wire == buffer \o [i \in 1..trailing |-> Next_]

\* An activation in its loop: its own `input` and its fragment's `length`
Frame == [at : Nat, amount : Nat]

Remaining == Len(wire) - input

\* Mutants of CanTake and Taken: a check that refuses the last cell, and items
\* taken from one cell too early
CanTakeStrict(at, n) == at + n < Len(wire)
TakenShifted(at, n) == SubSeq(wire, at, at + n - 1)

\* decode_fn(input, n): take n cells or fail, as nom's streaming take does
CanTake(at, n) == at + n <= Len(wire)
Taken(at, n) == SubSeq(wire, at + 1, at + n)

\* How a cell reads as a length determinant.  A cell that was not written as
\* one holds arbitrary bits, and reads as any length determinant, valid or not.
Reads(cell) ==
    IF cell.kind \in {"short", "long", "frag"}
    THEN {cell}
    ELSE {Short(n) : n \in 0..ShortMax} \cup {Long(n) : n \in 0..(K - 1)}
         \cup {Frag(n) : n \in 0..5}

Fail == /\ dpc' = "err"
        /\ UNCHANGED <<input, stack, out>>

\* A decode starts on the finished encoding, at its first cell.
StartDecode ==
    /\ epc = "done"
    /\ dpc = "idle"
    /\ dpc' = "call"
    /\ UNCHANGED <<input, stack, out>>
    /\ UNCHANGED encVars

\* decode_unknown_length up to its loop: a short length is decoded and
\* returned, a fragment is decoded and its activation stays on the stack.
DecodeDeterminant ==
    /\ dpc = "call"
    /\ IF Remaining = 0
       THEN Fail
       ELSE \E hdr \in Reads(wire[input + 1]) :
            LET valid == hdr.kind # "frag" \/ hdr.n \in 1..4
                count == IF hdr.kind = "frag" THEN hdr.n * K ELSE hdr.n
            IN  IF ~valid \/ ~CanTake(input + 1, count)
                THEN Fail
                ELSE /\ out' = out \o Taken(input + 1, count)
                     /\ input' = input + 1 + count
                     /\ IF hdr.kind = "frag"
                        THEN /\ stack' = Append(stack, [at |-> input', amount |-> count])
                             /\ dpc' = "call"
                        ELSE /\ stack' = stack
                             /\ dpc' = "return"
    /\ UNCHANGED encVars

\* The body of the loop after the nested decode_length returned `new_input`
\* (here `input`): break with the activation's own `input`, or decode another
\* `length` items at new_input and go round.
DecodeLoop ==
    /\ dpc = "return"
    /\ stack # << >>
    /\ LET top == stack[Len(stack)]
           below == SubSeq(stack, 1, Len(stack) - 1)
       IN  IF input = top.at \/ Remaining = 0
           THEN /\ input' = top.at
                /\ stack' = below
                /\ UNCHANGED <<dpc, out>>
           ELSE IF ~CanTake(input, top.amount)
           THEN Fail
           ELSE /\ out' = out \o Taken(input, top.amount)
                /\ input' = input + top.amount
                /\ stack' = Append(below, [at |-> input', amount |-> top.amount])
                /\ dpc' = "call"
    /\ UNCHANGED encVars

\* The outermost activation returns to the caller.
DecodeReturn ==
    /\ dpc = "return"
    /\ stack = << >>
    /\ dpc' = "ok"
    /\ UNCHANGED <<input, stack, out>>
    /\ UNCHANGED encVars

Decode == StartDecode \/ DecodeDeterminant \/ DecodeLoop \/ DecodeReturn

(***************************************************************************)
(* Specification.                                                          *)
(***************************************************************************)
Init ==
    /\ total \in Totals
    /\ trailing \in 0..MaxTrailing
    /\ epc = "loop"
    /\ length = total
    /\ min = 0
    /\ buffer = << >>
    /\ dpc = "idle"
    /\ input = 0
    /\ stack = << >>
    /\ out = << >>

\* The call has returned; there is nothing left to do.
Finished == dpc \in {"ok", "err"} /\ UNCHANGED vars

Next == Encode \/ Decode \/ Finished

Spec == Init /\ [][Next]_vars

\* Both functions run to completion once called: nothing can preempt them.
FairSpec == Spec /\ WF_vars(Next)

(***************************************************************************)
(* Properties.                                                             *)
(***************************************************************************)
TypeOK ==
    /\ total \in Nat
    /\ epc \in {"loop", "done"}
    /\ length \in Nat
    /\ min \in Nat
    /\ buffer \in Seq(Cell)
    /\ trailing \in Nat
    /\ dpc \in {"idle", "call", "return", "ok", "err"}
    /\ input \in 0..Len(wire)
    /\ stack \in Seq(Frame)
    /\ \A i \in 1..Len(stack) : stack[i].at <= Len(wire)
    /\ out \in Seq(Cell)

\* The items in b ascend: none is written twice or out of order.
Ascending(b) ==
    \A i, j \in 1..Len(b) :
        (i < j /\ b[i].kind = "item" /\ b[j].kind = "item") => b[i].n < b[j].n

\* The items 0 .. n - 1 are all in b, and no other item is.
HoldsExactly(b, n) ==
    /\ \A k \in 0..(n - 1) : \E i \in 1..Len(b) : b[i] = Item(k)
    /\ \A i \in 1..Len(b) : b[i].kind = "item" => b[i].n < n

\* The value needed no short fragment after a full one: it was shorter than
\* 16K, or a whole number of fragments.
NoTail == min \in {0, total}

\* While encode_unconstrained_length loops, `min` and `length` split the value
\* between what the buffer holds, in order, and what is still to come.
LoopAccounts ==
    epc = "loop" => min + length = total /\ Ascending(buffer) /\ HoldsExactly(buffer, min)

\* A value that ends on a fragment boundary, or is not fragmented, is written
\* by encode_unconstrained_length completely, in order and once.
PayloadExact == (epc = "done" /\ NoTail) => Ascending(buffer) /\ HoldsExactly(buffer, total)

\* What decode_unknown_length can read: a value that is not fragmented, whatever
\* follows it, and one of exactly one fragment with nothing behind it.  (Its loop
\* goes on from the older of two positions, per/de.rs:260.)
Readable == total < K \/ (total \in {K, 2 * K, 3 * K, 4 * K} /\ trailing = 0)

\* decode_unknown_length never fails on such a value, and never returns wrong items
\* for one that is written completely when nothing follows it, or when it is not
\* fragmented.  A value that is not fragmented leaves the input exactly at the field
\* that follows, however long that is.
DecodesExact ==
    /\ dpc = "err" => ~Readable
    /\ dpc = "ok" =>
          /\ NoTail /\ (trailing = 0 \/ min = 0) => out = EncodeFn(0, total)
          /\ min = 0 => input = Len(buffer)

\* Every decode ends, and that of a value that can be read with success.
Terminates ==
    /\ <>(dpc \in {"ok", "err"})
    /\ Readable => <>(dpc = "ok")

(***************************************************************************)
(* What the README promises and the framing does not keep.                 *)
(***************************************************************************)
\* A finished encoding holds every item of the value ("the encoder can
\* correctly re-encode that value").
EncodesEverything == epc = "done" => HoldsExactly(buffer, total)
=============================================================================
