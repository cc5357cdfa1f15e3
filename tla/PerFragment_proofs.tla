------------------------- MODULE PerFragment_proofs --------------------------
(***************************************************************************)
(* Proofs about PerFragment, for every fragment size, every value length   *)
(* and every amount of trailing input.                                     *)
(***************************************************************************)
EXTENDS PerFragment, TLAPS

(***************************************************************************)
(* Facts about the cells and about appending them.                         *)
(***************************************************************************)
\* encode_fn(lo..hi) yields hi - lo items, the i-th of them lo + i - 1.
LEMMA EncodeFnFacts ==
    ASSUME NEW lo \in Nat, NEW hi \in Nat, lo <= hi
    PROVE  /\ EncodeFn(lo, hi) \in Seq(Cell)
           /\ Len(EncodeFn(lo, hi)) = hi - lo
           /\ \A i \in 1..(hi - lo) : EncodeFn(lo, hi)[i] = Item(lo + i - 1)
BY DEF EncodeFn, Cell, Item

\* The fragment chosen by the loop fits what is left of the value.
LEMMA FragmentFits ==
    ASSUME NEW len \in Nat, len >= K
    PROVE  /\ FragmentIndex(len) \in 1..4
           /\ FragmentIndex(len) * K \in Nat
           /\ FragmentIndex(len) * K <= len
           /\ FragmentIndex(len) * K >= K
           /\ len = K => FragmentIndex(len) * K = K
BY KAssumption DEF FragmentIndex

\* Cells that are not items do not change what a buffer holds.
LEMMA AppendHeader ==
    ASSUME NEW b \in Seq(Cell), NEW n \in Nat, NEW hdr \in Cell,
           hdr.kind # "item", Ascending(b), HoldsExactly(b, n)
    PROVE  /\ b \o <<hdr>> \in Seq(Cell)
           /\ Ascending(b \o <<hdr>>)
           /\ HoldsExactly(b \o <<hdr>>, n)
<1> DEFINE c == b \o <<hdr>>
<1>1. c \in Seq(Cell) /\ Len(c) = Len(b) + 1
  OBVIOUS
<1>2. \A i \in 1..Len(c) : c[i] = IF i <= Len(b) THEN b[i] ELSE hdr
  OBVIOUS
<1>3. Ascending(c)
  BY <1>1, <1>2 DEF Ascending
<1>4. \A k \in 0..(n - 1) : \E i \in 1..Len(c) : c[i] = Item(k)
  <2> TAKE k \in 0..(n - 1)
  <2>1. PICK i \in 1..Len(b) : b[i] = Item(k)
    BY DEF HoldsExactly
  <2>2. i \in 1..Len(c) /\ c[i] = Item(k)
    BY <1>1, <1>2, <2>1
  <2> QED
    BY <2>2
<1>5. \A i \in 1..Len(c) : c[i].kind = "item" => c[i].n < n
  BY <1>1, <1>2 DEF HoldsExactly
<1> QED
  BY <1>1, <1>3, <1>4, <1>5 DEF HoldsExactly

\* Appending the next items lo .. hi - 1 to a buffer that holds the first lo
\* gives a buffer that holds the first hi.
LEMMA AppendItems ==
    ASSUME NEW b \in Seq(Cell), NEW lo \in Nat, NEW hi \in Nat, lo <= hi,
           Ascending(b), HoldsExactly(b, lo)
    PROVE  /\ b \o EncodeFn(lo, hi) \in Seq(Cell)
           /\ Ascending(b \o EncodeFn(lo, hi))
           /\ HoldsExactly(b \o EncodeFn(lo, hi), hi)
<1> DEFINE e == EncodeFn(lo, hi)
           c == b \o e
<1>1. /\ e \in Seq(Cell)
      /\ Len(e) = hi - lo
      /\ \A i \in 1..(hi - lo) : e[i] = Item(lo + i - 1)
  BY EncodeFnFacts
<1> HIDE DEF e
<1>2. c \in Seq(Cell) /\ Len(c) = Len(b) + (hi - lo)
  BY <1>1
<1>3. \A i \in 1..Len(b) : c[i] = b[i]
  BY <1>1
<1>4. \A i \in 1..(hi - lo) : c[Len(b) + i] = Item(lo + i - 1)
  BY <1>1
<1>5. \A i \in 1..Len(c) : i > Len(b) => c[i].kind = "item" /\ c[i].n = lo + (i - Len(b)) - 1
  <2> SUFFICES ASSUME NEW i \in 1..Len(c), i > Len(b)
               PROVE  c[i].kind = "item" /\ c[i].n = lo + (i - Len(b)) - 1
    OBVIOUS
  <2>1. i - Len(b) \in 1..(hi - lo) /\ Len(b) + (i - Len(b)) = i
    BY <1>2
  <2>2. c[i] = Item(lo + (i - Len(b)) - 1)
    BY <1>4, <2>1
  <2> QED
    BY <2>2 DEF Item
<1> HIDE DEF c
<1>6. \A i \in 1..Len(b) : b[i].kind = "item" => b[i].n < lo
  BY DEF HoldsExactly
<1>6a. \A i \in 1..Len(b) : b[i].n \in Nat
  <2>1. \A i \in 1..Len(b) : b[i] \in Cell
    OBVIOUS
  <2>2. \A x \in Cell : x.n \in Nat
    BY DEF Cell
  <2> QED
    BY <2>1, <2>2
<1>7. Ascending(c)
  <2> SUFFICES ASSUME NEW i \in 1..Len(c), NEW j \in 1..Len(c), i < j,
                      c[i].kind = "item", c[j].kind = "item"
               PROVE  c[i].n < c[j].n
    BY DEF Ascending
  <2>1. CASE j <= Len(b)
    BY <1>2, <1>3, <2>1, SMTT(30) DEF Ascending
  <2>2. CASE i <= Len(b) /\ j > Len(b)
    <3>1. i \in 1..Len(b) /\ c[i] = b[i]
      BY <1>2, <1>3, <2>2
    <3>2. b[i].n < lo /\ b[i].n \in Nat
      BY <1>6, <1>6a, <3>1
    <3>3. c[j].n = lo + (j - Len(b)) - 1
      BY <1>5, <2>2
    <3> QED
      BY <1>2, <2>2, <3>1, <3>2, <3>3
  <2>3. CASE i > Len(b)
    BY <1>2, <1>5, <2>3
  <2> QED
    BY <1>2, <2>1, <2>2, <2>3
<1>8. \A k \in 0..(hi - 1) : \E i \in 1..Len(c) : c[i] = Item(k)
  <2> TAKE k \in 0..(hi - 1)
  <2>1. CASE k < lo
    <3>1. PICK i \in 1..Len(b) : b[i] = Item(k)
      BY <2>1 DEF HoldsExactly
    <3>2. i \in 1..Len(c) /\ c[i] = Item(k)
      BY <1>2, <1>3, <3>1
    <3> QED
      BY <3>2
  <2>2. CASE k >= lo
    <3>1. k - lo + 1 \in 1..(hi - lo) /\ lo + (k - lo + 1) - 1 = k
      BY <2>2
    <3>2. c[Len(b) + (k - lo + 1)] = Item(k)
      BY <1>4, <3>1
    <3>3. Len(b) + (k - lo + 1) \in 1..Len(c)
      BY <1>2, <3>1
    <3> QED
      BY <3>2, <3>3
  <2> QED
    BY <2>1, <2>2
<1>9. \A i \in 1..Len(c) : c[i].kind = "item" => c[i].n < hi
  <2> SUFFICES ASSUME NEW i \in 1..Len(c), c[i].kind = "item"
               PROVE  c[i].n < hi
    OBVIOUS
  <2>1. CASE i <= Len(b)
    <3>1. i \in 1..Len(b) /\ c[i] = b[i]
      BY <1>2, <1>3, <2>1
    <3>2. b[i].n < lo /\ b[i].n \in Nat
      BY <1>6, <1>6a, <3>1
    <3> QED
      BY <3>1, <3>2
  <2>2. CASE i > Len(b)
    <3>1. c[i].n = lo + (i - Len(b)) - 1
      BY <1>5, <2>2
    <3>2. i <= Len(b) + (hi - lo)
      BY <1>2
    <3> QED
      BY <1>2, <3>1, <3>2
  <2> QED
    BY <1>2, <2>1, <2>2
<1> QED
  BY <1>2, <1>7, <1>8, <1>9 DEF HoldsExactly, c, e

\* The wire is the buffer and the cells that follow it.
LEMMA WireFacts ==
    ASSUME buffer \in Seq(Cell), trailing \in Nat
    PROVE  wire \in Seq(Cell) /\ Len(wire) = Len(buffer) + trailing
<1>1. Next_ \in Cell
  BY DEF Next_, Cell
<1>2. [i \in 1..trailing |-> Next_] \in Seq(Cell) /\ Len([i \in 1..trailing |-> Next_]) = trailing
  BY <1>1
<1> QED
  BY <1>2 DEF wire

(***************************************************************************)
(* The invariant and the theorems.                                         *)
(***************************************************************************)
\* What encode_unconstrained_length keeps: LoopAccounts is what makes
\* PayloadExact inductive, since only the loop's own accounting says that the
\* last fragment continues where the one before stopped.
Inv == TypeOK /\ LoopAccounts /\ PayloadExact

LEMMA InitInv == Init => Inv
<1> SUFFICES ASSUME Init PROVE Inv
  OBVIOUS
<1>1. buffer \in Seq(Cell) /\ trailing \in Nat /\ total \in Nat
  BY TotalsAssumption, TrailingAssumption DEF Init
<1>2. TypeOK
  BY <1>1, WireFacts DEF Init, TypeOK
<1>3. LoopAccounts
  BY <1>1 DEF Init, LoopAccounts, Ascending, HoldsExactly
<1> QED
  BY <1>2, <1>3 DEF Inv, PayloadExact, Init

\* The decoder's part of the type invariant
DecoderTypes ==
    /\ dpc \in {"idle", "call", "return", "ok", "err"}
    /\ input \in 0..Len(wire)
    /\ stack \in Seq(Frame)
    /\ \A i \in 1..Len(stack) : stack[i].at <= Len(wire)
    /\ out \in Seq(Cell)

\* A longer wire leaves the decoder's positions inside it.
LEMMA DecoderTypesGrow ==
    ASSUME TypeOK, wire' \in Seq(Cell), Len(wire') >= Len(wire),
           UNCHANGED <<dpc, input, stack, out>>
    PROVE  DecoderTypes'
<1>1. wire \in Seq(Cell)
  BY WireFacts DEF TypeOK
<1>2. Len(wire) \in Nat /\ Len(wire') \in Nat
  BY <1>1
<1>3. input' \in 0..Len(wire')
  BY <1>2 DEF TypeOK
<1>4. \A i \in 1..Len(stack) : stack[i] \in Frame
  BY DEF TypeOK
<1>5. \A i \in 1..Len(stack) : stack[i].at \in Nat
  BY <1>4 DEF Frame
<1>6. \A i \in 1..Len(stack') : stack'[i].at <= Len(wire')
  BY <1>2, <1>5 DEF TypeOK
<1> QED
  BY <1>3, <1>6 DEF TypeOK, DecoderTypes

\* The last arm of the encoder: a length below 16K and encode_fn(0..length).
LEMMA EncodeShortInv == Inv /\ EncodeShort => Inv'
<1> SUFFICES ASSUME Inv, EncodeShort PROVE Inv'
  OBVIOUS
<1>0. /\ length \in Nat /\ min \in Nat /\ total \in Nat /\ trailing \in Nat
      /\ 0 \in Nat /\ 0 <= length /\ buffer \in Seq(Cell)
  BY DEF Inv, TypeOK
<1> DEFINE hdr == IF length <= ShortMax THEN Short(length) ELSE Long(length)
<1>1. hdr \in Cell /\ hdr.kind # "item"
  BY <1>0 DEF Cell, Short, Long
<1> HIDE DEF hdr
<1>2. buffer' = (buffer \o <<hdr>>) \o EncodeFn(0, length)
  BY <1>0, <1>1 DEF EncodeShort, hdr
<1>3. EncodeFn(0, length) \in Seq(Cell) /\ Len(EncodeFn(0, length)) = length - 0
  BY <1>0, EncodeFnFacts, Zenon
<1>4. buffer' \in Seq(Cell) /\ Len(buffer') >= Len(buffer)
  BY <1>0, <1>1, <1>2, <1>3
<1>5. Len(wire) = Len(buffer) + trailing /\ Len(wire') = Len(buffer') + trailing
  BY <1>0, <1>4, WireFacts DEF EncodeShort, wire
<1>6. TypeOK'
  <2>1. wire' \in Seq(Cell) /\ Len(wire') >= Len(wire)
    BY <1>0, <1>4, <1>5, WireFacts DEF EncodeShort, wire
  <2>2. UNCHANGED <<dpc, input, stack, out>>
    BY DEF EncodeShort, decVars
  <2>3. DecoderTypes'
    BY <2>1, <2>2, DecoderTypesGrow DEF Inv
  <2> QED
    BY <1>0, <1>4, <2>3 DEF TypeOK, DecoderTypes, EncodeShort
<1>7. PayloadExact'
  <2> SUFFICES ASSUME NoTail' PROVE Ascending(buffer') /\ HoldsExactly(buffer', total)
    BY DEF PayloadExact, EncodeShort
  <2>1. min + length = total /\ Ascending(buffer) /\ HoldsExactly(buffer, min)
    BY DEF Inv, EncodeShort, LoopAccounts
  <2>2. /\ buffer \o <<hdr>> \in Seq(Cell)
        /\ Ascending(buffer \o <<hdr>>)
        /\ HoldsExactly(buffer \o <<hdr>>, min)
    BY <1>0, <1>1, <2>1, AppendHeader, Zenon
  <2>3. min = 0 \/ length = 0
    BY <1>0, <2>1 DEF NoTail, EncodeShort
  <2>4. CASE min = 0
    <3>1. Ascending(buffer') /\ HoldsExactly(buffer', length)
      BY <1>0, <1>2, <2>2, <2>4, AppendItems, Zenon
    <3> QED
      BY <1>0, <2>1, <2>4, <3>1
  <2>5. CASE length = 0
    <3>1. buffer' = buffer \o <<hdr>>
      BY <1>0, <1>2, <1>3, <2>2, <2>5
    <3> QED
      BY <1>0, <2>1, <2>2, <2>5, <3>1
  <2> QED
    BY <2>3, <2>4, <2>5
<1> QED
  BY <1>6, <1>7 DEF Inv, LoopAccounts, EncodeShort

\* One turn of the fragment loop.
LEMMA EncodeFragmentInv == Inv /\ EncodeFragment => Inv'
<1> SUFFICES ASSUME Inv, EncodeFragment PROVE Inv'
  OBVIOUS
<1>0. /\ length \in Nat /\ min \in Nat /\ total \in Nat /\ trailing \in Nat
      /\ 0 \in Nat /\ 0 <= length /\ buffer \in Seq(Cell)
  BY DEF Inv, TypeOK
<1> DEFINE idx == FragmentIndex(length)
           amount == idx * K
           hdr == Frag(idx)
           full == (buffer \o <<hdr>>) \o EncodeFn(min, min + amount)
<1>1. /\ idx \in 1..4 /\ amount \in Nat /\ amount <= length
      /\ (length = K => amount = K)
  BY <1>0, FragmentFits DEF EncodeFragment
<1>2. hdr \in Cell /\ hdr.kind # "item"
  BY <1>1 DEF Cell, Frag
<1>2a. min + amount \in Nat /\ min <= min + amount
  BY <1>0, <1>1
<1>3. EncodeFn(min, min + amount) \in Seq(Cell)
  BY <1>0, <1>2a, EncodeFnFacts, Zenon
<1>4. /\ min' = min + amount
      /\ \/ length = K /\ buffer' = full \o <<Short(0)>> /\ epc' = "done" /\ length' = length
         \/ length # K /\ buffer' = full /\ epc' = "loop" /\ length' = length - amount
      /\ total' = total /\ trailing' = trailing
  BY <1>0, <1>2, <1>3 DEF EncodeFragment
<1> HIDE DEF idx, amount, hdr
<1>5. min + length = total /\ Ascending(buffer) /\ HoldsExactly(buffer, min)
  BY DEF Inv, EncodeFragment, LoopAccounts
<1>6. /\ buffer \o <<hdr>> \in Seq(Cell)
      /\ Ascending(buffer \o <<hdr>>)
      /\ HoldsExactly(buffer \o <<hdr>>, min)
  BY <1>0, <1>2, <1>5, AppendHeader, Zenon
<1>7. full \in Seq(Cell) /\ Ascending(full) /\ HoldsExactly(full, min + amount)
  BY <1>0, <1>2a, <1>6, AppendItems, Zenon
<1>8. Len(full) >= Len(buffer)
  BY <1>0, <1>2, <1>3
<1> HIDE DEF full
<1>9. Short(0) \in Cell /\ Short(0).kind # "item"
  BY DEF Short, Cell
<1>10. /\ full \o <<Short(0)>> \in Seq(Cell)
       /\ Ascending(full \o <<Short(0)>>)
       /\ HoldsExactly(full \o <<Short(0)>>, min + amount)
  BY <1>2a, <1>7, <1>9, AppendHeader, Zenon
<1>11. /\ buffer' \in Seq(Cell) /\ Len(buffer') >= Len(buffer)
       /\ Ascending(buffer') /\ HoldsExactly(buffer', min + amount)
  <2>1. Len(full \o <<Short(0)>>) >= Len(buffer)
    BY <1>0, <1>7, <1>8, <1>9
  <2>2. CASE length = K
    BY <1>4, <1>10, <2>1, <2>2
  <2>3. CASE length # K
    BY <1>4, <1>7, <1>8, <2>3
  <2> QED
    BY <2>2, <2>3
<1>12. Len(wire) = Len(buffer) + trailing /\ Len(wire') = Len(buffer') + trailing
  BY <1>0, <1>11, WireFacts DEF EncodeFragment, wire
<1>13. TypeOK'
  <2>1. wire' \in Seq(Cell) /\ Len(wire') >= Len(wire)
    BY <1>0, <1>11, <1>12, WireFacts DEF EncodeFragment, wire
  <2>2. UNCHANGED <<dpc, input, stack, out>>
    BY DEF EncodeFragment, decVars
  <2>3. DecoderTypes'
    BY <2>1, <2>2, DecoderTypesGrow DEF Inv
  <2>4. epc' \in {"loop", "done"} /\ length' \in Nat /\ min' \in Nat
    BY <1>0, <1>1, <1>4
  <2> QED
    BY <1>0, <1>4, <1>11, <2>3, <2>4 DEF TypeOK, DecoderTypes
<1>14. LoopAccounts'
  BY <1>0, <1>1, <1>4, <1>5, <1>11 DEF LoopAccounts
<1>15. PayloadExact'
  BY <1>0, <1>1, <1>4, <1>5, <1>11 DEF PayloadExact
<1> QED
  BY <1>13, <1>14, <1>15 DEF Inv

\* A decoder step leaves the encoder's variables, and with them everything
\* the invariant says of the encoding, alone.
LEMMA DecoderFrame ==
    ASSUME Inv, UNCHANGED encVars, DecoderTypes'
    PROVE  Inv'
BY DEF Inv, TypeOK, DecoderTypes, LoopAccounts, PayloadExact, NoTail, encVars

\* Taking n cells of the wire yields cells, and stays inside the wire.
LEMMA TakenFacts ==
    ASSUME NEW w \in Seq(Cell), NEW at \in Nat, NEW n \in Nat, at + n <= Len(w)
    PROVE  SubSeq(w, at + 1, at + n) \in Seq(Cell)
OBVIOUS

\* A cell reads as a length determinant whose count is a natural number.
LEMMA ReadsFacts ==
    ASSUME NEW c \in Cell, NEW hdr \in Reads(c)
    PROVE  hdr \in Cell
BY KAssumption, ShortAssumption DEF Reads, Cell, Short, Long, Frag

\* What a decoder step may assume
LEMMA DecoderFacts ==
    ASSUME Inv
    PROVE  /\ wire \in Seq(Cell) /\ Len(wire) \in Nat
           /\ input \in Nat /\ input <= Len(wire)
           /\ stack \in Seq(Frame) /\ out \in Seq(Cell)
           /\ \A i \in 1..Len(stack) : stack[i].at <= Len(wire)
<1>1. wire \in Seq(Cell)
  BY WireFacts DEF Inv, TypeOK
<1> QED
  BY <1>1 DEF Inv, TypeOK

\* A failing step only changes the control state.
LEMMA FailTypes ==
    ASSUME Inv, Fail, UNCHANGED encVars
    PROVE  DecoderTypes'
BY DEF Inv, TypeOK, Fail, DecoderTypes, encVars, wire

\* The length determinant and the items it announces
LEMMA DecodeDeterminantInv == Inv /\ DecodeDeterminant => Inv'
<1> SUFFICES ASSUME Inv, DecodeDeterminant PROVE DecoderTypes'
  BY DecoderFrame DEF DecodeDeterminant
<1>0. UNCHANGED encVars /\ wire' = wire
  BY DEF DecodeDeterminant, encVars, wire
<1>1. /\ wire \in Seq(Cell) /\ Len(wire) \in Nat
      /\ input \in Nat /\ input <= Len(wire)
      /\ stack \in Seq(Frame) /\ out \in Seq(Cell)
      /\ \A i \in 1..Len(stack) : stack[i].at <= Len(wire)
  BY DecoderFacts
<1>2. CASE Fail
  BY <1>0, <1>2, FailTypes
<1>3. CASE ~Fail
  <2>0. Remaining # 0
    BY <1>3 DEF DecodeDeterminant
  <2>1. wire[input + 1] \in Cell
    BY <1>1, <2>0 DEF Remaining
  <2> DEFINE Count(h) == IF h.kind = "frag" THEN h.n * K ELSE h.n
  <2>2. PICK hdr \in Reads(wire[input + 1]) :
          /\ CanTake(input + 1, Count(hdr))
          /\ out' = out \o Taken(input + 1, Count(hdr))
          /\ input' = input + 1 + Count(hdr)
          /\ \/ /\ stack' = Append(stack, [at |-> input', amount |-> Count(hdr)])
                /\ dpc' = "call"
             \/ stack' = stack /\ dpc' = "return"
    BY <1>3, <2>0 DEF DecodeDeterminant
  <2>3. hdr \in Cell
    BY <2>1, ReadsFacts
  <2>4. Count(hdr) \in Nat
    BY <2>3, KAssumption DEF Cell
  <2> HIDE DEF Count
  <2>5. input + 1 \in Nat /\ (input + 1) + Count(hdr) <= Len(wire)
    BY <1>1, <2>2, <2>4 DEF CanTake
  <2>6. Taken(input + 1, Count(hdr)) \in Seq(Cell)
    BY <1>1, <2>4, <2>5, TakenFacts, Zenon DEF Taken
  <2>7. input' \in Nat /\ input' <= Len(wire) /\ out' \in Seq(Cell)
    BY <1>1, <2>2, <2>4, <2>5, <2>6
  <2>8. CASE stack' = stack /\ dpc' = "return"
    BY <1>0, <1>1, <2>7, <2>8 DEF DecoderTypes
  <2>9. CASE /\ stack' = Append(stack, [at |-> input', amount |-> Count(hdr)])
             /\ dpc' = "call"
    <3>1. [at |-> input', amount |-> Count(hdr)] \in Frame
      BY <2>4, <2>7 DEF Frame
    <3>2. stack' \in Seq(Frame)
      BY <1>1, <2>9, <3>1
    <3>3. \A i \in 1..Len(stack') : stack'[i].at <= Len(wire)
      BY <1>1, <2>7, <2>9
    <3> QED
      BY <1>0, <1>1, <2>7, <2>9, <3>2, <3>3 DEF DecoderTypes
  <2> QED
    BY <2>2, <2>8, <2>9
<1> QED
  BY <1>2, <1>3

\* One turn of decode_unknown_length's loop
LEMMA DecodeLoopInv == Inv /\ DecodeLoop => Inv'
<1> SUFFICES ASSUME Inv, DecodeLoop PROVE DecoderTypes'
  BY DecoderFrame DEF DecodeLoop
<1>0. UNCHANGED encVars /\ wire' = wire
  BY DEF DecodeLoop, encVars, wire
<1>1. /\ wire \in Seq(Cell) /\ Len(wire) \in Nat
      /\ input \in Nat /\ input <= Len(wire)
      /\ stack \in Seq(Frame) /\ out \in Seq(Cell)
      /\ \A i \in 1..Len(stack) : stack[i].at <= Len(wire)
  BY DecoderFacts
<1> DEFINE top == stack[Len(stack)]
           below == SubSeq(stack, 1, Len(stack) - 1)
<1>2. Len(stack) \in 1..Len(stack) /\ Len(stack) \in Nat
  BY <1>1 DEF DecodeLoop
<1>3. top \in Frame /\ top.at \in Nat /\ top.amount \in Nat /\ top.at <= Len(wire)
  <2>1. top \in Frame
    BY <1>1, <1>2
  <2> QED
    BY <1>1, <1>2, <2>1 DEF Frame
<1>4. below \in Seq(Frame) /\ \A i \in 1..Len(below) : below[i].at <= Len(wire)
  BY <1>1, <1>2
<1>5. \/ input' = top.at /\ stack' = below /\ UNCHANGED <<dpc, out>>
      \/ Fail
      \/ /\ CanTake(input, top.amount)
         /\ out' = out \o Taken(input, top.amount)
         /\ input' = input + top.amount
         /\ stack' = Append(below, [at |-> input', amount |-> top.amount])
         /\ dpc' = "call"
  BY DEF DecodeLoop
<1> HIDE DEF top, below
<1>6. CASE input' = top.at /\ stack' = below /\ UNCHANGED <<dpc, out>>
  BY <1>0, <1>1, <1>3, <1>4, <1>6 DEF DecoderTypes, Inv, TypeOK
<1>7. CASE Fail
  BY <1>0, <1>7, FailTypes
<1>8. CASE /\ CanTake(input, top.amount)
           /\ out' = out \o Taken(input, top.amount)
           /\ input' = input + top.amount
           /\ stack' = Append(below, [at |-> input', amount |-> top.amount])
           /\ dpc' = "call"
  <2>1. input + top.amount <= Len(wire) /\ input' \in Nat /\ input' <= Len(wire)
    BY <1>1, <1>3, <1>8 DEF CanTake
  <2>2. Taken(input, top.amount) \in Seq(Cell)
    BY <1>1, <1>3, <2>1, TakenFacts, Zenon DEF Taken
  <2>3. out' \in Seq(Cell)
    BY <1>1, <1>8, <2>2
  <2>4. [at |-> input', amount |-> top.amount] \in Frame
    BY <1>3, <2>1 DEF Frame
  <2>5. stack' \in Seq(Frame)
    BY <1>4, <1>8, <2>4
  <2>6. \A i \in 1..Len(stack') : stack'[i].at <= Len(wire)
    BY <1>4, <1>8, <2>1
  <2> QED
    BY <1>0, <1>1, <1>8, <2>1, <2>3, <2>5, <2>6, SMTT(30) DEF DecoderTypes
<1> QED
  BY <1>5, <1>6, <1>7, <1>8

LEMMA NextInv == Inv /\ [Next]_vars => Inv'
<1> SUFFICES ASSUME Inv, [Next]_vars PROVE Inv'
  OBVIOUS
<1>1. CASE Encode
  BY <1>1, EncodeShortInv, EncodeFragmentInv DEF Encode
<1>2. CASE DecodeDeterminant
  BY <1>2, DecodeDeterminantInv
<1>3. CASE DecodeLoop
  BY <1>3, DecodeLoopInv
<1>4. CASE StartDecode \/ DecodeReturn
  <2>1. DecoderTypes'
    BY <1>4 DEF StartDecode, DecodeReturn, Inv, TypeOK, DecoderTypes, encVars, wire
  <2> QED
    BY <1>4, <2>1, DecoderFrame DEF StartDecode, DecodeReturn
<1>5. CASE Finished \/ UNCHANGED vars
  <2>1. DecoderTypes' /\ UNCHANGED encVars
    BY <1>5 DEF Finished, vars, Inv, TypeOK, DecoderTypes, encVars, wire
  <2> QED
    BY <2>1, DecoderFrame
<1> QED
  BY <1>1, <1>2, <1>3, <1>4, <1>5 DEF Next, Decode

\* The variables of encode_unconstrained_length and decode_unknown_length stay
\* in range: in particular the decoder never points past the end of its input.
THEOREM TypeCorrect == Spec => []TypeOK
<1>1. Inv => TypeOK
  BY DEF Inv
<1> QED
  BY InitInv, NextInv, <1>1, PTL DEF Spec

\* In every turn of its loop encode_unconstrained_length has written exactly
\* the first `min` items, in order, and `length` counts the others.
THEOREM LoopCorrect == Spec => []LoopAccounts
<1>1. Inv => LoopAccounts
  BY DEF Inv
<1> QED
  BY InitInv, NextInv, <1>1, PTL DEF Spec

\* Whatever the fragment size and the value's length, a value that leaves no
\* short last fragment is written completely, in order and once.
THEOREM PayloadCorrect == Spec => []PayloadExact
<1>1. Inv => PayloadExact
  BY DEF Inv
<1> QED
  BY InitInv, NextInv, <1>1, PTL DEF Spec

-----------------------------------------------------------------------------
(***************************************************************************)
(* What the decoder makes of an encoding: the shapes of the buffer, and    *)
(* the decoder's way through them.                                         *)
(***************************************************************************)
Header(n) == IF n <= ShortMax THEN Short(n) ELSE Long(n)
Amount(c) == c.n * K

\* A value that was not fragmented: one length determinant and the items.
PlainShape ==
    min = 0 => /\ epc = "loop" => buffer = << >>
               /\ epc = "done" => buffer = <<Header(total)>> \o EncodeFn(0, total)

\* Fragments, each with as many cells as it announces before the next length
\* determinant; the first one has the first items.
Chain(b) ==
    /\ b # << >> /\ b[1].kind = "frag"
    /\ \A i \in 1..Len(b) : b[i].kind \in {"item", "frag", "short"}
    /\ \A i \in 1..Len(b) : b[i].kind = "frag" =>
            /\ b[i].n \in 1..4
            /\ i + Amount(b[i]) <= Len(b)
            /\ i + Amount(b[i]) < Len(b) => b[i + Amount(b[i]) + 1].kind \in {"frag", "short"}
    /\ \A i \in 1..Amount(b[1]) : b[i + 1] = Item(i - 1)

Open(b) == Chain(b) /\ \A i \in 1..Len(b) : b[i].kind # "short"
Closed(b) ==
    /\ Chain(b)
    /\ \A i \in 1..Len(b) : b[i].kind = "frag" => i + Amount(b[i]) < Len(b)
    /\ \A i \in 1..Len(b) : b[i].kind = "short" => i = Len(b) /\ b[i].n = 0

\* The first fragment holds all m items, or another one follows.
FirstOf(b, m) ==
    \/ m = Amount(b[1])
    \/ Amount(b[1]) + 1 < Len(b) /\ b[Amount(b[1]) + 2].kind = "frag"

FragmentShape ==
    min > 0 => /\ epc = "loop" => Open(buffer) /\ FirstOf(buffer, min)
               /\ (epc = "done" /\ NoTail) => Closed(buffer) /\ FirstOf(buffer, min)

\* A value of exactly one fragment; and a value of less has none.
Single == total \in {K, 2 * K, 3 * K, 4 * K}
SingleShape ==
    /\ total < K => min = 0
    /\ Single => \/ epc = "loop" /\ min = 0
                 \/ /\ min = total /\ Amount(buffer[1]) = total
                    /\ Len(buffer) = total + (IF epc = "loop" THEN 1 ELSE 2)

\* The decoder waits for the encoder.
DecoderWaits ==
    /\ epc = "loop" => dpc = "idle"
    /\ dpc = "idle" => input = 0 /\ stack = << >> /\ out = << >>

\* On its way through a value that was not fragmented
PlainWalk ==
    epc = "done" /\ min = 0 =>
        /\ dpc # "err"
        /\ dpc = "call" => input = 0 /\ stack = << >> /\ out = << >>
        /\ dpc \in {"return", "ok"} =>
                input = Len(buffer) /\ stack = << >> /\ out = EncodeFn(0, total)

\* On its way through fragments at the end of the input: every activation waits
\* behind the fragment it decoded, and after the innermost one has returned only
\* the closing length determinant is left to the others.  They fail on it; if there
\* was one fragment only, there are no others.
Nested(s) ==
    /\ \A i \in 1..Len(s) : s[i].amount >= K
    /\ \A i, j \in 1..Len(s) : i < j => s[i].at < s[j].at

FragmentWalk ==
    epc = "done" /\ min > 0 /\ NoTail /\ trailing = 0 =>
        /\ Nested(stack)
        /\ stack # << >> => stack[1].at > Amount(buffer[1])
        /\ Amount(buffer[1]) + 2 = Len(buffer) => dpc # "err"
        /\ dpc = "call" =>
                /\ input < Len(buffer) /\ buffer[input + 1].kind # "item"
                /\ stack = << >> => input = 0 /\ out = << >>
                /\ stack # << >> => stack[Len(stack)].at = input
        /\ dpc = "return" =>
                \/ /\ input = Len(buffer) /\ stack # << >>
                   /\ stack[Len(stack)].at = Len(buffer) - 1
                \/ /\ input = Len(buffer) - 1 /\ stack # << >>
                   /\ \A i \in 1..Len(stack) : stack[i].at < input
                \/ stack = << >> /\ out = EncodeFn(0, total)
        /\ (Len(stack) = 1 /\ (dpc = "call" \/ (dpc = "return" /\ input = Len(buffer)))) =>
                /\ stack[1].at = Amount(buffer[1]) + 1
                /\ out = EncodeFn(0, Amount(buffer[1]))
        /\ dpc = "ok" => out = EncodeFn(0, total)

\* The invariant of encoder and decoder together
WalkInv == PlainShape /\ FragmentShape /\ SingleShape /\ DecoderWaits /\ PlainWalk /\ FragmentWalk

\* The number of items of a fragment
LEMMA AmountFacts ==
    ASSUME NEW c, c.n \in 1..4
    PROVE  Amount(c) \in Nat /\ Amount(c) >= K
BY KAssumption DEF Amount

\* From one length determinant to the next
LEMMA ChainStep ==
    ASSUME NEW b \in Seq(Cell), Chain(b), NEW i \in 1..Len(b), b[i].kind = "frag",
           NEW k, k = i + Amount(b[i])
    PROVE  /\ b[i].n \in 1..4
           /\ k \in Nat /\ k > i /\ k <= Len(b)
           /\ k < Len(b) => b[k + 1].kind \in {"frag", "short"}
<1>1. /\ b[i].n \in 1..4 /\ k <= Len(b)
      /\ k < Len(b) => b[k + 1].kind \in {"frag", "short"}
  BY Zenon DEF Chain
<1>2. Amount(b[i]) \in Nat /\ Amount(b[i]) >= K
  BY <1>1, AmountFacts
<1>3. k \in Nat /\ k > i
  BY <1>2, KAssumption
<1> QED
  BY <1>1, <1>3

\* Appending sequences of cells
LEMMA ConcatFacts ==
    ASSUME NEW b \in Seq(Cell), NEW e \in Seq(Cell)
    PROVE  /\ b \o e \in Seq(Cell) /\ Len(b \o e) = Len(b) + Len(e)
           /\ \A i \in 1..Len(b) : (b \o e)[i] = b[i]
           /\ \A i \in 1..Len(e) : (b \o e)[Len(b) + i] = e[i]
OBVIOUS

\* A fragment behind fragments, or as the first
LEMMA AppendFragment ==
    ASSUME NEW b \in Seq(Cell), NEW n \in 1..4, NEW lo \in Nat,
           (b = << >> /\ lo = 0) \/ (Open(b) /\ FirstOf(b, lo))
    PROVE  LET c == (b \o <<Frag(n)>>) \o EncodeFn(lo, lo + n * K)
           IN  c \in Seq(Cell) /\ Open(c) /\ FirstOf(c, lo + n * K)
<1> DEFINE a == n * K
           e == EncodeFn(lo, lo + a)
           c == (b \o <<Frag(n)>>) \o e
<1>1. a \in Nat /\ a > 0
  BY KAssumption
<1> HIDE DEF a
<1>2. lo + a \in Nat /\ lo <= lo + a /\ (lo + a) - lo = a
  BY <1>1
<1>3. /\ e \in Seq(Cell) /\ Len(e) = a
      /\ \A i \in 1..a : e[i] = Item(lo + i - 1)
  BY <1>2, EncodeFnFacts
<1>4. Frag(n) \in Cell /\ Frag(n).kind = "frag" /\ Frag(n).n = n
  BY DEF Frag, Cell
<1> HIDE DEF e
<1>5. /\ c \in Seq(Cell) /\ Len(c) = Len(b) + 1 + a
      /\ \A i \in 1..Len(b) : c[i] = b[i]
      /\ c[Len(b) + 1] = Frag(n)
      /\ \A i \in 1..a : c[Len(b) + 1 + i] = Item(lo + i - 1)
  <2> DEFINE d == b \o <<Frag(n)>>
  <2>1. /\ d \in Seq(Cell) /\ Len(d) = Len(b) + 1
        /\ \A i \in 1..Len(b) : d[i] = b[i]
        /\ d[Len(b) + 1] = Frag(n)
    BY <1>4
  <2> HIDE DEF d
  <2>2. c = d \o e
    BY DEF d
  <2> HIDE DEF c
  <2>3. /\ c \in Seq(Cell) /\ Len(c) = Len(d) + Len(e)
        /\ \A i \in 1..Len(d) : c[i] = d[i]
        /\ \A i \in 1..Len(e) : c[Len(d) + i] = e[i]
    BY <1>3, <2>1, <2>2, ConcatFacts, Zenon
  <2>4. Len(c) = Len(b) + 1 + a
    BY <1>1, <1>3, <2>1, <2>3
  <2>5. \A i \in 1..(Len(b) + 1) : c[i] = d[i]
    BY <2>1, <2>3
  <2>6. \A i \in 1..a : c[(Len(b) + 1) + i] = e[i]
    BY <1>3, <2>1, <2>3
  <2>7. (\A i \in 1..Len(b) : c[i] = b[i]) /\ c[Len(b) + 1] = Frag(n)
    BY <2>1, <2>5
  <2>8. \A i \in 1..a : c[(Len(b) + 1) + i] = Item(lo + i - 1)
    BY <1>3, <2>6
  <2> QED
    BY <2>3, <2>4, <2>7, <2>8
<1> HIDE DEF c
<1>6. \A i \in 1..Len(c) : i <= Len(b) \/ i = Len(b) + 1 \/ (i - Len(b) - 1 \in 1..a /\ c[i].kind = "item")
  <2> SUFFICES ASSUME NEW i \in 1..Len(c), i > Len(b) + 1
               PROVE  i - Len(b) - 1 \in 1..a /\ c[i].kind = "item"
    BY <1>1, <1>5
  <2>1. i - Len(b) - 1 \in 1..a /\ Len(b) + 1 + (i - Len(b) - 1) = i
    BY <1>1, <1>5
  <2>2. c[i] = Item(lo + (i - Len(b) - 1) - 1)
    BY <1>5, <2>1
  <2> QED
    BY <2>1, <2>2 DEF Item
<1>7. Len(b) \in Nat
  OBVIOUS
<1>8. CASE b = << >> /\ lo = 0
  <2>1. Len(b) = 0
    BY <1>8
  <2>2. c # << >> /\ c[1] = Frag(n) /\ Amount(c[1]) = a
    <3>1. c[1] = Frag(n) /\ Len(c) > 0
      BY <1>1, <1>5, <2>1
    <3> QED
      BY <1>4, <3>1 DEF Amount, a
  <2>3. \A i \in 1..Len(c) : c[i].kind \in {"item", "frag"} /\ (c[i].kind = "frag" => i = 1)
    BY <1>4, <1>5, <1>6, <2>1
  <2>4. \A i \in 1..a : c[i + 1] = Item(i - 1)
    BY <1>1, <1>5, <1>8, <2>1
  <2>5. Open(c)
    BY <1>1, <1>4, <1>5, <2>1, <2>2, <2>3, <2>4 DEF Open, Chain
  <2> QED
    <3>1. FirstOf(c, lo + a)
      BY <1>1, <1>8, <2>2 DEF FirstOf
    <3> QED
      BY <1>5, <2>5, <3>1 DEF a, c, e
<1>9. CASE Open(b) /\ FirstOf(b, lo)
  <2>1. Len(b) >= 1 /\ c[1] = b[1] /\ c # << >> /\ Amount(c[1]) = Amount(b[1])
    <3>1. b # << >>
      BY <1>9 DEF Open, Chain
    <3>2. Len(b) >= 1
      BY <3>1
    <3> QED
      BY <1>1, <1>5, <3>2
  <2>2. \A i \in 1..Len(c) : c[i].kind \in {"item", "frag"}
    BY <1>4, <1>5, <1>6, <1>9 DEF Open, Chain
  <2>3. ASSUME NEW i \in 1..Len(c), c[i].kind = "frag"
        PROVE  /\ c[i].n \in 1..4
               /\ i + Amount(c[i]) <= Len(c)
               /\ i + Amount(c[i]) < Len(c) => c[i + Amount(c[i]) + 1].kind \in {"frag", "short"}
    <3>1. CASE i <= Len(b)
      <4>1. i \in 1..Len(b) /\ c[i] = b[i]
        BY <1>5, <3>1
      <4> DEFINE k == i + Amount(b[i])
      <4>2. Chain(b) /\ b[i].kind = "frag"
        BY <1>9, <2>3, <4>1 DEF Open
      <4> HIDE DEF k
      <4>3. k = i + Amount(b[i])
        BY DEF k
      <4>4. /\ b[i].n \in 1..4 /\ k \in Nat /\ k <= Len(b)
            /\ k < Len(b) => b[k + 1].kind \in {"frag", "short"}
        BY <4>1, <4>2, <4>3, ChainStep
      <4>5. c[k + 1].kind \in {"frag", "short"}
        <5>1. CASE k < Len(b)
          BY <1>5, <1>7, <4>4, <5>1
        <5>2. CASE k = Len(b)
          BY <1>4, <1>5, <5>2
        <5> QED
          BY <1>7, <4>4, <5>1, <5>2
      <4>6. k <= Len(c)
        BY <1>1, <1>5, <1>7, <4>4
      <4> QED
        BY <4>1, <4>4, <4>5, <4>6 DEF k
    <3>2. CASE i = Len(b) + 1
      BY <1>1, <1>4, <1>5, <3>2 DEF Amount, a
    <3> QED
      BY <1>6, <2>3, <3>1, <3>2
  <2>4. \A i \in 1..Amount(c[1]) : c[i + 1] = Item(i - 1)
    <3>1. 1 + Amount(b[1]) <= Len(b) /\ Amount(b[1]) \in Nat
      BY <1>9, <2>1, KAssumption DEF Open, Chain, Amount
    <3>2. \A i \in 1..Amount(b[1]) : b[i + 1] = Item(i - 1)
      BY <1>9 DEF Open, Chain
    <3>3. \A i \in 1..Amount(b[1]) : i + 1 \in 1..Len(b)
      BY <3>1
    <3> QED
      BY <1>5, <2>1, <3>2, <3>3
  <2>5. Open(c)
    BY <2>1, <2>2, <2>3, <2>4 DEF Open, Chain
  <2>6. Amount(b[1]) + 1 < Len(c) /\ c[Amount(b[1]) + 2].kind = "frag"
    <3>1. 1 + Amount(b[1]) <= Len(b) /\ Amount(b[1]) \in Nat
      BY <1>9, <2>1, KAssumption DEF Open, Chain, Amount
    <3>2. CASE 1 + Amount(b[1]) = Len(b)
      BY <1>1, <1>4, <1>5, <3>1, <3>2
    <3>3. CASE 1 + Amount(b[1]) < Len(b)
      <4>1. b[Amount(b[1]) + 2].kind \in {"frag", "short"}
        BY <1>9, <2>1, <3>1, <3>3 DEF Open, Chain
      <4>2. Amount(b[1]) + 2 \in 1..Len(b)
        BY <3>1, <3>3
      <4>3. b[Amount(b[1]) + 2].kind # "short"
        BY <1>9, <4>2 DEF Open
      <4> QED
        BY <1>1, <1>5, <1>7, <3>1, <4>1, <4>2, <4>3
    <3> QED
      BY <1>7, <3>1, <3>2, <3>3
  <2> QED
    BY <1>5, <2>1, <2>5, <2>6 DEF FirstOf, a, c, e
<1> QED
  BY <1>8, <1>9

\* The length determinant that ends the fragments
LEMMA AppendEnd ==
    ASSUME NEW b \in Seq(Cell), NEW m \in Nat, Open(b), FirstOf(b, m)
    PROVE  Closed(b \o <<Short(0)>>) /\ FirstOf(b \o <<Short(0)>>, m)
<1> DEFINE c == b \o <<Short(0)>>
<1>1. Short(0) \in Cell /\ Short(0).kind = "short" /\ Short(0).n = 0
  BY DEF Short, Cell
<1>2. /\ c \in Seq(Cell) /\ Len(c) = Len(b) + 1
      /\ \A i \in 1..Len(b) : c[i] = b[i]
      /\ c[Len(b) + 1] = Short(0)
  BY <1>1
<1> HIDE DEF c
<1>3. Len(b) >= 1 /\ c[1] = b[1] /\ c # << >> /\ Amount(c[1]) = Amount(b[1])
  BY <1>2 DEF Open, Chain
<1>4. \A i \in 1..Len(c) : /\ c[i].kind \in {"item", "frag", "short"}
                           /\ (c[i].kind = "short" => i = Len(c) /\ c[i].n = 0)
  BY <1>1, <1>2 DEF Open, Chain
<1>5. ASSUME NEW i \in 1..Len(c), c[i].kind = "frag"
      PROVE  /\ c[i].n \in 1..4
             /\ i + Amount(c[i]) < Len(c)
             /\ c[i + Amount(c[i]) + 1].kind \in {"frag", "short"}
  <2>1. i \in 1..Len(b) /\ c[i] = b[i]
    BY <1>1, <1>2, <1>5
  <2> DEFINE k == i + Amount(b[i])
  <2>2. Chain(b) /\ b[i].kind = "frag"
    BY <1>5, <2>1 DEF Open
  <2> HIDE DEF k
  <2>3. k = i + Amount(b[i])
    BY DEF k
  <2>4. /\ b[i].n \in 1..4 /\ k \in Nat /\ k <= Len(b)
        /\ k < Len(b) => b[k + 1].kind \in {"frag", "short"}
    BY <2>1, <2>2, <2>3, ChainStep
  <2>5. c[k + 1].kind \in {"frag", "short"}
    <3>1. CASE k < Len(b)
      BY <1>2, <2>4, <3>1
    <3>2. CASE k = Len(b)
      BY <1>1, <1>2, <3>2
    <3> QED
      BY <2>4, <3>1, <3>2
  <2>6. k < Len(c)
    BY <1>2, <2>4
  <2> QED
    BY <2>1, <2>4, <2>5, <2>6 DEF k
<1>6. 1 + Amount(b[1]) <= Len(b) /\ Amount(b[1]) \in Nat
  BY <1>3, KAssumption DEF Open, Chain, Amount
<1>7. \A i \in 1..Amount(c[1]) : c[i + 1] = Item(i - 1)
  <2> DEFINE m1 == Amount(b[1])
  <2>1. m1 \in Nat /\ 1 + m1 <= Len(b) /\ \A i \in 1..m1 : b[i + 1] = Item(i - 1)
    BY <1>6 DEF Open, Chain
  <2> HIDE DEF m1
  <2>2. \A i \in 1..m1 : c[i + 1] = Item(i - 1)
    BY <1>2, <2>1
  <2> QED
    BY <1>3, <2>2 DEF m1
<1>8. Closed(c)
  <2>1. ASSUME NEW i \in 1..Len(c), c[i].kind = "frag"
        PROVE  i + Amount(c[i]) <= Len(c)
    <3>1. Amount(c[i]) \in Nat /\ i + Amount(c[i]) < Len(c)
      BY <1>5, <2>1, KAssumption DEF Amount
    <3> QED
      BY <1>2, <3>1
  <2>1a. c[1].kind = "frag"
    BY <1>3 DEF Open, Chain
  <2>2. Chain(c)
    BY <1>3, <1>4, <1>5, <1>7, <2>1, <2>1a DEF Chain
  <2> QED
    BY <1>4, <1>5, <2>2 DEF Closed
<1>9. FirstOf(c, m)
  BY <1>2, <1>3, <1>6 DEF FirstOf
<1> QED
  BY <1>8, <1>9 DEF c

\* The one turn of the loop for a value of exactly one fragment
LEMMA SingleFits ==
    ASSUME Single
    PROVE  FragmentIndex(total) \in 1..4 /\ FragmentIndex(total) * K = total /\ total >= K
BY KAssumption DEF Single, FragmentIndex

LEMMA InitWalk == Init => WalkInv
BY DEF Init, WalkInv, PlainShape, FragmentShape, SingleShape, DecoderWaits, PlainWalk, FragmentWalk

LEMMA EncodeShortWalk == Inv /\ WalkInv /\ EncodeShort => WalkInv'
<1> SUFFICES ASSUME Inv, WalkInv, EncodeShort PROVE WalkInv'
  OBVIOUS
<1>0. /\ length \in Nat /\ min \in Nat /\ total \in Nat
      /\ buffer \in Seq(Cell) /\ min + length = total
  BY DEF Inv, TypeOK, LoopAccounts, EncodeShort
<1>1. /\ epc = "loop" /\ epc' = "done" /\ length < K
      /\ buffer' = (buffer \o <<Header(length)>>) \o EncodeFn(0, length)
      /\ min' = min /\ total' = total
  <2>1. EncodeFn(0, length) \in Seq(Cell)
    BY <1>0, EncodeFnFacts
  <2>2. Header(length) \in Cell
    BY <1>0 DEF Header, Short, Long, Cell
  <2> QED
    BY <1>0, <2>1, <2>2 DEF EncodeShort, Header
<1>2. /\ dpc' = dpc /\ input' = input /\ stack' = stack /\ out' = out
      /\ dpc = "idle" /\ input = 0 /\ stack = << >> /\ out = << >>
  BY <1>1 DEF EncodeShort, decVars, WalkInv, DecoderWaits
<1>3. DecoderWaits'
  BY <1>1, <1>2 DEF DecoderWaits
<1>4. PlainWalk' /\ FragmentWalk'
  BY <1>2 DEF PlainWalk, FragmentWalk, Nested
<1>5. PlainShape'
  <2> SUFFICES ASSUME min = 0 PROVE buffer' = <<Header(total)>> \o EncodeFn(0, total)
    BY <1>1 DEF PlainShape
  <2>1. length = total /\ buffer = << >>
    BY <1>0, <1>1 DEF WalkInv, PlainShape
  <2>2. buffer \o <<Header(length)>> = <<Header(total)>>
    BY <2>1
  <2> QED
    BY <1>1, <2>1, <2>2
<1>6. FragmentShape'
  <2> SUFFICES ASSUME min > 0, NoTail'
               PROVE  Closed(buffer') /\ FirstOf(buffer', min)
    BY <1>1 DEF FragmentShape
  <2>1. length = 0
    BY <1>0, <1>1 DEF NoTail
  <2>2. EncodeFn(0, length) = << >> /\ Header(length) = Short(0)
    BY <2>1, ShortAssumption DEF EncodeFn, Header
  <2>3. buffer' = buffer \o <<Short(0)>>
    <3>1. Short(0) \in Cell
      BY DEF Short, Cell
    <3> QED
      BY <1>0, <1>1, <2>2, <3>1
  <2>4. Open(buffer) /\ FirstOf(buffer, min)
    BY <1>1 DEF WalkInv, FragmentShape
  <2> QED
    BY <1>0, <2>3, <2>4, AppendEnd
<1>7. SingleShape'
  <2>1. ASSUME Single
        PROVE  /\ min = total /\ Amount(buffer'[1]) = total
               /\ Len(buffer') = total + 2
    <3>1. min = total /\ Amount(buffer[1]) = total /\ Len(buffer) = total + 1 /\ total >= K
      <4>1. total >= K
        BY <2>1, SingleFits
      <4>2. min # 0 /\ epc = "loop"
        BY <1>0, <1>1, <4>1, KAssumption
      <4>3. \/ epc = "loop" /\ min = 0
            \/ /\ min = total /\ Amount(buffer[1]) = total
               /\ Len(buffer) = total + (IF epc = "loop" THEN 1 ELSE 2)
        BY <2>1 DEF WalkInv, SingleShape
      <4> QED BY <4>1, <4>2, <4>3
    <3>2. length = 0
      BY <1>0, <3>1
    <3>3. EncodeFn(0, length) = << >> /\ Header(length) = Short(0) /\ Short(0) \in Cell
      BY <3>2, ShortAssumption DEF EncodeFn, Header, Short, Cell
    <3>4. buffer' = buffer \o <<Short(0)>>
      BY <1>0, <1>1, <3>3
    <3>5. Len(buffer') = Len(buffer) + 1 /\ buffer'[1] = buffer[1]
      BY <1>0, <3>1, <3>3, <3>4
    <3> QED BY <1>0, <3>1, <3>5
  <2>2. Single' = Single
    BY <1>1 DEF Single
  <2> QED BY <1>1, <2>1, <2>2 DEF SingleShape, WalkInv
<1> QED
  BY <1>3, <1>4, <1>5, <1>6, <1>7 DEF WalkInv

LEMMA EncodeFragmentWalk == Inv /\ WalkInv /\ EncodeFragment => WalkInv'
<1> SUFFICES ASSUME Inv, WalkInv, EncodeFragment PROVE WalkInv'
  OBVIOUS
<1>0. /\ length \in Nat /\ min \in Nat /\ total \in Nat
      /\ buffer \in Seq(Cell) /\ min + length = total
  BY DEF Inv, TypeOK, LoopAccounts, EncodeFragment
<1> DEFINE idx == FragmentIndex(length)
           amount == idx * K
           full == (buffer \o <<Frag(idx)>>) \o EncodeFn(min, min + amount)
<1>1. /\ idx \in 1..4 /\ amount \in Nat /\ amount <= length /\ amount >= K
      /\ (length = K => amount = K)
  BY <1>0, FragmentFits DEF EncodeFragment
<1>1a. Frag(idx) \in Cell /\ EncodeFn(min, min + amount) \in Seq(Cell)
  <2>1. Frag(idx) \in Cell
    BY <1>1 DEF Cell, Frag
  <2>2. min + amount \in Nat /\ min <= min + amount
    BY <1>0, <1>1
  <2> QED
    BY <1>0, <2>1, <2>2, EncodeFnFacts, Zenon
<1>2. /\ epc = "loop" /\ min' = min + amount
      /\ \/ length = K /\ buffer' = full \o <<Short(0)>> /\ epc' = "done"
         \/ length # K /\ buffer' = full /\ epc' = "loop"
      /\ total' = total
  BY <1>0, <1>1a DEF EncodeFragment
<1>3. min' > 0 /\ min' \in Nat
  BY <1>0, <1>1, <1>2, KAssumption
<1>4. /\ dpc' = dpc /\ input' = input /\ stack' = stack /\ out' = out
      /\ dpc = "idle" /\ input = 0 /\ stack = << >> /\ out = << >>
  BY <1>2 DEF EncodeFragment, decVars, WalkInv, DecoderWaits
<1>5. DecoderWaits'
  BY <1>2, <1>4 DEF DecoderWaits
<1>6. PlainWalk' /\ FragmentWalk'
  BY <1>4 DEF PlainWalk, FragmentWalk, Nested
<1>7. PlainShape'
  BY <1>3 DEF PlainShape
<1>8. full \in Seq(Cell) /\ Open(full) /\ FirstOf(full, min + amount)
  <2>1. \/ buffer = << >> /\ min = 0
        \/ Open(buffer) /\ FirstOf(buffer, min)
    <3>0. epc = "loop"
      BY DEF EncodeFragment
    <3>1. CASE min = 0
      <4>1. PlainShape
        BY DEF WalkInv
      <4>2. buffer = << >>
        BY <3>0, <3>1, <4>1, Zenon DEF PlainShape
      <4> QED
        BY <3>1, <4>2
    <3>2. CASE min > 0
      BY <3>0, <3>2 DEF WalkInv, FragmentShape
    <3> QED
      BY <1>0, <3>1, <3>2
  <2> HIDE DEF idx
  <2> QED
    BY <1>0, <1>1, <2>1, AppendFragment, Zenon
<1>8a. ASSUME Single
       PROVE  /\ min' = total /\ Amount(full[1]) = total /\ Len(full) = total + 1
              /\ length # K => length = total
  <2>1. idx \in 1..4 /\ total >= K /\ min = 0 /\ buffer = << >> /\ length = total /\ amount = total
    <3>1. FragmentIndex(total) * K = total /\ total >= K
      BY <1>8a, SingleFits
    <3>2. length >= K
      BY DEF EncodeFragment
    <3>3. min = 0
      BY <1>0, <1>2, <1>8a, <3>1, <3>2, KAssumption DEF WalkInv, SingleShape
    <3>4. buffer = << >>
      BY <1>2, <3>3 DEF WalkInv, PlainShape
    <3> QED BY <1>0, <1>1, <3>1, <3>3, <3>4
  <2>2. full = <<Frag(idx)>> \o EncodeFn(0, total)
    <3>1. << >> \o <<Frag(idx)>> = <<Frag(idx)>>
      BY <1>1a
    <3> QED BY <1>0, <2>1, <3>1
  <2>3. Len(EncodeFn(0, total)) = total /\ EncodeFn(0, total) \in Seq(Cell)
    BY <1>0 DEF EncodeFn, Cell, Item
  <2> DEFINE h == Frag(idx)
  <2>4. h \in Cell /\ Amount(h) = total
    BY <1>1a, <2>1 DEF Amount, Frag
  <2> HIDE DEF h
  <2>5. full = <<h>> \o EncodeFn(0, total)
    BY <2>2 DEF h
  <2> HIDE DEF full
  <2>6. full[1] = h /\ Len(full) = total + 1
    BY <1>0, <2>3, <2>4, <2>5
  <2> HIDE DEF amount
  <2> QED BY <1>0, <1>2, <2>1, <2>4, <2>6
<1> HIDE DEF full, amount
<1>9. FragmentShape'
  <2>1. CASE length = K
    BY <1>0, <1>2, <1>3, <1>8, <2>1, AppendEnd DEF FragmentShape
  <2>2. CASE length # K
    BY <1>2, <1>3, <1>8, <2>2 DEF FragmentShape
  <2> QED
    BY <2>1, <2>2
<1>10. SingleShape'
  <2>1. total' = total /\ Single' = Single
    BY <1>2 DEF Single
  <2>2. total >= K
    <3>1. length >= K
      BY DEF EncodeFragment
    <3> QED BY <1>0, <3>1, KAssumption
  <2>3. ASSUME Single, length = K
        PROVE  Amount(buffer'[1]) = total /\ Len(buffer') = total + 2
    <3>1. Short(0) \in Cell
      BY DEF Short, Cell
    <3>2. Amount(full[1]) = total /\ Len(full) = total + 1
      BY <1>8a, <2>3
    <3>3. buffer'[1] = full[1] /\ Len(buffer') = Len(full) + 1
      BY <1>0, <1>2, <1>8, <2>3, <3>1, <3>2
    <3> QED BY <1>0, <3>2, <3>3
  <2>4. ASSUME Single, length # K
        PROVE  Amount(buffer'[1]) = total /\ Len(buffer') = total + 1
    BY <1>2, <1>8a, <2>4
  <2>5. ~(total < K)
    BY <1>0, <2>2, KAssumption
  <2>6. Single => min' = total
    BY <1>8a
  <2> QED BY <1>2, <2>1, <2>3, <2>4, <2>5, <2>6 DEF SingleShape
<1> QED
  BY <1>5, <1>6, <1>7, <1>9, <1>10 DEF WalkInv

\* The cells of the buffer on the wire
LEMMA WireCells ==
    ASSUME buffer \in Seq(Cell), trailing \in Nat
    PROVE  \A i \in 1..Len(buffer) : wire[i] = buffer[i]
<1>1. Next_ \in Cell
  BY DEF Next_, Cell
<1>2. [i \in 1..trailing |-> Next_] \in Seq(Cell)
  BY <1>1
<1> QED
  BY <1>2, ConcatFacts DEF wire

\* A length determinant that was written as one is read as it was written.
LEMMA ReadsWritten ==
    ASSUME NEW c, c.kind \in {"short", "long", "frag"}, NEW hdr \in Reads(c)
    PROVE  hdr = c
BY DEF Reads

LEMMA ItemsFromZero ==
    ASSUME NEW n \in Nat
    PROVE  /\ EncodeFn(0, n) \in Seq(Cell) /\ Len(EncodeFn(0, n)) = n
           /\ \A i \in 1..n : EncodeFn(0, n)[i] = Item(i - 1)
BY DEF EncodeFn, Cell, Item

\* Items 0 .. n - 1, taken from behind the length determinant in the first cell
LEMMA TakesItems ==
    ASSUME NEW w \in Seq(Cell), NEW n \in Nat, n + 1 <= Len(w),
           \A i \in 1..n : w[i + 1] = Item(i - 1)
    PROVE  SubSeq(w, 2, n + 1) = EncodeFn(0, n)
<1>1. /\ SubSeq(w, 2, n + 1) \in Seq(Cell) /\ Len(SubSeq(w, 2, n + 1)) = n
      /\ \A i \in 1..n : SubSeq(w, 2, n + 1)[i] = w[i + 1]
  OBVIOUS
<1>2. /\ EncodeFn(0, n) \in Seq(Cell) /\ Len(EncodeFn(0, n)) = n
      /\ \A i \in 1..n : EncodeFn(0, n)[i] = Item(i - 1)
  BY ItemsFromZero
<1>3. \A i \in 1..n : SubSeq(w, 2, n + 1)[i] = EncodeFn(0, n)[i]
  BY <1>1, <1>2
<1> QED
  BY <1>1, <1>2, <1>3

\* What a step of the decoder has to show, for it leaves the encoding alone
LEMMA WalkFrame ==
    ASSUME WalkInv, epc = "done", UNCHANGED encVars, dpc' # "idle",
           PlainWalk', FragmentWalk'
    PROVE  WalkInv'
BY DEF WalkInv, encVars, PlainShape, FragmentShape, SingleShape, Single, NoTail, DecoderWaits

\* Nothing else is said of a decode that failed.
LEMMA FailWalk ==
    ASSUME WalkInv, Fail, UNCHANGED encVars, min > 0, Amount(buffer[1]) + 2 # Len(buffer)
    PROVE  PlainWalk' /\ FragmentWalk'
BY DEF WalkInv, Fail, encVars, PlainWalk, FragmentWalk, NoTail

\* The one length determinant of a value that was not fragmented
LEMMA PlainDeterminant ==
    ASSUME Inv, WalkInv, DecodeDeterminant, epc = "done", min = 0
    PROVE  /\ input' = Len(buffer) /\ stack' = << >> /\ out' = EncodeFn(0, total)
           /\ dpc' = "return"
<1>0. buffer \in Seq(Cell) /\ trailing \in Nat /\ total \in Nat
  BY DEF Inv, TypeOK
<1>1. dpc = "call" /\ input = 0 /\ stack = << >> /\ out = << >>
  BY DEF DecodeDeterminant, WalkInv, PlainWalk
<1> DEFINE h == Header(total)
<1>2. h \in Cell /\ h.kind \in {"short", "long"} /\ h.n = total
  BY <1>0 DEF Header, Short, Long, Cell
<1> HIDE DEF h
<1>3. /\ EncodeFn(0, total) \in Seq(Cell) /\ Len(EncodeFn(0, total)) = total
      /\ \A i \in 1..total : EncodeFn(0, total)[i] = Item(i - 1)
  BY <1>0, ItemsFromZero
<1>4. buffer = <<h>> \o EncodeFn(0, total)
  BY DEF WalkInv, PlainShape, h
<1>5. /\ Len(buffer) = total + 1 /\ buffer[1] = h
      /\ \A i \in 1..total : buffer[i + 1] = Item(i - 1)
  <2>1. <<h>> \in Seq(Cell) /\ Len(<<h>>) = 1 /\ <<h>>[1] = h
    BY <1>2
  <2>2. /\ Len(buffer) = 1 + total /\ buffer[1] = h
        /\ \A i \in 1..total : buffer[1 + i] = EncodeFn(0, total)[i]
    BY <1>3, <1>4, <2>1
  <2> QED
    BY <1>0, <1>3, <2>2
<1>6. wire \in Seq(Cell) /\ Len(wire) = total + 1 + trailing
  BY <1>0, <1>5, WireFacts
<1>7. wire[1] = h /\ \A i \in 1..total : wire[i + 1] = Item(i - 1)
  BY <1>0, <1>5, WireCells
<1>8. Remaining # 0 /\ input + 1 = 1
  BY <1>0, <1>1, <1>6 DEF Remaining
<1>9. \A hdr \in Reads(wire[input + 1]) : hdr = h
  BY <1>2, <1>7, <1>8, ReadsWritten
<1>10. CanTake(1, total) /\ Taken(1, total) = EncodeFn(0, total)
  <2>1. SubSeq(wire, 2, total + 1) = EncodeFn(0, total)
    <3>1. total + 1 <= Len(wire)
      BY <1>0, <1>6
    <3> QED
      BY <1>0, <1>6, <1>7, <3>1, TakesItems, Zenon
  <2> QED
    BY <1>0, <1>6, <2>1 DEF CanTake, Taken
<1>11. /\ out' = out \o Taken(1, total) /\ input' = 1 + total /\ stack' = stack
       /\ dpc' = "return"
  <2>1. PICK hdr \in Reads(wire[input + 1]) :
            LET valid == hdr.kind # "frag" \/ hdr.n \in 1..4
                count == IF hdr.kind = "frag" THEN hdr.n * K ELSE hdr.n
            IN  IF ~valid \/ ~CanTake(input + 1, count)
                THEN Fail
                ELSE /\ out' = out \o Taken(input + 1, count)
                     /\ input' = input + 1 + count
                     /\ IF hdr.kind = "frag"
                        THEN /\ stack' = Append(stack, [at |-> input', amount |-> count])
                             /\ dpc' = "call"
                        ELSE /\ stack' = stack
                             /\ dpc' = "return"
    BY <1>8 DEF DecodeDeterminant
  <2>2. hdr.kind # "frag" /\ hdr.n = total
    BY <1>2, <1>9
  <2> QED
    BY <1>8, <1>10, <2>1, <2>2
<1>12. out' = EncodeFn(0, total)
  BY <1>1, <1>3, <1>10, <1>11
<1> QED
  BY <1>0, <1>1, <1>5, <1>11, <1>12
\* The wire is the buffer when nothing follows the value.
LEMMA WireAlone ==
    ASSUME buffer \in Seq(Cell), trailing = 0
    PROVE  /\ wire \in Seq(Cell) /\ Len(wire) = Len(buffer)
           /\ \A i \in 1..Len(buffer) : wire[i] = buffer[i]
BY WireFacts, WireCells

\* What the decoder does with a length determinant that was written as one
LEMMA WrittenDeterminant ==
    ASSUME DecodeDeterminant, Remaining # 0, NEW h, h = wire[input + 1],
           h.kind \in {"short", "frag"}, h.kind = "frag" => h.n \in 1..4,
           NEW count, count = (IF h.kind = "frag" THEN Amount(h) ELSE h.n),
           CanTake(input + 1, count)
    PROVE  /\ out' = out \o Taken(input + 1, count)
           /\ input' = input + 1 + count
           /\ h.kind = "frag" => /\ stack' = Append(stack, [at |-> input', amount |-> count])
                                 /\ dpc' = "call"
           /\ h.kind = "short" => stack' = stack /\ dpc' = "return"
<1>1. \A hdr \in Reads(wire[input + 1]) : hdr = h
  BY ReadsWritten
<1>2. (\E hdr \in Reads(wire[input + 1]) :
            LET valid == hdr.kind # "frag" \/ hdr.n \in 1..4
                cnt == IF hdr.kind = "frag" THEN hdr.n * K ELSE hdr.n
            IN  IF ~valid \/ ~CanTake(input + 1, cnt)
                THEN Fail
                ELSE /\ out' = out \o Taken(input + 1, cnt)
                     /\ input' = input + 1 + cnt
                     /\ IF hdr.kind = "frag"
                        THEN /\ stack' = Append(stack, [at |-> input', amount |-> cnt])
                             /\ dpc' = "call"
                        ELSE /\ stack' = stack
                             /\ dpc' = "return")
  BY DEF DecodeDeterminant
<1>3. LET valid == h.kind # "frag" \/ h.n \in 1..4
          cnt == IF h.kind = "frag" THEN h.n * K ELSE h.n
      IN  IF ~valid \/ ~CanTake(input + 1, cnt)
          THEN Fail
          ELSE /\ out' = out \o Taken(input + 1, cnt)
               /\ input' = input + 1 + cnt
               /\ IF h.kind = "frag"
                  THEN /\ stack' = Append(stack, [at |-> input', amount |-> cnt])
                       /\ dpc' = "call"
                  ELSE /\ stack' = stack
                       /\ dpc' = "return"
  BY <1>1, <1>2
<1>4. count = (IF h.kind = "frag" THEN h.n * K ELSE h.n)
  BY DEF Amount
<1> QED
  BY <1>3, <1>4

\* Activations lie in the order of their fragments.
LEMMA PushFrame ==
    ASSUME NEW s \in Seq(Frame), NEW f \in Frame, f.amount >= K,
           Nested(s),
           s # << >> => s[Len(s)].at < f.at,
           NEW t, t = Append(s, f)
    PROVE  /\ t \in Seq(Frame) /\ Len(t) = Len(s) + 1 /\ t # << >>
           /\ t[Len(t)] = f
           /\ Nested(t)
<1>1. f.at \in Nat
  BY DEF Frame
<1>2. /\ t \in Seq(Frame) /\ Len(t) = Len(s) + 1 /\ t # << >>
      /\ \A i \in 1..Len(s) : t[i] = s[i]
      /\ t[Len(s) + 1] = f
  OBVIOUS
<1>3. \A i \in 1..Len(t) : t[i].amount >= K
  BY <1>1, <1>2 DEF Nested
<1>4. \A i \in 1..Len(s) : s[i].at \in Nat /\ s[i].at < f.at
  <2> TAKE i \in 1..Len(s)
  <2>1. s # << >> /\ Len(s) \in 1..Len(s) /\ Len(s) \in Nat
    OBVIOUS
  <2>2. s[i].at \in Nat /\ s[Len(s)].at \in Nat
    <3>1. s[i] \in Frame /\ s[Len(s)] \in Frame
      BY <2>1
    <3> QED
      BY <3>1 DEF Frame
  <2>3. i < Len(s) => s[i].at < s[Len(s)].at
    BY <2>1 DEF Nested
  <2>4. i < Len(s) \/ i = Len(s)
    BY <2>1
  <2>5. s[Len(s)].at < f.at
    BY <2>1
  <2> QED
    BY <1>1, <2>2, <2>3, <2>4, <2>5
<1>5. \A i, j \in 1..Len(t) : i < j => t[i].at < t[j].at
  <2> TAKE i, j \in 1..Len(t)
  <2> HAVE i < j
  <2>1. i \in 1..Len(s) /\ t[i] = s[i]
    BY <1>2
  <2>2. CASE j = Len(t)
    BY <1>1, <1>2, <1>4, <2>1, <2>2
  <2>3. CASE j # Len(t)
    BY <1>2, <2>1, <2>3 DEF Nested
  <2> QED
    BY <2>2, <2>3
<1> QED
  BY <1>1, <1>2, <1>3, <1>5 DEF Nested
\* A length determinant of a fragmented value at the end of the input
LEMMA FragmentDeterminant ==
    ASSUME Inv, WalkInv, DecodeDeterminant,
           epc = "done", min > 0, NoTail, trailing = 0
    PROVE  FragmentWalk'
<1>0. /\ buffer \in Seq(Cell) /\ trailing \in Nat /\ total \in Nat /\ input \in Nat
      /\ stack \in Seq(Frame) /\ out \in Seq(Cell)
  BY WireFacts DEF Inv, TypeOK
<1>1. /\ dpc = "call"
      /\ buffer' = buffer /\ total' = total /\ epc' = epc /\ min' = min /\ trailing' = trailing
  BY DEF DecodeDeterminant, encVars
<1>2. /\ Nested(stack)
      /\ stack # << >> => stack[1].at > Amount(buffer[1])
      /\ input < Len(buffer) /\ buffer[input + 1].kind # "item"
      /\ stack = << >> => input = 0 /\ out = << >>
      /\ stack # << >> => stack[Len(stack)].at = input
      /\ Len(stack) = 1 => /\ stack[1].at = Amount(buffer[1]) + 1
                           /\ out = EncodeFn(0, Amount(buffer[1]))
  BY <1>1 DEF WalkInv, FragmentWalk
<1>3. Chain(buffer) /\ Closed(buffer)
  BY DEF WalkInv, FragmentShape, Closed
<1> DEFINE p == input + 1
           h == buffer[p]
<1>4. p \in 1..Len(buffer) /\ h.kind \in {"frag", "short"} /\ Len(buffer) \in Nat
  <2>1. p \in 1..Len(buffer)
    BY <1>0, <1>2
  <2>2. h.kind \in {"item", "frag", "short"}
    BY <1>3, <2>1 DEF Chain
  <2> QED
    BY <1>0, <1>2, <2>1, <2>2
<1>5. /\ wire \in Seq(Cell) /\ Len(wire) = Len(buffer)
      /\ \A i \in 1..Len(buffer) : wire[i] = buffer[i]
  BY <1>0, WireAlone
<1>6. Remaining # 0 /\ h = wire[input + 1]
  BY <1>0, <1>2, <1>4, <1>5 DEF Remaining
<1>7. CASE h.kind = "frag"
  <2> DEFINE a == Amount(h)
  <2>1. h.n \in 1..4 /\ p + a \in Nat /\ p + a > p /\ p + a < Len(buffer)
        /\ buffer[p + a + 1].kind \in {"frag", "short"}
    <3>1. /\ h.n \in 1..4 /\ p + a \in Nat /\ p + a > p
          /\ p + a < Len(buffer) => buffer[p + a + 1].kind \in {"frag", "short"}
      BY <1>0, <1>3, <1>4, <1>7, ChainStep, Zenon
    <3>2. p + a < Len(buffer)
      BY <1>3, <1>4, <1>7 DEF Closed
    <3> QED
      BY <3>1, <3>2
  <2>2. a \in Nat /\ a >= K
    BY <2>1, AmountFacts
  <2> HIDE DEF a
  <2>3. CanTake(p, a)
    BY <1>5, <2>1 DEF CanTake
  <2>4. /\ out' = out \o Taken(p, a) /\ input' = p + a
        /\ stack' = Append(stack, [at |-> input', amount |-> a]) /\ dpc' = "call"
    <3>1. a = (IF h.kind = "frag" THEN Amount(h) ELSE h.n)
      BY <1>7 DEF a
    <3> HIDE DEF h
    <3> QED
      BY <1>4, <1>6, <1>7, <2>1, <2>3, <3>1, WrittenDeterminant, Zenon
  <2>5. stack # << >> => stack[Len(stack)].at < p + a
    BY <1>0, <1>2, <2>2, KAssumption
  <2>6. /\ stack' \in Seq(Frame) /\ Len(stack') = Len(stack) + 1 /\ stack' # << >>
        /\ stack'[Len(stack')].at = p + a
        /\ stack # << >> => stack'[1] = stack[1]
        /\ Nested(stack')
    <3>1. stack' = Append(stack, [at |-> p + a, amount |-> a])
      BY <2>4
    <3> DEFINE f == [at |-> p + a, amount |-> a]
    <3>2. f \in Frame /\ f.at = p + a /\ f.amount >= K /\ stack' = Append(stack, f)
      BY <2>1, <2>2, <3>1 DEF Frame
    <3> HIDE DEF f
    <3>3. Nested(stack) /\ (stack # << >> => stack[Len(stack)].at < f.at)
      BY <1>2, <2>5, <3>2
    <3>4. /\ stack' \in Seq(Frame) /\ Len(stack') = Len(stack) + 1 /\ stack' # << >>
          /\ stack'[Len(stack')] = f
          /\ Nested(stack')
      BY <1>0, <3>2, <3>3, PushFrame, Zenon
    <3>5. stack # << >> => stack'[1] = stack[1]
      BY <1>0, <3>2
    <3> QED
      BY <3>2, <3>4, <3>5
  <2>7. input' < Len(buffer) /\ buffer[input' + 1].kind # "item"
    BY <2>1, <2>4
  <2>8. ASSUME Len(stack') = 1
        PROVE  stack'[1].at = Amount(buffer[1]) + 1 /\ out' = EncodeFn(0, Amount(buffer[1]))
    <3>1. stack = << >> /\ input = 0 /\ out = << >>
      BY <1>0, <1>2, <2>6, <2>8
    <3>2. p = 1 /\ a = Amount(buffer[1])
      BY <3>1 DEF a
    <3>3. stack'[1].at = a + 1
      <4>1. stack'[Len(stack')].at = p + a
        BY <2>6
      <4> QED
        BY <2>2, <2>8, <3>2, <4>1
    <3>4. SubSeq(wire, 2, a + 1) = EncodeFn(0, a)
      <4>1. \A i \in 1..a : buffer[i + 1] = Item(i - 1)
        BY <1>3, <3>2 DEF Chain
      <4>2. a + 1 <= Len(wire)
        BY <1>5, <2>1, <2>2, <3>2
      <4>3. \A i \in 1..a : wire[i + 1] = Item(i - 1)
        BY <1>4, <1>5, <2>2, <4>1, <4>2
      <4> QED
        BY <1>5, <2>2, <4>2, <4>3, TakesItems, Zenon
    <3>5. Taken(p, a) = EncodeFn(0, a)
      BY <2>2, <3>2, <3>4 DEF Taken
    <3>6. EncodeFn(0, a) \in Seq(Cell)
      BY <2>2, ItemsFromZero
    <3>7. out' = EncodeFn(0, a)
      BY <2>4, <3>1, <3>5, <3>6
    <3> QED
      BY <3>2, <3>3, <3>7
  <2>9. stack'[1].at > Amount(buffer[1])
    <3>1. CASE stack # << >>
      BY <1>2, <2>6, <3>1
    <3>2. CASE stack = << >>
      <4>1. p = 1 /\ a = Amount(buffer[1])
        BY <1>2, <3>2 DEF a
      <4>2. Len(stack') = 1
        BY <2>6, <3>2
      <4>3. stack'[1].at = 1 + a
        BY <2>6, <4>1, <4>2
      <4> QED BY <2>2, <4>1, <4>3, KAssumption
    <3> QED BY <3>1, <3>2
  <2> QED
    BY <1>1, <2>4, <2>6, <2>7, <2>8, <2>9 DEF FragmentWalk
<1>8. CASE h.kind = "short"
  <2>1. p = Len(buffer) /\ h.n = 0
    BY <1>3, <1>4, <1>8 DEF Closed
  <2>2. buffer[1].kind = "frag"
    BY <1>3 DEF Chain
  <2>3. input # 0 /\ stack # << >> /\ stack[Len(stack)].at = Len(buffer) - 1
    BY <1>0, <1>2, <1>8, <2>1, <2>2
  <2>4. CanTake(p, 0) /\ Taken(p, 0) = << >>
    BY <1>4, <1>5, <2>1 DEF CanTake, Taken
  <2>5. out' = out \o Taken(p, 0) /\ input' = p + 0 /\ stack' = stack /\ dpc' = "return"
    <3>1. 0 = (IF h.kind = "frag" THEN Amount(h) ELSE h.n)
      BY <1>8, <2>1
    <3>2. h.kind = "frag" => h.n \in 1..4
      BY <1>8
    <3> HIDE DEF h
    <3> QED
      BY <1>4, <1>6, <1>8, <2>4, <3>1, <3>2, WrittenDeterminant, Zenon
  <2>6. out' = out /\ input' = Len(buffer)
    BY <1>0, <1>4, <2>1, <2>4, <2>5
  <2> QED
    BY <1>1, <1>2, <2>3, <2>5, <2>6 DEF FragmentWalk
<1> QED
  BY <1>4, <1>7, <1>8

LEMMA DecodeDeterminantWalk == Inv /\ WalkInv /\ DecodeDeterminant => WalkInv'
<1> SUFFICES ASSUME Inv, WalkInv, DecodeDeterminant PROVE WalkInv'
  OBVIOUS
<1>1. /\ UNCHANGED encVars /\ dpc = "call" /\ dpc' # "idle"
      /\ epc' = epc /\ min' = min /\ trailing' = trailing
      /\ buffer' = buffer /\ total' = total
  BY DEF DecodeDeterminant, Fail, encVars
<1>2. epc = "done"
  BY <1>1 DEF WalkInv, DecoderWaits, Inv, TypeOK
<1>3. PlainWalk'
  <2>1. min = 0 => /\ input' = Len(buffer) /\ stack' = << >>
                   /\ out' = EncodeFn(0, total) /\ dpc' = "return"
    BY <1>2, PlainDeterminant
  <2> QED
    BY <1>1, <2>1 DEF PlainWalk
<1>4. FragmentWalk'
  <2>1. CASE min > 0 /\ NoTail /\ trailing = 0
    BY <1>2, <2>1, FragmentDeterminant
  <2>2. CASE ~(min > 0 /\ NoTail /\ trailing = 0)
    BY <1>1, <2>2 DEF FragmentWalk, NoTail
  <2> QED
    BY <2>1, <2>2
<1> QED
  BY <1>1, <1>2, <1>3, <1>4, WalkFrame
\* Leaving the innermost activation
LEMMA PopFrame ==
    ASSUME NEW s \in Seq(Frame), s # << >>, Nested(s),
           NEW t, t = SubSeq(s, 1, Len(s) - 1)
    PROVE  /\ t \in Seq(Frame) /\ Len(t) = Len(s) - 1 /\ Nested(t)
           /\ \A i \in 1..Len(t) : t[i] = s[i] /\ t[i].at < s[Len(s)].at
           /\ t # << >> => Len(s) # 1 /\ t[1] = s[1]
<1>1. Len(s) \in Nat /\ Len(s) >= 1
  OBVIOUS
<1>2. /\ t \in Seq(Frame) /\ Len(t) = Len(s) - 1
      /\ \A i \in 1..Len(t) : t[i] = s[i]
  <2> DEFINE n == Len(s) - 1
  <2>1. n \in Nat /\ n <= Len(s) /\ t = SubSeq(s, 1, n)
    BY <1>1
  <2> HIDE DEF n
  <2>2. t \in Seq(Frame) /\ Len(t) = n
    BY <1>1, <2>1
  <2>3. \A i \in 1..n : t[i] = s[i]
    BY <1>1, <2>1
  <2> QED
    BY <2>2, <2>3 DEF n
<1>3. Nested(t)
  BY <1>1, <1>2, SMTT(30) DEF Nested
<1>4. \A i \in 1..Len(t) : s[i].at < s[Len(s)].at
  BY <1>1, <1>2 DEF Nested
<1> QED
  BY <1>1, <1>2, <1>3, <1>4

\* One fragment and the closing length determinant behind it: that fragment
\* held the whole value.
LEMMA OneFragment ==
    ASSUME NEW b \in Seq(Cell), NEW m, Closed(b), FirstOf(b, m),
           Amount(b[1]) + 1 = Len(b) - 1
    PROVE  m = Amount(b[1])
<1>1. 1 \in 1..Len(b) /\ b[1].kind = "frag"
  BY DEF Closed, Chain
<1>2. b[1].n \in 1..4
  BY <1>1 DEF Closed, Chain
<1>3. Amount(b[1]) \in Nat
  BY <1>2, AmountFacts
<1>4. Amount(b[1]) + 2 = Len(b) /\ Len(b) \in 1..Len(b)
  BY <1>1, <1>3
<1>5. b[Len(b)].kind # "frag"
  <2> SUFFICES ASSUME b[Len(b)].kind = "frag" PROVE FALSE
    OBVIOUS
  <2>1. b[Len(b)].n \in 1..4 /\ Len(b) + Amount(b[Len(b)]) < Len(b)
    BY <1>4 DEF Closed, Chain
  <2>2. Amount(b[Len(b)]) \in Nat
    BY <2>1, AmountFacts
  <2> QED
    BY <1>4, <2>1, <2>2
<1> QED
  BY <1>4, <1>5 DEF FirstOf

\* The loop of an activation over a fragmented value at the end of the input:
\* the innermost one steps back before the closing length determinant, and the
\* next one fails on it.
LEMMA FragmentLoop ==
    ASSUME Inv, WalkInv, DecodeLoop, epc = "done", min > 0, NoTail, trailing = 0
    PROVE  FragmentWalk'
<1>0. /\ buffer \in Seq(Cell) /\ trailing \in Nat /\ total \in Nat /\ input \in Nat
      /\ stack \in Seq(Frame) /\ out \in Seq(Cell) /\ Len(buffer) \in Nat /\ min \in Nat
  BY WireFacts DEF Inv, TypeOK
<1>1. /\ dpc = "return" /\ stack # << >>
      /\ buffer' = buffer /\ total' = total /\ epc' = epc /\ min' = min /\ trailing' = trailing
  BY DEF DecodeLoop, encVars
<1> DEFINE top == stack[Len(stack)]
           below == SubSeq(stack, 1, Len(stack) - 1)
<1>2. /\ Nested(stack)
      /\ stack[1].at > Amount(buffer[1])
      /\ \/ input = Len(buffer) /\ top.at = Len(buffer) - 1
         \/ /\ input = Len(buffer) - 1
            /\ \A i \in 1..Len(stack) : stack[i].at < input
      /\ Len(stack) = 1 /\ input = Len(buffer) =>
            /\ stack[1].at = Amount(buffer[1]) + 1
            /\ out = EncodeFn(0, Amount(buffer[1]))
  BY <1>1 DEF WalkInv, FragmentWalk
<1>3. Closed(buffer) /\ FirstOf(buffer, min) /\ min = total
  BY DEF WalkInv, FragmentShape, NoTail
<1>4. wire \in Seq(Cell) /\ Len(wire) = Len(buffer)
  BY <1>0, WireAlone
<1>5. Len(stack) \in 1..Len(stack) /\ Len(stack) \in Nat
  BY <1>0, <1>1
<1>6. top \in Frame /\ top.at \in Nat /\ top.amount \in Nat /\ top.amount >= K
  <2>1. top \in Frame
    BY <1>0, <1>5
  <2> QED
    BY <1>2, <1>5, <2>1 DEF Frame, Nested
<1>7. CASE input = Len(buffer) /\ top.at = Len(buffer) - 1
  <2>1. input' = top.at /\ stack' = below /\ dpc' = dpc /\ out' = out
    BY <1>0, <1>4, <1>7 DEF DecodeLoop, Remaining
  <2> HIDE DEF top, below
  <2>2. /\ below \in Seq(Frame) /\ Len(below) = Len(stack) - 1 /\ Nested(below)
        /\ \A i \in 1..Len(below) : below[i].at < top.at
        /\ below # << >> => Len(stack) # 1 /\ below[1] = stack[1]
    BY <1>0, <1>1, <1>2, PopFrame DEF top, below
  <2>3. ASSUME below = << >> PROVE out = EncodeFn(0, total)
    <3>1. Len(stack) = 1
      BY <1>5, <2>2, <2>3
    <3>2. Amount(buffer[1]) + 1 = Len(buffer) - 1 /\ out = EncodeFn(0, Amount(buffer[1]))
      BY <1>2, <1>7, <3>1 DEF top
    <3> QED
      BY <1>0, <1>3, <3>2, OneFragment
  <2>4. input' = Len(buffer) - 1 /\ input' # Len(buffer)
    BY <1>0, <1>7, <2>1
  <2>5. stack' # << >> => stack'[1].at > Amount(buffer'[1])
    BY <1>1, <1>2, <2>1, <2>2
  <2>6. dpc' # "err"
    BY <1>1, <2>1
  <2>7. \A i \in 1..Len(stack') : stack'[i].at < input'
    BY <2>1, <2>2
  <2>8. Nested(stack') /\ (stack' = << >> => out' = EncodeFn(0, total'))
    BY <1>1, <2>1, <2>2, <2>3
  <2> QED
    BY <1>1, <2>1, <2>4, <2>5, <2>6, <2>7, <2>8 DEF FragmentWalk
<1>8. CASE /\ input = Len(buffer) - 1
           /\ \A i \in 1..Len(stack) : stack[i].at < input
  <2>1. Remaining = 1 /\ input # top.at
    BY <1>0, <1>4, <1>5, <1>6, <1>8 DEF Remaining
  <2>2. ~CanTake(input, top.amount)
    BY <1>0, <1>4, <1>6, <1>8, KAssumption DEF CanTake
  <2>3. Fail
    BY <2>1, <2>2 DEF DecodeLoop
  <2>4. Amount(buffer[1]) + 2 # Len(buffer)
    <3>1. 1 \in 1..Len(stack) /\ stack[1].at \in Nat
      <4>1. 1 \in 1..Len(stack)
        BY <1>0, <1>1
      <4>2. stack[1] \in Frame
        BY <1>0, <4>1
      <4> QED BY <4>1, <4>2 DEF Frame
    <3>2. stack[1].at < input /\ stack[1].at > Amount(buffer[1])
      BY <1>2, <1>8, <3>1
    <3>3. Amount(buffer[1]) \in Nat
      BY <1>3, AmountFacts DEF Closed, Chain
    <3> QED BY <1>0, <1>8, <3>1, <3>2, <3>3
  <2> QED
    BY <2>3, <2>4, FailWalk DEF DecodeLoop
<1> QED
  BY <1>2, <1>7, <1>8

LEMMA DecodeLoopWalk == Inv /\ WalkInv /\ DecodeLoop => WalkInv'
<1> SUFFICES ASSUME Inv, WalkInv, DecodeLoop PROVE WalkInv'
  OBVIOUS
<1>1. /\ UNCHANGED encVars /\ dpc = "return" /\ stack # << >> /\ dpc' # "idle"
      /\ epc' = epc /\ min' = min /\ trailing' = trailing
      /\ buffer' = buffer /\ total' = total
  BY DEF DecodeLoop, Fail, encVars
<1>2. epc = "done"
  BY <1>1 DEF WalkInv, DecoderWaits, Inv, TypeOK
<1>3. PlainWalk'
  <2>1. min # 0
    BY <1>1, <1>2 DEF WalkInv, PlainWalk
  <2> QED
    BY <1>1, <2>1 DEF PlainWalk
<1>4. FragmentWalk'
  <2>1. CASE min > 0 /\ NoTail /\ trailing = 0
    BY <1>2, <2>1, FragmentLoop
  <2>2. CASE ~(min > 0 /\ NoTail /\ trailing = 0)
    BY <1>1, <2>2 DEF FragmentWalk, NoTail
  <2> QED
    BY <2>1, <2>2
<1> QED
  BY <1>1, <1>2, <1>3, <1>4, WalkFrame

LEMMA StartDecodeWalk == Inv /\ WalkInv /\ StartDecode => WalkInv'
<1> SUFFICES ASSUME Inv, WalkInv, StartDecode PROVE WalkInv'
  OBVIOUS
<1>1. /\ epc = "done" /\ dpc' = "call" /\ UNCHANGED encVars
      /\ input' = input /\ stack' = stack /\ out' = out
      /\ epc' = epc /\ min' = min /\ trailing' = trailing
      /\ buffer' = buffer /\ total' = total
  BY DEF StartDecode, encVars
<1>2. input = 0 /\ stack = << >> /\ out = << >>
  BY DEF StartDecode, WalkInv, DecoderWaits
<1>3. PlainWalk'
  BY <1>1, <1>2 DEF PlainWalk
<1>4. FragmentWalk'
  <2> SUFFICES ASSUME min > 0, NoTail PROVE 0 < Len(buffer) /\ buffer[0 + 1].kind # "item"
    BY <1>1, <1>2 DEF FragmentWalk, NoTail, Nested
  <2>1. Chain(buffer)
    BY <1>1 DEF WalkInv, FragmentShape, Closed
  <2>2. buffer \in Seq(Cell)
    BY DEF Inv, TypeOK
  <2> QED
    BY <2>1, <2>2 DEF Chain
<1> QED
  BY <1>1, <1>3, <1>4, WalkFrame

LEMMA DecodeReturnWalk == Inv /\ WalkInv /\ DecodeReturn => WalkInv'
<1> SUFFICES ASSUME Inv, WalkInv, DecodeReturn PROVE WalkInv'
  OBVIOUS
<1>1. /\ dpc = "return" /\ stack = << >> /\ dpc' = "ok" /\ UNCHANGED encVars
      /\ input' = input /\ stack' = stack /\ out' = out
      /\ epc' = epc /\ min' = min /\ trailing' = trailing
      /\ buffer' = buffer /\ total' = total
  BY DEF DecodeReturn, encVars
<1>2. epc = "done"
  BY <1>1 DEF WalkInv, DecoderWaits, Inv, TypeOK
<1>3. PlainWalk'
  BY <1>1 DEF WalkInv, PlainWalk
<1>4. FragmentWalk'
  BY <1>1 DEF WalkInv, FragmentWalk, NoTail, Nested
<1> QED
  BY <1>1, <1>2, <1>3, <1>4, WalkFrame

LEMMA NextWalk == Inv /\ WalkInv /\ [Next]_vars => WalkInv'
<1> SUFFICES ASSUME Inv, WalkInv, [Next]_vars PROVE WalkInv'
  OBVIOUS
<1>1. CASE Encode
  BY <1>1, EncodeShortWalk, EncodeFragmentWalk DEF Encode
<1>2. CASE Decode
  BY <1>2, StartDecodeWalk, DecodeDeterminantWalk, DecodeLoopWalk, DecodeReturnWalk DEF Decode
<1>3. CASE UNCHANGED vars
  BY <1>3 DEF vars, WalkInv, PlainShape, FragmentShape, SingleShape, Single, NoTail,
              DecoderWaits, PlainWalk,
              FragmentWalk
<1> QED
  BY <1>1, <1>2, <1>3 DEF Next, Finished

\* DecodesExact: decode_unknown_length does not fail on a value that was not fragmented,
\* whatever follows, nor on one of a single fragment at the end of the input; what it
\* returns for these, and for any value written completely, are the value's items,
\* whatever the fragment size; and the decode of a value that was not fragmented
\* ends exactly before the field that follows it.
THEOREM DecodesCorrect == Spec => []DecodesExact
<1>1. Init => Inv /\ WalkInv
  BY InitInv, InitWalk
<1>2. Inv /\ WalkInv /\ [Next]_vars => (Inv /\ WalkInv)'
  BY NextInv, NextWalk
<1>3. Inv /\ WalkInv => DecodesExact
  <2> SUFFICES ASSUME Inv, WalkInv PROVE DecodesExact
    OBVIOUS
  <2>0. min \in Nat /\ total \in Nat /\ buffer \in Seq(Cell)
    BY DEF Inv, TypeOK
  <2>1. dpc \in {"ok", "err"} => epc = "done"
    BY DEF WalkInv, DecoderWaits, Inv, TypeOK
  <2>2. ASSUME dpc = "ok", NoTail, trailing = 0 \/ min = 0 PROVE out = EncodeFn(0, total)
    <3>1. CASE min = 0
      BY <2>1, <2>2, <3>1 DEF WalkInv, PlainWalk
    <3>2. CASE min > 0
      BY <2>1, <2>2, <3>2 DEF WalkInv, FragmentWalk
    <3> QED BY <2>0, <3>1, <3>2
  <2>3. ASSUME dpc = "ok", min = 0 PROVE input = Len(buffer)
    BY <2>1, <2>3 DEF WalkInv, PlainWalk
  <2>4. ASSUME dpc = "err", Readable PROVE FALSE
    <3>1. CASE total < K
      BY <2>1, <2>4, <3>1 DEF WalkInv, SingleShape, PlainWalk
    <3>2. CASE Single /\ trailing = 0
      <4>1. /\ min = total /\ total >= K
            /\ Amount(buffer[1]) = total /\ Len(buffer) = total + 2
        BY <2>1, <2>4, <3>2, SingleFits DEF WalkInv, SingleShape
      <4>2. min > 0 /\ NoTail
        BY <2>0, <4>1, KAssumption DEF NoTail
      <4>3. Amount(buffer[1]) + 2 = Len(buffer)
        BY <4>1
      <4> QED BY <2>1, <2>4, <3>2, <4>2, <4>3 DEF WalkInv, FragmentWalk
    <3> QED BY <2>4, <3>1, <3>2 DEF Readable, Single
  <2> QED
    BY <2>2, <2>3, <2>4 DEF DecodesExact
<1> QED
  BY <1>1, <1>2, <1>3, PTL DEF Spec
=============================================================================
