-------------------------- MODULE BerDecoder_proofs --------------------------
(***************************************************************************)
(* The nested decoders of the BER decoder stay inside their slices and     *)
(* below the recursion limit, and what they accept is an encoding of the   *)
(* type that was asked for, for every schema, input and limit.             *)
(***************************************************************************)
EXTENDS BerDecoder, SequenceTheorems, TLAPS

\* What holds of every nested decoder and of its relation to the one below.
FramesOK(s, n) ==
    /\ s \in Seq(Frame)
    /\ s # << >>
    /\ \A i \in 1..Len(s) :
          /\ s[i].pos <= s[i].end
          /\ s[i].end <= n
          /\ i + s[i].depth <= MaxDepth + 1
          /\ s[i].type = NoType <=> i = 1
    /\ \A i \in 2..Len(s) :
          IF s[i].streaming
          THEN s[i].end = s[i-1].end /\ s[i-1].pos <= s[i].pos
          ELSE s[i].end = s[i-1].pos

\* The inductive invariant: the two properties and the type invariant with
\* the length of the input as the outermost bound.
DecoderInv ==
    /\ TypeOK
    /\ FramesOK(stack, Len(input))

\* `f` is `d` further on in the same slice.
Advances(d, f) ==
    /\ f \in Frame
    /\ f.type = d.type
    /\ f.end = d.end
    /\ f.depth = d.depth
    /\ f.streaming = d.streaming
    /\ d.pos <= f.pos
    /\ f.pos <= f.end

\* Moving the innermost decoder forward keeps every decoder in place.
LEMMA ReplaceTop ==
    ASSUME NEW s, NEW n \in Nat, FramesOK(s, n), NEW f, Advances(s[Len(s)], f)
    PROVE  FramesOK([s EXCEPT ![Len(s)] = f], n)
<1> DEFINE r == [s EXCEPT ![Len(s)] = f]
<1>1. s \in Seq(Frame) /\ Len(s) \in Nat \ {0} /\ f \in Frame
  BY DEF FramesOK, Advances
<1>2. r \in Seq(Frame) /\ Len(r) = Len(s) /\ r # << >>
  BY <1>1
<1>3. \A i \in 1..Len(s) : r[i] = IF i = Len(s) THEN f ELSE s[i]
  BY <1>1
<1>4. \A i \in 1..Len(s) : s[i] \in Frame
  BY <1>1
<1>5. \A i \in 1..Len(r) : /\ r[i].pos <= r[i].end
                           /\ r[i].end <= n
                           /\ i + r[i].depth <= MaxDepth + 1
                           /\ r[i].type = NoType <=> i = 1
  <2> SUFFICES ASSUME NEW i \in 1..Len(s)
               PROVE  /\ r[i].pos <= r[i].end
                      /\ r[i].end <= n
                      /\ i + r[i].depth <= MaxDepth + 1
                      /\ r[i].type = NoType <=> i = 1
    BY <1>2
  <2>1. /\ s[i].pos <= s[i].end
        /\ s[i].end <= n
        /\ i + s[i].depth <= MaxDepth + 1
        /\ s[i].type = NoType <=> i = 1
    BY DEF FramesOK
  <2>2. CASE i = Len(s)
    BY <2>1, <2>2, <1>3 DEF Advances
  <2>3. CASE i # Len(s)
    BY <2>1, <2>3, <1>3
  <2> QED BY <2>2, <2>3
<1>6. ASSUME NEW i \in 2..Len(r)
      PROVE  IF r[i].streaming
             THEN r[i].end = r[i-1].end /\ r[i-1].pos <= r[i].pos
             ELSE r[i].end = r[i-1].pos
  <2>1. i \in 1..Len(s) /\ i - 1 \in 1..Len(s) /\ i - 1 # Len(s)
    BY <1>1, <1>2
  <2>2. r[i-1] = s[i-1] /\ s[i-1] \in Frame /\ s[i] \in Frame
    BY <2>1, <1>3, <1>4
  <2>3. s[i-1].pos \in Nat /\ s[i].pos \in Nat /\ f.pos \in Nat
    BY <2>2, <1>1 DEF Frame
  <2>4. IF s[i].streaming
        THEN s[i].end = s[i-1].end /\ s[i-1].pos <= s[i].pos
        ELSE s[i].end = s[i-1].pos
    BY <1>2 DEF FramesOK
  <2>5. CASE i = Len(s)
    BY <2>1, <2>2, <2>3, <2>4, <2>5, <1>3 DEF Advances
  <2>6. CASE i # Len(s)
    BY <2>1, <2>2, <2>4, <2>6, <1>3
  <2> QED BY <2>5, <2>6
<1> QED BY <1>2, <1>5, <1>6 DEF FramesOK

\* Dropping the innermost decoder leaves the others in place.
LEMMA PopTop ==
    ASSUME NEW s, NEW n \in Nat, FramesOK(s, n), Len(s) > 1
    PROVE  /\ FramesOK(SubSeq(s, 1, Len(s) - 1), n)
           /\ Len(SubSeq(s, 1, Len(s) - 1)) = Len(s) - 1
           /\ \A i \in 1..(Len(s) - 1) : SubSeq(s, 1, Len(s) - 1)[i] = s[i]
<1> DEFINE r == SubSeq(s, 1, Len(s) - 1)
<1>1. s \in Seq(Frame) /\ Len(s) \in Nat
  BY DEF FramesOK
<1>2. r \in Seq(Frame) /\ Len(r) = Len(s) - 1 /\ r # << >>
  <2>1. \A i \in 1..(Len(s) - 1) : s[i] \in Frame
    BY <1>1
  <2>2. 1 \in Int /\ Len(s) - 1 \in Int /\ 1 <= Len(s) - 1
    BY <1>1
  <2>3. r \in Seq(Frame) /\ Len(r) = Len(s) - 1 - 1 + 1
    BY <2>1, <2>2, SubSeqProperties
  <2> HIDE DEF r
  <2>4. Len(r) = Len(s) - 1 /\ Len(r) # 0
    BY <1>1, <2>3
  <2>5. r # << >>
    BY <2>4
  <2> QED BY <2>3, <2>4, <2>5
<1>3. \A i \in 1..(Len(s) - 1) : r[i] = s[i]
  BY <1>1
<1>4. FramesOK(r, n)
  BY <1>1, <1>2, <1>3 DEF FramesOK
<1> QED BY <1>2, <1>3, <1>4

\* A new decoder over the contents of a value is in place.
LEMMA PushTop ==
    ASSUME NEW s, NEW n \in Nat, FramesOK(s, n), NEW g \in Frame,
           g.type # NoType, g.pos <= g.end, g.end <= n,
           Len(s) + 1 + g.depth <= MaxDepth + 1,
           IF g.streaming THEN g.end = s[Len(s)].end /\ s[Len(s)].pos <= g.pos
                          ELSE g.end = s[Len(s)].pos
    PROVE  FramesOK(Append(s, g), n)
<1> DEFINE r == Append(s, g)
<1>1. s \in Seq(Frame) /\ Len(s) \in Nat \ {0}
  BY DEF FramesOK
<1>2. r \in Seq(Frame) /\ Len(r) = Len(s) + 1 /\ r # << >>
  BY <1>1
<1>3. /\ \A i \in 1..Len(s) : r[i] = s[i]
      /\ r[Len(s) + 1] = g
  BY <1>1
<1>4. \A i \in 1..Len(r) : /\ r[i].pos <= r[i].end
                           /\ r[i].end <= n
                           /\ i + r[i].depth <= MaxDepth + 1
                           /\ r[i].type = NoType <=> i = 1
  BY <1>1, <1>2, <1>3 DEF FramesOK
<1>5. ASSUME NEW i \in 2..Len(r)
      PROVE  IF r[i].streaming
             THEN r[i].end = r[i-1].end /\ r[i-1].pos <= r[i].pos
             ELSE r[i].end = r[i-1].pos
  <2>1. CASE i = Len(s) + 1
    <3>1. r[i] = g /\ r[i-1] = s[Len(s)]
      BY <2>1, <1>1, <1>3
    <3> QED BY <3>1
  <2>2. CASE i # Len(s) + 1
    <3>1. i \in 2..Len(s) /\ r[i] = s[i] /\ r[i-1] = s[i-1]
      BY <2>2, <1>1, <1>2, <1>3
    <3> QED BY <3>1 DEF FramesOK
  <2> QED BY <2>1, <2>2
<1> QED BY <1>2, <1>4, <1>5 DEF FramesOK
(***************************************************************************)
(* Steps of the decoder.                                                   *)
(***************************************************************************)
\* The innermost decoder, and the token it looks at.
LEMMA TopFacts ==
    ASSUME DecoderInv
    PROVE  /\ stack \in Seq(Frame) /\ Len(stack) \in Nat \ {0}
           /\ top \in Frame
           /\ top.pos \in Nat /\ top.end \in Nat /\ top.depth \in Nat
           /\ Len(input) \in Nat
           /\ top.pos <= top.end /\ top.end <= Len(input)
           /\ Len(stack) + top.depth <= MaxDepth + 1
           /\ top.type \in Types \cup {NoType}
           /\ top.type = NoType <=> Len(stack) = 1
           /\ ~AtEnd(top) => Peek(top) \in Token /\ top.pos + 1 <= top.end
<1>1. stack \in Seq(Frame) /\ Len(stack) \in Nat \ {0} /\ Len(stack) \in 1..Len(stack)
  BY DEF DecoderInv, FramesOK
<1>2. top \in Frame
  BY <1>1 DEF top
<1>3. /\ top.pos <= top.end /\ top.end <= Len(input)
      /\ Len(stack) + top.depth <= MaxDepth + 1
      /\ top.type = NoType <=> Len(stack) = 1
  BY <1>1 DEF DecoderInv, FramesOK, top
<1>4. /\ top.pos \in Nat /\ top.end \in Nat /\ top.depth \in Nat
      /\ top.type \in Types \cup {NoType}
  BY <1>2 DEF Frame
<1>5. input \in Seq(Token) /\ Len(input) \in Nat
  BY DEF DecoderInv, TypeOK
<1>6. ASSUME ~AtEnd(top) PROVE Peek(top) \in Token /\ top.pos + 1 <= top.end
  <2>1. top.pos + 1 <= top.end /\ top.pos + 1 \in 1..Len(input)
    BY <1>3, <1>4, <1>5, <1>6 DEF AtEnd
  <2> QED BY <1>5, <2>1 DEF Peek
<1> QED BY <1>1, <1>2, <1>3, <1>4, <1>5, <1>6

\* A step that leaves the input alone preserves the invariant if it leaves the
\* decoders in place.
LEMMA Assemble ==
    ASSUME DecoderInv, UNCHANGED <<input, root, der>>,
           FramesOK(stack', Len(input)),
           pc' \in {"decode", "step", "return", "done"}, goal' \in Types,
           res' \in {"ok", "err", "depth"}
    PROVE  DecoderInv'
<1>1. stack' \in Seq(Frame) /\ stack' # << >>
  BY DEF FramesOK
<1>2. TypeOK'
  BY <1>1 DEF DecoderInv, TypeOK
<1>3. FramesOK(stack', Len(input'))
  BY DEF FramesOK
<1>4. FramesOK(stack, Len(input))'
  BY <1>3 DEF FramesOK
<1> QED BY <1>2, <1>4 DEF DecoderInv

LEMMA SetTopOK ==
    ASSUME DecoderInv, NEW f, Advances(top, f)
    PROVE  FramesOK(SetTop(f), Len(input))
BY TopFacts, ReplaceTop DEF DecoderInv, SetTop, top

LEMMA PropagateOK ==
    ASSUME DecoderInv, Len(stack) > 1
    PROVE  FramesOK(Below, Len(input))
BY TopFacts, PopTop DEF DecoderInv, Below

\* parse_constructed_contents moves the outer decoder forwards, if at all.
LEMMA LeaveAdvances ==
    ASSUME DecoderInv, Len(stack) > 1, LeaveConstructed
    PROVE  \E f : /\ Advances(stack[Len(stack) - 1], f)
                  /\ stack' = [Below EXCEPT ![Len(stack) - 1] = f]
<1> DEFINE k == Len(stack) - 1
           outer == stack[k]
<1>1. /\ stack \in Seq(Frame) /\ k \in 1..Len(stack) /\ Len(stack) \in 2..Len(stack)
      /\ top.pos \in Nat /\ top.pos <= top.end
  BY TopFacts
<1>2. outer \in Frame /\ outer.pos \in Nat /\ outer.end \in Nat
  <2>1. outer \in Frame
    BY <1>1
  <2> QED BY <2>1 DEF Frame
<1>3. /\ outer.pos <= outer.end
      /\ top.streaming => top.end = outer.end /\ outer.pos <= top.pos
  BY <1>1 DEF DecoderInv, FramesOK, top
<1>4. Advances(outer, outer)
  BY <1>2, <1>3 DEF Advances
<1>5. ASSUME top.streaming
      PROVE  Advances(outer, [outer EXCEPT !.pos = top.pos])
  BY <1>1, <1>2, <1>3, <1>5 DEF Advances, Frame
<1>6. ASSUME top.streaming, AtEoc([outer EXCEPT !.pos = top.pos])
      PROVE  Advances(outer, [outer EXCEPT !.pos = top.pos + 1])
  <2>1. top.pos # outer.end
    BY <1>2, <1>6 DEF AtEoc, AtEnd, Frame
  <2>2. top.pos + 1 \in Nat /\ outer.pos <= top.pos + 1 /\ top.pos + 1 <= outer.end
    BY <2>1, <1>1, <1>2, <1>3, <1>6
  <2> QED BY <2>2, <1>2 DEF Advances, Frame
<1>7. CASE top.streaming /\ AtEoc([outer EXCEPT !.pos = top.pos])
  BY <1>6, <1>7 DEF LeaveConstructed
<1>8. CASE top.streaming /\ ~AtEoc([outer EXCEPT !.pos = top.pos])
  BY <1>5, <1>8 DEF LeaveConstructed
<1>9. CASE ~top.streaming
  BY <1>4, <1>9 DEF LeaveConstructed
<1> QED BY <1>7, <1>8, <1>9

\* parse_constructed_contents returns into a decoder that is in place.
LEMMA LeaveOK ==
    ASSUME DecoderInv, Len(stack) > 1, LeaveConstructed
    PROVE  /\ FramesOK(stack', Len(input))
           /\ pc' = "return" /\ goal' = goal /\ res' \in {"ok", "err"}
<1> DEFINE k == Len(stack) - 1
           outer == stack[k]
<1>1. stack \in Seq(Frame) /\ k \in 1..Len(stack) /\ Len(input) \in Nat
  BY TopFacts
<1>2. /\ FramesOK(Below, Len(input))
      /\ Len(Below) = k /\ Below[k] = outer
  BY <1>1, PopTop DEF DecoderInv, Below
<1>3. ASSUME NEW f, Advances(outer, f)
      PROVE  FramesOK([Below EXCEPT ![k] = f], Len(input))
  BY <1>1, <1>2, <1>3, ReplaceTop
<1>4. pc' = "return" /\ goal' = goal /\ res' \in {"ok", "err"}
  BY DEF LeaveConstructed, Return
<1> QED BY <1>3, <1>4, LeaveAdvances
(***************************************************************************)
(* One lemma per action.                                                   *)
(***************************************************************************)
\* parse_value succeeded: the value and its contents lie in the slice.
LEMMA ParseFacts ==
    ASSUME DecoderInv, NEW tag, ParseValue(top, tag)
    PROVE  /\ Peek(top) \in Token
           /\ AfterValue(top) \in Nat
           /\ top.pos + 1 <= AfterValue(top) /\ AfterValue(top) <= top.end
           /\ Peek(top).len = Indefinite => AfterValue(top) = top.pos + 1
           /\ Advances(top, [top EXCEPT !.pos = AfterValue(top)])
<1>1. ~AtEnd(top) /\ HasContents(top)
  BY DEF ParseValue, HasIdentifier
<1>2. /\ Peek(top) \in Token /\ top.pos + 1 <= top.end
      /\ top.pos \in Nat /\ top.end \in Nat /\ top \in Frame
  BY <1>1, TopFacts
<1>3. Peek(top).len \in Nat \cup {Indefinite}
  BY <1>2 DEF Token
<1>4. /\ AfterValue(top) \in Nat
      /\ top.pos + 1 <= AfterValue(top) /\ AfterValue(top) <= top.end
      /\ Peek(top).len = Indefinite => AfterValue(top) = top.pos + 1
  BY <1>1, <1>2, <1>3 DEF HasContents, AfterValue, Indefinite
<1>5. Advances(top, [top EXCEPT !.pos = AfterValue(top)])
  BY <1>2, <1>4 DEF Advances, Frame
<1> QED BY <1>2, <1>4, <1>5

LEMMA PrimitiveStep ==
    ASSUME DecoderInv, DecodePrimitive
    PROVE  DecoderInv'
<1>1. pc' = "return" /\ goal' = goal /\ res' \in {"ok", "err"} /\ UNCHANGED <<input, root, der>>
  BY DEF DecodePrimitive, Return
<1>2. FramesOK(stack', Len(input))
  <2>1. CASE ParseValue(top, Schema[goal].tag)
    BY <2>1, ParseFacts, SetTopOK DEF DecodePrimitive
  <2>2. CASE ~ParseValue(top, Schema[goal].tag)
    BY <2>2 DEF DecodePrimitive, DecoderInv
  <2> QED BY <2>1, <2>2
<1> QED BY <1>1, <1>2, Assemble DEF DecoderInv, TypeOK

\* decode_octet_string moves its decoder to somewhere behind the header, or not
\* at all.
LEMMA StringMoves ==
    ASSUME DecoderInv, DecodeString
    PROVE  \/ stack' = stack
           \/ \E q \in (top.pos + 1)..top.end : stack' = SetTop([top EXCEPT !.pos = q])
<1>1. CASE ~ParseValue(top, Schema[goal].tag)
  BY <1>1 DEF DecodeString
<1>2. CASE ParseValue(top, Schema[goal].tag)
  <2>1. /\ AfterValue(top) \in (top.pos + 1)..top.end
        /\ top.pos \in Nat /\ top.end \in Nat
    BY <1>2, ParseFacts, TopFacts
  <2>2. CASE ~Peek(top).constructed \/ der
    BY <1>2, <2>1, <2>2 DEF DecodeString
  <2>3. CASE Peek(top).constructed /\ ~der
    <3> DEFINE indefinite == Peek(top).len = Indefinite
               end == IF indefinite THEN top.end ELSE AfterValue(top)
               closed(p) == indefinite /\ p < end /\ input[p + 1].kind = "eoc"
               q(p) == IF ~indefinite THEN end ELSE IF closed(p) THEN p + 1 ELSE p
    <3>1. PICK p \in (top.pos + 1)..end : stack' = SetTop([top EXCEPT !.pos = q(p)])
      BY <1>2, <2>3 DEF DecodeString
    <3>2. q(p) \in (top.pos + 1)..top.end
      BY <2>1
    <3> QED BY <3>1, <3>2
  <2> QED BY <2>2, <2>3
<1> QED BY <1>1, <1>2

LEMMA StringStep ==
    ASSUME DecoderInv, DecodeString
    PROVE  DecoderInv'
<1>1. pc' = "return" /\ goal' = goal /\ res' \in {"ok", "err"} /\ UNCHANGED <<input, root, der>>
  BY DEF DecodeString, Return
<1>2. FramesOK(stack', Len(input))
  <2>1. CASE stack' = stack
    BY <2>1 DEF DecoderInv
  <2>2. ASSUME NEW q \in (top.pos + 1)..top.end, stack' = SetTop([top EXCEPT !.pos = q])
        PROVE  FramesOK(stack', Len(input))
    <3>1. top \in Frame /\ top.pos \in Nat /\ top.end \in Nat
      BY TopFacts
    <3>2. Advances(top, [top EXCEPT !.pos = q])
      BY <3>1 DEF Advances, Frame
    <3> QED BY <2>2, <3>2, SetTopOK
  <2> QED BY <2>1, <2>2, StringMoves
<1> QED BY <1>1, <1>2, Assemble DEF DecoderInv, TypeOK

LEMMA EncodedStep ==
    ASSUME DecoderInv, DecodeEncoded
    PROVE  DecoderInv'
<1>1. pc' = "return" /\ goal' = goal /\ res' \in {"ok", "err"} /\ UNCHANGED <<input, root, der>>
  BY DEF DecodeEncoded, Return
<1>2. \/ stack' = stack
      \/ \E p \in top.pos..top.end : stack' = SetTop([top EXCEPT !.pos = p])
  BY DEF DecodeEncoded
<1>3. FramesOK(stack', Len(input))
  <2>1. CASE stack' = stack
    BY <2>1 DEF DecoderInv
  <2>2. ASSUME NEW p \in top.pos..top.end, stack' = SetTop([top EXCEPT !.pos = p])
        PROVE  FramesOK(stack', Len(input))
    <3>1. top \in Frame /\ top.pos \in Nat /\ top.end \in Nat
      BY TopFacts
    <3>2. Advances(top, [top EXCEPT !.pos = p])
      BY <3>1 DEF Advances, Frame
    <3> QED BY <2>2, <3>2, SetTopOK
  <2> QED BY <1>2, <2>1, <2>2
<1> QED BY <1>1, <1>3, Assemble DEF DecoderInv, TypeOK

LEMMA ChoiceStep ==
    ASSUME DecoderInv, DecodeChoice
    PROVE  DecoderInv'
<1>1. goal \in Types /\ res \in {"ok", "err", "depth"}
  BY DEF DecoderInv, TypeOK
<1>2. \A i \in 1..Len(Schema[goal].alts) : Schema[goal].alts[i].type \in Types
  <2>1. Schema[goal].alts \in Seq(Alternative)
    BY <1>1, SchemaAssumption DEF Declaration
  <2> TAKE i \in 1..Len(Schema[goal].alts)
  <2>2. Schema[goal].alts[i] \in Alternative
    BY <2>1
  <2> QED BY <2>2 DEF Alternative
<1>3. pc' \in {"decode", "return"} /\ goal' \in Types /\ res' \in {"ok", "err", "depth"}
  BY <1>1, <1>2 DEF DecodeChoice, Return, Decode
<1>4. UNCHANGED <<input, root, der, stack>>
  BY DEF DecodeChoice
<1> QED BY <1>3, <1>4, Assemble DEF DecoderInv

LEMMA EnterStep ==
    ASSUME DecoderInv, EnterConstructed
    PROVE  DecoderInv'
<1> DEFINE outer == [top EXCEPT !.pos = AfterValue(top)]
           inner == [type |-> goal, pos |-> top.pos + 1,
                     end |-> IF Peek(top).len = Indefinite THEN top.end ELSE AfterValue(top),
                     depth |-> InnerDepth(goal, top.depth),
                     streaming |-> Peek(top).len = Indefinite,
                     field |-> 1, seen |-> {}, twice |-> FALSE]
<1>1. goal \in Types /\ res \in {"ok", "err", "depth"}
  BY DEF DecoderInv, TypeOK
<1>2. /\ pc' \in {"return", "step"} /\ goal' = goal /\ res' \in {"ok", "err", "depth"}
      /\ UNCHANGED <<input, root, der>>
  BY <1>1 DEF EnterConstructed, Return
<1>3. FramesOK(stack', Len(input))
  <2>1. CASE stack' = stack
    BY <2>1 DEF DecoderInv
  <2>2. CASE ParseValue(top, Schema[goal].tag) /\ stack' = SetTop(outer)
    BY <2>2, ParseFacts, SetTopOK
  <2>3. CASE /\ top.depth # 0
             /\ ParseValue(top, Schema[goal].tag)
             /\ stack' = Append(SetTop(outer), inner)
    <3>1. /\ FramesOK(SetTop(outer), Len(input))
          /\ AfterValue(top) \in Nat /\ top.pos + 1 <= AfterValue(top)
          /\ AfterValue(top) <= top.end
          /\ Peek(top).len = Indefinite => AfterValue(top) = top.pos + 1
      BY <2>3, ParseFacts, SetTopOK
    <3>2. /\ stack \in Seq(Frame) /\ Len(stack) \in Nat \ {0} /\ top \in Frame
          /\ top.pos \in Nat /\ top.end \in Nat /\ top.depth \in Nat
          /\ Len(input) \in Nat /\ top.end <= Len(input)
          /\ Len(stack) + top.depth <= MaxDepth + 1
      BY TopFacts
    <3>3. Len(SetTop(outer)) = Len(stack) /\ SetTop(outer)[Len(stack)] = outer
      BY <3>2 DEF SetTop
    <3>4. InnerDepth(goal, top.depth) \in Nat /\ InnerDepth(goal, top.depth) <= top.depth - 1
      BY <2>3, <3>2 DEF InnerDepth
    <3>5. inner \in Frame
      <4>1. goal \in Types \cup {NoType} /\ top.pos + 1 \in Nat
        BY <1>1, <3>2
      <4>2. (IF Peek(top).len = Indefinite THEN top.end ELSE AfterValue(top)) \in Nat
        BY <3>1, <3>2
      <4>3. (Peek(top).len = Indefinite) \in BOOLEAN
        OBVIOUS
      <4>4. InnerDepth(goal, top.depth) \in Nat
        BY <3>4
      <4> QED
        BY <4>1, <4>2, <4>3, <4>4, SMTT(30) DEF Frame
    <3>6. outer.end = top.end /\ outer.pos = AfterValue(top)
      BY <3>2 DEF Frame
    <3>7. /\ inner.type # NoType /\ inner.pos <= inner.end /\ inner.end <= Len(input)
          /\ Len(stack) + 1 + inner.depth <= MaxDepth + 1
      <4>1. goal # NoType
        BY <1>1, SchemaAssumption
      <4>2. Len(stack) + 1 + InnerDepth(goal, top.depth) <= MaxDepth + 1
        BY <3>2, <3>4, DepthAssumption
      <4>3. inner.pos <= inner.end /\ inner.end <= Len(input)
        BY <3>1, <3>2
      <4> QED BY <4>1, <4>2, <4>3
    <3>8. IF inner.streaming THEN inner.end = outer.end /\ outer.pos <= inner.pos
                             ELSE inner.end = outer.pos
      BY <3>1, <3>2, <3>6
    <3> HIDE DEF inner, outer
    <3> QED BY <2>3, <3>1, <3>2, <3>3, <3>5, <3>7, <3>8, PushTop
  <2> QED BY <2>1, <2>2, <2>3 DEF EnterConstructed
<1> QED BY <1>1, <1>2, <1>3, Assemble
\* A handler that is not the root's runs in a nested decoder.
LEMMA Nested ==
    ASSUME DecoderInv, Kind(top) # "root"
    PROVE  /\ Len(stack) > 1 /\ top.type \in Types
           /\ \A i \in 1..Len(Fields(top)) : Fields(top)[i].type \in Types
           /\ top.field \in Nat \ {0}
<1>1. top.type \in Types /\ Len(stack) > 1 /\ top \in Frame
  <2>1. top.type # NoType
    BY DEF Kind
  <2>2. /\ Len(stack) \in Nat \ {0} /\ Len(stack) # 1 /\ top \in Frame
        /\ top.type \in Types \cup {NoType}
    BY <2>1, TopFacts
  <2>3. Len(stack) > 1
    <3>1. \A n \in Nat \ {0} : n # 1 => n > 1
      OBVIOUS
    <3> QED BY <2>2, <3>1, Zenon
  <2>4. top.type \in Types
    BY <2>1, <2>2
  <2> QED BY <2>2, <2>3, <2>4
<1>2. Fields(top) \in Seq(Component)
  BY <1>1, SchemaAssumption DEF Fields, Declaration
<1>3. \A i \in 1..Len(Fields(top)) : Fields(top)[i].type \in Types
  <2> TAKE i \in 1..Len(Fields(top))
  <2>1. Fields(top)[i] \in Component
    BY <1>2
  <2> QED BY <2>1 DEF Component
<1> QED BY <1>1, <1>3 DEF Frame

\* The handler's own bookkeeping does not move a decoder.
LEMMA Bookkeeping ==
    ASSUME DecoderInv
    PROVE  /\ \A i \in Nat \ {0} : FramesOK(SetTop([top EXCEPT !.field = i]), Len(input))
           /\ FramesOK(SetTop(top), Len(input))
           /\ FramesOK(SetTop([top EXCEPT !.field = @ + 1]), Len(input))
           /\ FramesOK(SetTop([top EXCEPT !.seen = @ \cup {top.field},
                                          !.twice = @ \/ top.field \in top.seen]), Len(input))
<1>1. top \in Frame /\ top.pos <= top.end /\ top.pos \in Nat
  BY TopFacts
<1>2. \A i \in Nat \ {0} : Advances(top, [top EXCEPT !.field = i])
  BY <1>1 DEF Advances, Frame
<1>3. Advances(top, top)
  BY <1>1 DEF Advances
<1>4. Advances(top, [top EXCEPT !.field = @ + 1])
  BY <1>1 DEF Advances, Frame
<1>5. Advances(top, [top EXCEPT !.seen = @ \cup {top.field},
                                !.twice = @ \/ top.field \in top.seen])
  <2>1. top.seen \cup {top.field} \in SUBSET Nat
    BY <1>1 DEF Frame
  <2>2. (top.twice \/ top.field \in top.seen) \in BOOLEAN
    OBVIOUS
  <2>3. \A S \in SUBSET Nat, b \in BOOLEAN :
           Advances(top, [top EXCEPT !.seen = S, !.twice = b])
    <3> TAKE S \in SUBSET Nat, b \in BOOLEAN
    <3> DEFINE f == [top EXCEPT !.seen = S]
    <3>1. Advances(top, f)
      BY <1>1 DEF Advances, Frame
    <3> HIDE DEF f
    <3>2. Advances(top, [f EXCEPT !.twice = b])
      BY <1>1, <3>1 DEF Advances, Frame
    <3> QED BY <3>2 DEF f
  <2> QED BY <2>1, <2>2, <2>3
<1> QED BY <1>2, <1>3, <1>4, <1>5, SetTopOK

LEMMA EndSetOK ==
    ASSUME DecoderInv, Len(stack) > 1, EndSet
    PROVE  /\ FramesOK(stack', Len(input))
           /\ pc' = "return" /\ goal' = goal /\ res' \in {"ok", "err"}
<1>1. CASE SetComplete(top)
  BY <1>1, LeaveOK DEF EndSet
<1>2. CASE ~SetComplete(top)
  BY <1>2, PropagateOK DEF EndSet, Propagate, Return
<1> QED BY <1>1, <1>2

LEMMA SequenceStep ==
    ASSUME DecoderInv, SequenceEnd \/ SequenceField \/ SequenceOptional
    PROVE  DecoderInv'
<1>1. goal \in Types /\ res \in {"ok", "err", "depth"} /\ FramesOK(stack, Len(input))
  BY DEF DecoderInv, TypeOK
<1>2. Kind(top) = "sequence" /\ UNCHANGED <<input, root, der>>
  BY DEF SequenceEnd, SequenceField, SequenceOptional, InSequence
<1>3. /\ Len(stack) > 1 /\ top.field \in Nat \ {0}
      /\ \A i \in 1..Len(Fields(top)) : Fields(top)[i].type \in Types
  BY <1>2, Nested
<1>4. CASE SequenceEnd
  BY <1>1, <1>2, <1>3, <1>4, LeaveOK, Assemble DEF SequenceEnd
<1>5. CASE SequenceField
  <2>1. top.field \in 1..Len(Fields(top))
    BY <1>3, <1>5 DEF SequenceField, InSequence
  <2>2. pc' = "decode" /\ goal' \in Types /\ res' = res /\ stack' = stack
    BY <1>3, <1>5, <2>1 DEF SequenceField, Decode
  <2> QED BY <1>1, <1>2, <2>2, Assemble
<1>6. CASE SequenceOptional
  <2>1. top.field \in 1..Len(Fields(top))
    BY <1>3, <1>6 DEF SequenceOptional, InSequence
  <2>2. CASE /\ stack' = SetTop([top EXCEPT !.field = @ + 1])
             /\ UNCHANGED <<pc, goal, res>>
    <3>1. pc \in {"decode", "step", "return", "done"}
      BY DEF DecoderInv, TypeOK
    <3> QED BY <1>1, <1>2, <2>2, <3>1, Bookkeeping, Assemble
  <2>3. CASE Propagate("err")
    BY <1>1, <1>2, <1>3, <2>3, PropagateOK, Assemble DEF Propagate, Return
  <2>4. CASE Decode(Fields(top)[top.field].type) /\ stack' = stack
    BY <1>1, <1>2, <1>3, <2>1, <2>4, Assemble DEF Decode
  <2> QED BY <1>6, <2>2, <2>3, <2>4 DEF SequenceOptional
<1> QED BY <1>4, <1>5, <1>6

LEMMA CollectionStep ==
    ASSUME DecoderInv, CollectionElement \/ ExplicitContent
    PROVE  DecoderInv'
<1>1. goal \in Types /\ res \in {"ok", "err", "depth"} /\ FramesOK(stack, Len(input))
  BY DEF DecoderInv, TypeOK
<1>2. Kind(top) \in {"sequenceOf", "setOf", "explicit"} /\ UNCHANGED <<input, root, der>>
  BY DEF CollectionElement, ExplicitContent
<1>3. Len(stack) > 1 /\ top.type \in Types
  BY <1>2, Nested
<1>4. Schema[top.type].elem \in Types
  <2>1. Kind(top) = Schema[top.type].kind
    BY <1>2 DEF Kind
  <2> QED BY <1>2, <1>3, <2>1, SchemaAssumption
<1>5. CASE LeaveConstructed
  BY <1>1, <1>2, <1>3, <1>5, LeaveOK, Assemble
<1>6. CASE Decode(Schema[top.type].elem) /\ stack' = stack
  BY <1>1, <1>2, <1>4, <1>6, Assemble DEF Decode
<1> QED BY <1>5, <1>6 DEF CollectionElement, ExplicitContent

LEMMA SetStep ==
    ASSUME DecoderInv, SetElement
    PROVE  DecoderInv'
<1>1. goal \in Types /\ res \in {"ok", "err", "depth"}
  BY DEF DecoderInv, TypeOK
<1>2. Kind(top) = "set" /\ UNCHANGED <<input, root, der>>
  BY DEF SetElement
<1>3. /\ Len(stack) > 1
      /\ \A i \in 1..Len(Fields(top)) : Fields(top)[i].type \in Types
  BY <1>2, Nested
<1>4. CASE EndSet
  BY <1>1, <1>2, <1>3, <1>4, EndSetOK, Assemble
<1>5. CASE \E i \in 1..Len(Fields(top)) :
              stack' = SetTop([top EXCEPT !.field = i]) /\ Decode(Fields(top)[i].type)
  <2>1. PICK i \in 1..Len(Fields(top)) :
              stack' = SetTop([top EXCEPT !.field = i]) /\ Decode(Fields(top)[i].type)
    BY <1>5
  <2>2. i \in Nat \ {0}
    OBVIOUS
  <2>3. FramesOK(stack', Len(input))
    BY <2>1, <2>2, Bookkeeping
  <2> QED BY <1>1, <1>2, <1>3, <2>1, <2>3, Assemble DEF Decode
<1> QED BY <1>4, <1>5 DEF SetElement

LEMMA ReturnStep ==
    ASSUME DecoderInv, ReturnOk \/ ReturnErr
    PROVE  DecoderInv'
<1>1. /\ goal \in Types /\ res \in {"ok", "err", "depth"} /\ FramesOK(stack, Len(input))
      /\ UNCHANGED <<input, root, der>>
  BY DEF DecoderInv, TypeOK, ReturnOk, ReturnErr
<1>2. CASE pc' = "done" /\ UNCHANGED <<stack, goal, res>>
  BY <1>1, <1>2, Assemble
<1>3. ASSUME NEW f, Continue(f), FramesOK(SetTop(f), Len(input))
      PROVE  DecoderInv'
  BY <1>1, <1>3, Assemble DEF Continue
<1>4. CASE Kind(top) # "root" /\ (LeaveConstructed \/ EndSet \/ Propagate(res))
  <2>1. Len(stack) > 1
    BY <1>4, Nested
  <2>2. FramesOK(stack', Len(input)) /\ pc' = "return" /\ goal' = goal
        /\ res' \in {"ok", "err", "depth"}
    BY <1>1, <1>4, <2>1, LeaveOK, EndSetOK, PropagateOK DEF Propagate, Return
  <2> QED BY <1>1, <2>2, Assemble
<1>5. CASE \/ Continue(top)
           \/ Continue([top EXCEPT !.field = @ + 1])
           \/ Continue([top EXCEPT !.seen = @ \cup {top.field},
                                   !.twice = @ \/ top.field \in top.seen])
  BY <1>3, <1>5, Bookkeeping
<1>6. CASE ReturnOk
  BY <1>2, <1>4, <1>5, <1>6 DEF ReturnOk
<1>7. CASE ReturnErr
  <2>1. EndsCollection(top) => Kind(top) # "root"
    BY DEF EndsCollection
  <2> QED BY <1>2, <1>4, <1>5, <1>7, <2>1 DEF ReturnErr
<1> QED BY <1>6, <1>7
(***************************************************************************)
(* The theorems.                                                           *)
(***************************************************************************)
\* Every reachable state keeps the nested decoders in place.
THEOREM Invariance == Spec => []DecoderInv
<1>1. Init => DecoderInv
  <2> SUFFICES ASSUME Init PROVE DecoderInv
    OBVIOUS
  <2>1. input \in Seq(Token) /\ Len(input) \in Nat
    BY InputsAssumption DEF Init
  <2> DEFINE f == [type |-> NoType, pos |-> 0, end |-> Len(input), depth |-> MaxDepth,
                   streaming |-> FALSE, field |-> 1, seen |-> {}, twice |-> FALSE]
  <2>2. f \in Frame
    BY <2>1, DepthAssumption DEF Frame
  <2>3. stack = << f >>
    BY DEF Init
  <2>4. stack \in Seq(Frame) /\ stack # << >> /\ Len(stack) = 1 /\ stack[1] = f
    BY <2>2, <2>3
  <2>5. TypeOK
    BY <2>1, <2>4, SchemaAssumption DEF Init, TypeOK
  <2>6. FramesOK(stack, Len(input))
    BY <2>1, <2>4, DepthAssumption DEF FramesOK
  <2> QED BY <2>5, <2>6 DEF DecoderInv
<1>2. DecoderInv /\ [Next]_vars => DecoderInv'
  <2> SUFFICES ASSUME DecoderInv, [Next]_vars PROVE DecoderInv'
    OBVIOUS
  <2>1. CASE UNCHANGED vars
    BY <2>1 DEF vars, DecoderInv, TypeOK, FramesOK
  <2>2. CASE Finished
    BY <2>2 DEF Finished, vars, DecoderInv, TypeOK, FramesOK
  <2> QED BY <2>1, <2>2, PrimitiveStep, StringStep, EncodedStep, ChoiceStep, EnterStep, SequenceStep,
             CollectionStep, SetStep, ReturnStep DEF Next
<1> QED BY <1>1, <1>2, PTL DEF Spec

\* Every variable and every nested decoder keeps its type, for every schema,
\* input and depth limit: remaining_depth never underflows.
THEOREM TypeCorrect == Spec => []TypeOK
<1>1. DecoderInv => TypeOK
  BY DEF DecoderInv
<1> QED BY <1>1, Invariance, PTL

\* parse_constructed_contents keeps every nested decoder inside the slice of
\* the decoder it was created from.
THEOREM SlicesCorrect == Spec => []SlicesNested
<1>1. DecoderInv => SlicesNested
  BY DEF DecoderInv, FramesOK, SlicesNested
<1> QED BY <1>1, Invariance, PTL

\* No schema and no input nests more decoders than remaining_depth allows.
THEOREM NestingCorrect == Spec => []NestingBounded
<1>1. DecoderInv => NestingBounded
  BY TopFacts DEF NestingBounded, top
<1> QED BY <1>1, Invariance, PTL

-----------------------------------------------------------------------------
(***************************************************************************)
(* The decoder implements BoundedReader.  The refinement mapping is in     *)
(* BerDecoder: what the caller sees is the outermost frame and the number  *)
(* of frames.                                                              *)
(***************************************************************************)

\* The outermost decoder of r is that of s further on, and r has at most one
\* decoder more or less.
Forward(s, r) ==
    /\ s[1].pos <= r[1].pos
    /\ Len(r) \in {Len(s) - 1, Len(s), Len(s) + 1}

\* Frames have positions.
LEMMA Positions ==
    ASSUME DecoderInv
    PROVE  /\ stack \in Seq(Frame) /\ Len(stack) \in Nat \ {0}
           /\ \A i \in 1..Len(stack) : stack[i] \in Frame /\ stack[i].pos \in Nat
<1>1. stack \in Seq(Frame) /\ Len(stack) \in Nat \ {0}
  BY TopFacts
<1>2. \A i \in 1..Len(stack) : stack[i] \in Frame
  BY <1>1
<1> QED BY <1>1, <1>2 DEF Frame

\* Moving the innermost decoder forwards, and nesting another one in it
LEMMA TopForward ==
    ASSUME DecoderInv, NEW f, f.pos \in Nat, top.pos <= f.pos
    PROVE  /\ Forward(stack, SetTop(f))
           /\ \A g : Forward(stack, Append(SetTop(f), g))
<1>1. stack \in Seq(Frame) /\ Len(stack) \in Nat \ {0} /\ stack[1].pos \in Nat
  BY Positions
<1>2. /\ Len(SetTop(f)) = Len(stack)
      /\ SetTop(f)[1] = IF Len(stack) = 1 THEN f ELSE stack[1]
  BY <1>1 DEF SetTop
<1>3. stack[1].pos <= SetTop(f)[1].pos
  BY <1>1, <1>2 DEF top
<1>4. SetTop(f) \in Seq(Frame \cup {f})
  BY <1>1 DEF SetTop
<1>5. ASSUME NEW g
      PROVE  Len(Append(SetTop(f), g)) = Len(stack) + 1 /\ Append(SetTop(f), g)[1] = SetTop(f)[1]
  BY <1>1, <1>2, <1>4
<1> QED BY <1>1, <1>2, <1>3, <1>5 DEF Forward

\* Dropping the innermost decoder
LEMMA BelowForward ==
    ASSUME DecoderInv, Len(stack) > 1
    PROVE  Forward(stack, Below)
<1>1. stack \in Seq(Frame) /\ Len(stack) \in Nat \ {0} /\ stack[1].pos \in Nat
  BY Positions
<1>2. Len(Below) = Len(stack) - 1 /\ Below[1] = stack[1]
  BY <1>1, PopTop, TopFacts DEF DecoderInv, Below
<1> QED BY <1>1, <1>2 DEF Forward

\* Leaving a constructed value
LEMMA LeaveForward ==
    ASSUME DecoderInv, Len(stack) > 1, LeaveConstructed
    PROVE  Forward(stack, stack')
<1> DEFINE k == Len(stack) - 1
<1>1. /\ stack \in Seq(Frame) /\ k \in Nat \ {0} /\ Len(stack) = k + 1
      /\ stack[1].pos \in Nat /\ stack[k].pos \in Nat
  BY Positions
<1>2. /\ Below \in Seq(Frame) /\ Len(Below) = k
      /\ Below[1] = stack[1] /\ Below[k] = stack[k]
  BY <1>1, PopTop, TopFacts DEF DecoderInv, Below, FramesOK
<1>3. PICK f : Advances(stack[k], f) /\ stack' = [Below EXCEPT ![k] = f]
  BY LeaveAdvances
<1>4. stack[k].pos <= f.pos /\ f \in Frame
  BY <1>3 DEF Advances
<1> HIDE DEF k
<1>5. Len(stack') = k /\ stack'[1] = IF k = 1 THEN f ELSE stack[1]
  BY <1>1, <1>2, <1>3, <1>4
<1>6. stack[1].pos <= stack'[1].pos
  BY <1>1, <1>4, <1>5
<1> QED BY <1>1, <1>5, <1>6 DEF Forward

\* A step of a handler changes nothing that the caller sees of the innermost
\* decoder, or leaves it.
KeepsPlace == \E f : f.pos = top.pos /\ stack' = SetTop(f)
HandlerStep == \/ stack' = stack
               \/ KeepsPlace
               \/ Kind(top) # "root" /\ (LeaveConstructed \/ EndSet \/ stack' = Below)

LEMMA HandlerForward ==
    ASSUME DecoderInv, HandlerStep
    PROVE  Forward(stack, stack')
<1>1. /\ stack[1].pos \in Nat /\ Len(stack) \in Nat \ {0}
      /\ top.pos \in Nat
  <2>1. Len(stack) \in Nat \ {0} /\ top.pos \in Nat
    BY TopFacts
  <2>2. 1 \in 1..Len(stack)
    BY <2>1
  <2>3. stack[1].pos \in Nat
    BY <2>2, Positions
  <2> QED BY <2>1, <2>3
<1>2. CASE stack' = stack
  BY <1>1, <1>2 DEF Forward
<1>3. CASE KeepsPlace
  <2>1. PICK f : f.pos = top.pos /\ stack' = SetTop(f)
    BY <1>3 DEF KeepsPlace
  <2>2. f.pos \in Nat /\ top.pos <= f.pos
    BY <1>1, <2>1
  <2> QED BY <2>1, <2>2, TopForward
<1>4. CASE Kind(top) # "root" /\ (LeaveConstructed \/ EndSet \/ stack' = Below)
  <2>1. Len(stack) > 1
    BY <1>4, Nested
  <2>2. EndSet => LeaveConstructed \/ stack' = Below
    BY DEF EndSet, Propagate
  <2> QED BY <1>4, <2>1, <2>2, LeaveForward, BelowForward
<1> QED BY <1>2, <1>3, <1>4 DEF HandlerStep

\* The counters of a handler are not its place in the input.
LEMMA Counters ==
    ASSUME DecoderInv
    PROVE  /\ \A i : [top EXCEPT !.field = i].pos = top.pos
           /\ \A s, t : [top EXCEPT !.seen = s, !.twice = t].pos = top.pos
<1>1. top \in Frame
  BY TopFacts
<1> QED BY <1>1, Zenon DEF Frame

\* decode_bool, decode_octet_string, decode_any...: one value at most
LEMMA ValueForward ==
    ASSUME DecoderInv, DecodePrimitive \/ DecodeString \/ DecodeEncoded \/ DecodeChoice
    PROVE  Forward(stack, stack')
<1>1. top \in Frame /\ top.pos \in Nat /\ top.end \in Nat
  BY TopFacts
<1>2. ASSUME NEW q \in top.pos..top.end, stack' = SetTop([top EXCEPT !.pos = q])
      PROVE  Forward(stack, stack')
  <2>1. [top EXCEPT !.pos = q].pos = q /\ q \in Nat /\ top.pos <= q
    BY <1>1 DEF Frame
  <2> QED BY <1>2, <2>1, TopForward
<1>3. CASE stack' = stack
  BY <1>3, HandlerForward DEF HandlerStep
<1>4. CASE DecodePrimitive
  <2>1. CASE ParseValue(top, Schema[goal].tag)
    <3>1. AfterValue(top) \in top.pos..top.end
      BY <1>1, <2>1, ParseFacts
    <3> QED BY <1>2, <1>4, <2>1, <3>1 DEF DecodePrimitive
  <2> QED BY <1>3, <1>4, <2>1 DEF DecodePrimitive
<1>5. CASE DecodeString
  <2>1. \A q \in (top.pos + 1)..top.end : q \in top.pos..top.end
    BY <1>1
  <2> QED BY <1>2, <1>3, <1>5, <2>1, StringMoves
<1>6. CASE DecodeEncoded
  <2>1. \/ stack' = stack
        \/ \E q \in top.pos..top.end : stack' = SetTop([top EXCEPT !.pos = q])
    BY <1>6 DEF DecodeEncoded
  <2> QED BY <1>2, <1>3, <2>1
<1>7. CASE DecodeChoice
  BY <1>3, <1>7 DEF DecodeChoice
<1> QED BY <1>4, <1>5, <1>6, <1>7

\* parse_constructed_contents enters one value.
LEMMA EnterForward ==
    ASSUME DecoderInv, EnterConstructed
    PROVE  Forward(stack, stack')
<1> DEFINE outer == [top EXCEPT !.pos = AfterValue(top)]
<1>1. CASE stack' = stack
  BY <1>1, HandlerForward DEF HandlerStep
<1>2. CASE /\ ParseValue(top, Schema[goal].tag)
           /\ stack' = SetTop(outer) \/ \E g : stack' = Append(SetTop(outer), g)
  <2>1. top \in Frame /\ top.pos \in Nat /\ AfterValue(top) \in Nat /\ top.pos <= AfterValue(top)
    BY <1>2, ParseFacts, TopFacts
  <2>2. outer.pos = AfterValue(top)
    BY <2>1 DEF Frame
  <2> HIDE DEF outer
  <2> QED BY <1>2, <2>1, <2>2, TopForward
<1> QED BY <1>1, <1>2 DEF EnterConstructed

\* Every step moves the caller's decoder forwards.
LEMMA StepForward ==
    ASSUME DecoderInv, Next
    PROVE  Forward(stack, stack')
<1>1. CASE DecodePrimitive \/ DecodeString \/ DecodeEncoded \/ DecodeChoice
  BY <1>1, ValueForward
<1>2. CASE EnterConstructed
  BY <1>2, EnterForward
<1>3. ASSUME NEW f, f.pos = top.pos, stack' = SetTop(f) PROVE HandlerStep
  BY <1>3 DEF HandlerStep, KeepsPlace
<1>4. CASE SequenceEnd \/ SequenceField
  <2>1. HandlerStep
    BY <1>4 DEF SequenceEnd, SequenceField, HandlerStep
  <2> QED BY <2>1, HandlerForward
<1>5. CASE SequenceOptional
  <2>1. \/ stack' = SetTop([top EXCEPT !.field = @ + 1])
        \/ stack' = Below /\ Kind(top) # "root"
        \/ stack' = stack
    BY <1>5, Zenon DEF SequenceOptional, InSequence, Propagate
  <2>2. HandlerStep
    BY <1>3, <2>1, Counters DEF HandlerStep
  <2> QED BY <2>2, HandlerForward
<1>6. CASE CollectionElement \/ ExplicitContent
  <2>1. HandlerStep
    BY <1>6 DEF CollectionElement, ExplicitContent, HandlerStep
  <2> QED BY <2>1, HandlerForward
<1>7. CASE SetElement
  <2>1. \/ EndSet /\ Kind(top) # "root"
        \/ \E i : stack' = SetTop([top EXCEPT !.field = i])
    BY <1>7, Zenon DEF SetElement
  <2>2. HandlerStep
    BY <1>3, <2>1, Counters DEF HandlerStep
  <2> QED BY <2>2, HandlerForward
<1>8. CASE ReturnOk
  <2>1. CASE stack' = stack
    BY <2>1, HandlerForward DEF HandlerStep
  <2>2. CASE Continue(top)
    BY <1>3, <2>2, HandlerForward DEF Continue
  <2>3. CASE Continue([top EXCEPT !.field = @ + 1])
    BY <1>3, <2>3, Counters, HandlerForward DEF Continue
  <2>4. CASE Continue([top EXCEPT !.seen = @ \cup {top.field},
                                  !.twice = @ \/ top.field \in top.seen])
    BY <1>3, <2>4, Counters, HandlerForward DEF Continue
  <2>5. CASE Kind(top) = "explicit" /\ LeaveConstructed
    BY <2>5, HandlerForward DEF HandlerStep
  <2> QED BY <1>8, <2>1, <2>2, <2>3, <2>4, <2>5 DEF ReturnOk
<1>9. CASE ReturnErr
  <2>1. EndsCollection(top) => Kind(top) # "root"
    BY DEF EndsCollection
  <2>2. CASE Continue([top EXCEPT !.field = @ + 1])
    BY <1>3, <2>2, Counters, HandlerForward DEF Continue
  <2>3. CASE stack' = stack \/ (Kind(top) # "root" /\ (LeaveConstructed \/ EndSet \/ Propagate(res)))
    BY <2>3, HandlerForward DEF HandlerStep, Propagate
  <2> QED BY <1>9, <2>1, <2>2, <2>3 DEF ReturnErr
<1>10. CASE Finished
  BY <1>10, HandlerForward DEF Finished, vars, HandlerStep
<1> QED BY <1>1, <1>2, <1>4, <1>5, <1>6, <1>7, <1>8, <1>9, <1>10 DEF Next

\* decode returns once, when no value is open, and nothing happens afterwards.
LEMMA ReportsOnce ==
    ASSUME DecoderInv, Next
    PROVE  /\ pc = "done" => UNCHANGED vars
           /\ pc' = "done" /\ pc # "done" => Len(stack) = 1 /\ UNCHANGED <<stack, res>>
<1>1. pc = "done" => Finished
  BY DEF Next, DecodePrimitive, DecodeString, DecodeEncoded, DecodeChoice, EnterConstructed,
         SequenceEnd, SequenceField, SequenceOptional, InSequence, CollectionElement,
         ExplicitContent, SetElement, ReturnOk, ReturnErr
<1>2. ASSUME pc' = "done", pc # "done"
      PROVE  Kind(top) = "root" /\ UNCHANGED <<stack, res>>
  <2>1. ~LeaveConstructed /\ \A e : ~Return(e) /\ ~Decode(e) /\ ~Propagate(e) /\ ~Continue(e)
    BY <1>2, Zenon DEF LeaveConstructed, Return, Decode, Propagate, Continue
  <2>2. ReturnOk \/ ReturnErr
    BY <1>2, <2>1 DEF Next, DecodePrimitive, DecodeString, DecodeEncoded, DecodeChoice,
        EnterConstructed, SequenceEnd, SequenceField, SequenceOptional, CollectionElement,
        ExplicitContent, SetElement, EndSet, Finished, vars
  <2> QED BY <2>1, <2>2 DEF ReturnOk, ReturnErr, EndSet
<1>3. Kind(top) = "root" => Len(stack) = 1
  <2>1. top.type \in Types => Kind(top) # "root"
    BY SchemaAssumption DEF Kind, Declaration, TypeKind
  <2> QED BY <2>1, TopFacts
<1> QED BY <1>1, <1>2, <1>3 DEF Finished

\* What BoundedReader tells of a state of the decoder
LEMMA Bounds ==
    ASSUME DecoderInv
    PROVE  /\ Len(input) \in Nat /\ Len(stack) - 1 \in 0..MaxDepth
           /\ stack[1].pos \in 0..Len(input)
           /\ res \in Reader!Outcomes
<1>1. /\ Len(stack) \in Nat \ {0} /\ Len(input) \in Nat /\ top.depth \in Nat
      /\ Len(stack) + top.depth <= MaxDepth + 1
  BY TopFacts
<1>2. 1 \in 1..Len(stack)
  BY <1>1
<1>3. /\ stack[1] \in Frame /\ stack[1].pos \in Nat
      /\ stack[1].pos <= stack[1].end /\ stack[1].end <= Len(input)
  BY <1>2, Positions DEF DecoderInv, FramesOK
<1>4. stack[1].end \in Nat
  BY <1>3 DEF Frame
<1> QED BY <1>1, <1>3, <1>4, DepthAssumption DEF DecoderInv, TypeOK, Reader!Outcomes

\* The BER decoder implements BoundedReader: whatever the schema, the input and
\* the limit, the caller's input moves forwards only and never past its end,
\* values nest no deeper than the limit, and one outcome is reported.
THEOREM DecoderReadsForward == Spec => ReadsForward
<1> USE DEF Reader!reader
<1>1. Init => Reader!Init
  <2> SUFFICES ASSUME Init PROVE Reader!Init
    OBVIOUS
  <2>1. Len(input) \in Nat
    BY InputsAssumption DEF Init
  <2>2. Len(stack) = 1 /\ stack[1].pos = 0 /\ pc = "decode"
    BY DEF Init
  <2> QED BY <2>1, <2>2 DEF Reader!Init
<1>2. DecoderInv /\ DecoderInv' /\ [Next]_vars => [Reader!Next]_(Reader!reader)
  <2> SUFFICES ASSUME DecoderInv, DecoderInv', Next PROVE [Reader!Next]_(Reader!reader)
    BY DEF vars, Reader!reader
  <2>1. UNCHANGED input
    BY DEF Next, DecodePrimitive, DecodeString, DecodeEncoded, DecodeChoice, EnterConstructed,
           SequenceEnd, SequenceField, SequenceOptional, CollectionElement,
           ExplicitContent, SetElement, ReturnOk, ReturnErr, Finished, vars
  <2>2. CASE pc = "done"
    BY <2>2, ReportsOnce DEF vars, Reader!reader
  <2>3. CASE pc # "done" /\ pc' = "done"
    <3>1. Len(stack) = 1 /\ UNCHANGED <<stack, res>> /\ res \in Reader!Outcomes
      BY <2>3, ReportsOnce, Bounds
    <3> QED BY <2>1, <2>3, <3>1 DEF Reader!Next, Reader!Report
  <2>4. CASE pc # "done" /\ pc' # "done"
    <3>1. /\ Len(input) \in Nat /\ stack[1].pos \in 0..Len(input) /\ Len(stack) - 1 \in 0..MaxDepth
      BY Bounds
    <3>2. (Len(stack) - 1 \in 0..MaxDepth /\ stack[1].pos \in 0..Len(input))'
      BY Bounds, PTL
    <3>3. Forward(stack, stack')
      BY StepForward
    <3>4. stack'[1].pos \in stack[1].pos..Len(input)
      BY <2>1, <3>1, <3>2, <3>3 DEF Forward
    <3>5. Len(stack') - 1 \in {Len(stack) - 1 - 1, Len(stack) - 1, Len(stack) - 1 + 1}
      BY <3>1, <3>2, <3>3 DEF Forward
    <3> QED BY <2>1, <2>4, <3>2, <3>4, <3>5 DEF Reader!Next, Reader!Read
  <2> QED BY <2>2, <2>3, <2>4
<1> QED BY <1>1, <1>2, Invariance, PTL DEF Spec, ReadsForward, Reader!Spec

-----------------------------------------------------------------------------
(***************************************************************************)
(* What is accepted: the decoder against the rules by which X.690 forms an *)
(* encoding.  <<t, i, e, k, p>> in G.values says that an encoding of type  *)
(* t begins behind token i, in a slice that ends at e, with k levels left, *)
(* and ends at p; <<t, n, i, e, k, p>> in G.contents the same of what the  *)
(* contents of t still have, when the handler is at n.  The two are any    *)
(* sets that have what the rules lead to: what the theorems say of them    *)
(* they say of the smallest ones, which have nothing else.                 *)
(***************************************************************************)

Slice(i, e) == [pos |-> i, end |-> e]
Constructed == {"sequence", "set", "sequenceOf", "setOf", "explicit"}

\* G.types has the type asked for and the types it is made of.
Uses(G) ==
    /\ G.types \subseteq Types
    /\ root \in G.types
    /\ \A t \in G.types :
          /\ \A j \in 1..Len(Schema[t].fields) : Schema[t].fields[j].type \in G.types
          /\ \A j \in 1..Len(Schema[t].alts) : Schema[t].alts[j].type \in G.types
          /\ Schema[t].kind \in {"sequenceOf", "setOf", "explicit"} => Schema[t].elem \in G.types

\* The values that no nested decoder reads.  A string may come in parts.
PrimitiveEnds(t, i, e, p) ==
    LET d == Slice(i, e)
    IN  /\ Schema[t].kind = "primitive"
        /\ ParseValue(d, Schema[t].tag)
        /\ Peek(d).len # Indefinite /\ Peek(d).ok
        /\ p = AfterValue(d)
StringEnds(t, i, e, p) ==
    LET d == Slice(i, e)
    IN  /\ Schema[t].kind = "string"
        /\ ParseValue(d, Schema[t].tag)
        /\ Peek(d).ok
        /\ IF ~Peek(d).constructed THEN p = AfterValue(d)
           ELSE /\ ~der
                /\ IF Peek(d).len # Indefinite
                   THEN p = AfterValue(d) /\ p = StringParts(i + 1, p)
                   ELSE /\ p - 1 = StringParts(i + 1, e)
                        /\ p - 1 < e /\ input[(p - 1) + 1].kind = "eoc"
EncodedEnds(t, i, e, p) ==
    LET d == Slice(i, e)
    IN  /\ Schema[t].kind \in {"bits", "any"}
        /\ HasIdentifier(d) /\ HasContents(d)
        /\ AnyTag(t) \/ Peek(d).tag = Schema[t].tag
        /\ p = IF Schema[t].kind = "any" /\ Peek(d).len # Indefinite THEN AfterValue(d)
               ELSE Encoded(i, e, Schema[t].kind = "bits")

\* A value with contents: its header, where the handler begins, and where the value
\* ends if its contents end at p
Opens(t, i, e, k) ==
    LET d == Slice(i, e)
    IN  /\ Schema[t].kind \in Constructed
        /\ k # 0
        /\ ParseValue(d, Schema[t].tag)
        /\ Schema[t].kind = "explicit" \/ Peek(d).constructed
First(t) == IF Schema[t].kind = "set" THEN {} ELSE 1
Closes(streaming, e, p, q) ==
    IF streaming THEN p < e /\ input[p + 1].kind = "eoc" /\ q = p + 1
                 ELSE p = e /\ q = e
InnerEnd(i, e) == IF Peek(Slice(i, e)).len = Indefinite THEN e ELSE AfterValue(Slice(i, e))

ValueRules(G) ==
    \A t \in G.types, k \in Nat, e \in 0..Len(input) : \A i, p \in 0..e :
        /\ PrimitiveEnds(t, i, e, p) \/ StringEnds(t, i, e, p) \/ EncodedEnds(t, i, e, p)
              => <<t, i, e, k, p>> \in G.values
        /\ \A a \in 1..Len(Schema[t].alts) :
              /\ Schema[t].kind = "choice"
              /\ HasIdentifier(Slice(i, e))
              /\ Peek(Slice(i, e)).tag \in Schema[t].alts[a].tree
              /\ <<Schema[t].alts[a].type, i, e, k, p>> \in G.values
              => <<t, i, e, k, p>> \in G.values
        /\ \A q \in 0..e :
              /\ Opens(t, i, e, k)
              /\ <<t, First(t), i + 1, InnerEnd(i, e), InnerDepth(t, k), p>> \in G.contents
              /\ Closes(Peek(Slice(i, e)).len = Indefinite, InnerEnd(i, e), p, q)
              => <<t, i, e, k, q>> \in G.values

\* The components of a SEQUENCE in their order, those that are not required absent or not
SequenceRules(G) ==
    \A t \in {u \in G.types : Schema[u].kind = "sequence"}, n \in Nat \ {0},
       k \in Nat, e \in 0..Len(input) : \A i, p, q \in 0..e :
        LET fields == Schema[t].fields
        IN  /\ (\A j \in n..Len(fields) : fields[j].mode # "required")
                  => <<t, n, i, e, k, i>> \in G.contents
            /\ n <= Len(fields) /\ fields[n].mode # "required" /\ <<t, n + 1, i, e, k, p>> \in G.contents
                  => <<t, n, i, e, k, p>> \in G.contents
            /\ /\ n <= Len(fields)
               /\ <<fields[n].type, i, e, k, q>> \in G.values
               /\ <<t, n + 1, q, e, k, p>> \in G.contents
               => <<t, n, i, e, k, p>> \in G.contents

\* Those of a SET in any order, none twice
Complete(t, S) ==
    \A j \in 1..Len(Schema[t].fields) : Schema[t].fields[j].mode = "required" => j \in S
SetRules(G) ==
    \A t \in {u \in G.types : Schema[u].kind = "set"}, S \in SUBSET Nat,
       k \in Nat, e \in 0..Len(input) : \A i, p, q \in 0..e :
        /\ Complete(t, S) => <<t, S, i, e, k, i>> \in G.contents
        /\ \A j \in (1..Len(Schema[t].fields)) \ S :
              /\ <<Schema[t].fields[j].type, i, e, k, q>> \in G.values
              /\ <<t, S \cup {j}, q, e, k, p>> \in G.contents
              => <<t, S, i, e, k, p>> \in G.contents

\* Any number of elements, and the one value in an explicit tag
CollectionRules(G) ==
    \A t \in {u \in G.types : Schema[u].kind \in {"sequenceOf", "setOf"}},
       k \in Nat, e \in 0..Len(input) : \A i, p, q \in 0..e :
        /\ <<t, 1, i, e, k, i>> \in G.contents
        /\ <<Schema[t].elem, i, e, k, q>> \in G.values /\ <<t, 1, q, e, k, p>> \in G.contents
              => <<t, 1, i, e, k, p>> \in G.contents
ExplicitRules(G) ==
    \A t \in {u \in G.types : Schema[u].kind = "explicit"},
       k \in Nat, e \in 0..Len(input) : \A i, p \in 0..e :
        <<Schema[t].elem, i, e, k, p>> \in G.values => <<t, 1, i, e, k, p>> \in G.contents

Grammar(G) ==
    /\ ValueRules(G)
    /\ SequenceRules(G)
    /\ SetRules(G)
    /\ CollectionRules(G)
    /\ ExplicitRules(G)

\* Where a decoder at i is after a value that failed: where it was, or behind a value of
\* definite length, or anywhere in one of indefinite length
Failed(i, e, p) ==
    LET d == Slice(i, e)
    IN  \/ p = i
        \/ /\ HasIdentifier(d) /\ HasContents(d)
           /\ IF Peek(d).len = Indefinite THEN p \in i..e ELSE p = AfterValue(d)

\* What the code adds to the rules of X.690: a value that fails ends a collection or a
\* SET (de.rs:708, 737, 814), or is an OPTIONAL component with an explicit tag, absent
\* (de.rs:791), even if it has been consumed.
Swallows(G) ==
    \A t \in G.types, k \in Nat, e \in 0..Len(input) : \A i, p, q \in 0..e :
        /\ Schema[t].kind \in {"sequenceOf", "setOf"} /\ Failed(i, e, p)
              => <<t, 1, i, e, k, p>> \in G.contents
        /\ \A S \in SUBSET Nat :
              Schema[t].kind = "set" /\ Complete(t, S) /\ Failed(i, e, p)
                  => <<t, S, i, e, k, p>> \in G.contents
        /\ \A n \in 1..Len(Schema[t].fields) :
              /\ Schema[t].kind = "sequence"
              /\ Schema[t].fields[n].mode = "optionalExplicit"
              /\ Failed(i, e, q)
              /\ <<t, n + 1, q, e, k, p>> \in G.contents
              => <<t, n, i, e, k, p>> \in G.contents

\* The type that the handler of f asks for, where it is among its contents, and that it
\* is at one of its components when it asks
Wanted(f) ==
    CASE Kind(f) = "root" -> root
      [] Kind(f) \in {"sequence", "set"} -> Fields(f)[f.field].type
      [] OTHER -> Schema[f.type].elem
Progress(f) ==
    CASE Kind(f) = "set" -> f.seen
      [] Kind(f) = "sequence" -> f.field
      [] OTHER -> 1
Waits(f) == Kind(f) \in {"sequence", "set"} => f.field \in 1..Len(Fields(f))

\* Decoder f was created for the value that g asked for at a, and has come to b: what
\* contents can end there, the value that was asked for ends with.
Hangs(G, g, a, f, b) ==
    /\ f.type \in G.types
    /\ Waits(g)
    /\ HasIdentifier(Slice(a, g.end)) /\ HasContents(Slice(a, g.end))
    /\ f.streaming <=> Peek(Slice(a, g.end)).len = Indefinite
    /\ f.end = InnerEnd(a, g.end)
    /\ \A p, q \in 0..f.end :
          /\ Kind(f) = "set" => ~f.twice
          /\ <<f.type, Progress(f), b, f.end, f.depth, p>> \in G.contents
          /\ Closes(f.streaming, f.end, p, q)
          => <<Wanted(g), a, g.end, g.depth, q>> \in G.values

\* at[j]: where the handler of decoder j has come to, and asks from
Aligned(G, at, s) ==
    /\ at \in Seq(Nat) /\ Len(at) = Len(s)
    /\ at[1] = 0 /\ s[1].end = Len(input) /\ s[1].depth = MaxDepth
    /\ \A j \in 1..Len(s) : at[j] <= s[j].pos
    /\ \A j \in 2..Len(s) : Hangs(G, s[j-1], at[j-1], s[j], at[j])

\* The innermost decoder f asks for t at b, or has the result r of what it asked for.
Decoding(G, b, f, t) ==
    /\ t \in G.types /\ Waits(f) /\ b = f.pos
    /\ \A p \in 0..f.end : <<t, b, f.end, f.depth, p>> \in G.values
                              => <<Wanted(f), b, f.end, f.depth, p>> \in G.values
Returning(G, b, f, r) ==
    /\ Waits(f)
    /\ r = "ok" => <<Wanted(f), b, f.end, f.depth, f.pos>> \in G.values
    /\ r # "ok" => Failed(b, f.end, f.pos)
Stands(G, b, f, c, t, r) ==
    /\ c = "decode" => Decoding(G, b, f, t)
    /\ c = "step" => b = f.pos
    /\ c = "return" => Returning(G, b, f, r)
    /\ c = "done" => Kind(f) = "root" /\ Returning(G, b, f, r)

SoundAt(G, s, c, t, r) ==
    \E at \in Seq(Nat) : Aligned(G, at, s) /\ Stands(G, at[Len(s)], s[Len(s)], c, t, r)
Sound(G) == SoundAt(G, stack, pc, goal, res)

\* The rules read the input and know the rules of encoding: no step changes them.
LEMMA Carried ==
    ASSUME NEW G, UNCHANGED <<input, root, der>>, SoundAt(G, stack', pc', goal', res')
    PROVE  Sound(G)'
<1>1. PICK at \in Seq(Nat) : /\ Aligned(G, at, stack')
                            /\ Stands(G, at[Len(stack')], stack'[Len(stack')], pc', goal', res')
  BY DEF SoundAt
<1>2. Aligned(G, at, stack)'
  <2>1. (/\ at \in Seq(Nat) /\ Len(at) = Len(stack)
         /\ at[1] = 0 /\ stack[1].end = Len(input) /\ stack[1].depth = MaxDepth
         /\ \A j \in 1..Len(stack) : at[j] <= stack[j].pos)'
    BY <1>1 DEF Aligned
  <2>2. ASSUME NEW j \in 2..Len(stack') PROVE Hangs(G, stack[j-1], at[j-1], stack[j], at[j])'
    <3>1. Hangs(G, stack'[j-1], at[j-1], stack'[j], at[j])
      BY <1>1 DEF Aligned
    <3> QED BY <3>1 DEF Hangs, Wanted, Waits, Progress, Kind, Fields, Slice, HasIdentifier, HasContents, Peek,
                        AtEnd, AfterValue, InnerEnd, Closes
  <2> QED BY <2>1, <2>2 DEF Aligned
<1>3. Stands(G, at[Len(stack)], stack[Len(stack)], pc, goal, res)'
  <2>1. (pc = "decode" => Decoding(G, at[Len(stack)], stack[Len(stack)], goal))'
    BY <1>1 DEF Stands, Decoding, Wanted, Waits, Kind, Fields
  <2>2. (pc \in {"return", "done"} => Returning(G, at[Len(stack)], stack[Len(stack)], res))'
    BY <1>1 DEF Stands, Returning, Wanted, Waits, Kind, Fields, Failed, Slice, HasIdentifier, HasContents, Peek,
                AtEnd, AfterValue
  <2>3. (pc = "step" => at[Len(stack)] = stack[Len(stack)].pos)'
        /\ (pc = "done" => Kind(stack[Len(stack)]) = "root")'
    BY <1>1 DEF Stands, Kind
  <2> QED BY <2>1, <2>2, <2>3 DEF Stands
<1>4. (\E a \in Seq(Nat) : Aligned(G, a, stack) /\ Stands(G, a[Len(stack)], stack[Len(stack)], pc, goal, res))'
  BY <1>1, <1>2, <1>3
<1> QED BY <1>4 DEF Sound, SoundAt

\* A decoder and its slice look at the same tokens.
LEMMA SliceFacts ==
    ASSUME NEW f
    PROVE  LET d == Slice(f.pos, f.end)
           IN  /\ Peek(d) = Peek(f) /\ HasIdentifier(d) = HasIdentifier(f)
               /\ HasContents(d) = HasContents(f) /\ AfterValue(d) = AfterValue(f)
               /\ \A tag : ParseValue(d, tag) = ParseValue(f, tag)
BY DEF Slice, Peek, HasIdentifier, HasContents, AfterValue, ParseValue, AtEnd

Moved(f, p) == [f EXCEPT !.pos = p]

\* What a decoder waits for does not depend on its position.
LEMMA MovedFacts ==
    ASSUME NEW f \in Frame, NEW p \in Nat
    PROVE  /\ Moved(f, p) \in Frame /\ Moved(f, p).pos = p
           /\ Moved(f, p).type = f.type /\ Moved(f, p).end = f.end /\ Moved(f, p).depth = f.depth
           /\ Moved(f, p).streaming = f.streaming /\ Moved(f, p).field = f.field
           /\ Moved(f, p).seen = f.seen /\ Moved(f, p).twice = f.twice
           /\ Kind(Moved(f, p)) = Kind(f) /\ Wanted(Moved(f, p)) = Wanted(f)
           /\ Progress(Moved(f, p)) = Progress(f) /\ Waits(Moved(f, p)) = Waits(f)
<1> DEFINE h == Moved(f, p)
<1>1. /\ h \in Frame /\ h.pos = p
      /\ h.type = f.type /\ h.end = f.end /\ h.depth = f.depth
      /\ h.streaming = f.streaming /\ h.field = f.field
      /\ h.seen = f.seen /\ h.twice = f.twice
  BY DEF Moved, Frame
<1> HIDE DEF h
<1>2. /\ Kind(h) = Kind(f) /\ Fields(h) = Fields(f)
  BY <1>1 DEF Kind, Fields
<1>3. Wanted(h) = Wanted(f) /\ Progress(h) = Progress(f) /\ Waits(h) = Waits(f)
  BY <1>1, <1>2 DEF Wanted, Progress, Waits
<1> QED BY <1>1, <1>2, <1>3 DEF h

LEMMA HangsMoved ==
    ASSUME NEW G, NEW g \in Frame, NEW f \in Frame, NEW a, NEW b, NEW p \in Nat
    PROVE  /\ Hangs(G, g, a, f, b) => Hangs(G, g, a, Moved(f, p), b)
           /\ Hangs(G, g, a, f, b) => Hangs(G, Moved(g, p), a, f, b)
<1>1. Hangs(G, g, a, f, b) => Hangs(G, g, a, Moved(f, p), b)
  <2> DEFINE h == Moved(f, p)
  <2>1. /\ h.type = f.type /\ h.end = f.end /\ h.depth = f.depth
        /\ h.streaming = f.streaming /\ h.twice = f.twice
        /\ Kind(h) = Kind(f) /\ Progress(h) = Progress(f)
    BY MovedFacts
  <2> HIDE DEF h
  <2>2. Hangs(G, g, a, f, b) => Hangs(G, g, a, h, b)
    BY <2>1, Zenon DEF Hangs
  <2> QED BY <2>2 DEF h
<1>2. Hangs(G, g, a, f, b) => Hangs(G, Moved(g, p), a, f, b)
  BY MovedFacts DEF Hangs
<1> QED BY <1>1, <1>2

\* The decoders stay aligned when the innermost one moves,
LEMMA AlignedReplaced ==
    ASSUME NEW G, NEW s \in Seq(Frame), NEW at, s # << >>, Aligned(G, at, s),
           NEW f \in Frame, NEW b \in Nat, b <= f.pos,
           f.end = s[Len(s)].end, f.depth = s[Len(s)].depth,
           Len(s) = 1 => b = 0,
           Len(s) > 1 => Hangs(G, s[Len(s)-1], at[Len(s)-1], f, b)
    PROVE  Aligned(G, [at EXCEPT ![Len(s)] = b], [s EXCEPT ![Len(s)] = f])
<1> DEFINE n == Len(s)
           r == [s EXCEPT ![n] = f]
           new == [at EXCEPT ![n] = b]
<1>1. n \in Nat \ {0} /\ at \in Seq(Nat) /\ Len(at) = n
  BY DEF Aligned
<1>2. /\ r \in Seq(Frame) /\ Len(r) = n /\ new \in Seq(Nat) /\ Len(new) = n
      /\ \A j \in 1..n : r[j] = IF j = n THEN f ELSE s[j]
      /\ \A j \in 1..n : new[j] = IF j = n THEN b ELSE at[j]
  BY <1>1
<1> HIDE DEF r, new
<1>3. new[1] = 0 /\ r[1].end = Len(input) /\ r[1].depth = MaxDepth
  BY <1>1, <1>2 DEF Aligned
<1>4. ASSUME NEW j \in 1..n PROVE new[j] <= r[j].pos
  BY <1>1, <1>2 DEF Aligned
<1>5. ASSUME NEW j \in 2..n PROVE Hangs(G, r[j-1], new[j-1], r[j], new[j])
  <2>1. j \in 1..n /\ j - 1 \in 1..n /\ j - 1 # n
    BY <1>1
  <2>2. Hangs(G, s[j-1], at[j-1], s[j], at[j])
    BY DEF Aligned
  <2>3. r[j-1] = s[j-1] /\ new[j-1] = at[j-1]
    BY <1>2, <2>1
  <2>4. CASE j = n
    BY <1>1, <1>2, <2>1, <2>3, <2>4
  <2>5. CASE j # n
    BY <1>2, <2>1, <2>2, <2>3, <2>5
  <2> QED BY <2>4, <2>5
<1>6. Aligned(G, new, r)
  BY <1>2, <1>3, <1>4, <1>5 DEF Aligned
<1> QED BY <1>6 DEF new, r, n

\* when it is dropped,
Cut(at) == SubSeq(at, 1, Len(stack) - 1)
LEMMA AlignedDropped ==
    ASSUME NEW G, NEW at, stack \in Seq(Frame), Len(stack) > 1, Aligned(G, at, stack)
    PROVE  /\ Aligned(G, Cut(at), Below)
           /\ Below \in Seq(Frame) /\ Len(Below) = Len(stack) - 1
           /\ Cut(at) \in Seq(Nat) /\ Len(Cut(at)) = Len(stack) - 1
           /\ \A j \in 1..(Len(stack) - 1) : Below[j] = stack[j] /\ Cut(at)[j] = at[j]
<1> DEFINE n == Len(stack) - 1
           r == SubSeq(stack, 1, n)
           cut == SubSeq(at, 1, n)
<1>1. n \in Nat \ {0} /\ Len(stack) = n + 1 /\ at \in Seq(Nat) /\ Len(at) = n + 1
  BY DEF Aligned
<1> HIDE DEF n
<1>2. /\ \A j \in 1..n : stack[j] \in Frame /\ at[j] \in Nat
      /\ 1 \in Int /\ n \in Int /\ 1 <= n /\ n - 1 + 1 = n
  BY <1>1
<1>3. r \in Seq(Frame) /\ Len(r) = n /\ cut \in Seq(Nat) /\ Len(cut) = n
  BY <1>2, SubSeqProperties
<1>4. \A j \in 1..n : r[j] = stack[j] /\ cut[j] = at[j]
  BY <1>1
<1>5. r = Below /\ cut = Cut(at)
  BY DEF Below, Cut, n
<1> HIDE DEF r, cut
<1>6. cut[1] = 0 /\ r[1].end = Len(input) /\ r[1].depth = MaxDepth
  <2>1. 1 \in 1..n
    BY <1>1
  <2> QED BY <1>4, <2>1 DEF Aligned
<1>7. ASSUME NEW j \in 1..n PROVE cut[j] <= r[j].pos
  BY <1>1, <1>4 DEF Aligned
<1>8. ASSUME NEW j \in 2..n PROVE Hangs(G, r[j-1], cut[j-1], r[j], cut[j])
  <2>1. j \in 1..n /\ j - 1 \in 1..n /\ j \in 2..Len(stack)
    BY <1>1
  <2>2. Hangs(G, stack[j-1], at[j-1], stack[j], at[j])
    BY <2>1 DEF Aligned
  <2> QED BY <1>4, <2>1, <2>2
<1>9. Aligned(G, cut, r)
  BY <1>3, <1>6, <1>7, <1>8 DEF Aligned
<1> QED BY <1>3, <1>4, <1>5, <1>9 DEF n

\* and when one is created in it.
LEMMA AlignedOpened ==
    ASSUME NEW G, NEW s \in Seq(Frame), NEW at, s # << >>, Aligned(G, at, s),
           NEW f \in Frame, NEW b \in Nat, b <= f.pos,
           Hangs(G, s[Len(s)], at[Len(s)], f, b)
    PROVE  Aligned(G, Append(at, b), Append(s, f))
<1> DEFINE n == Len(s)
           r == Append(s, f)
           new == Append(at, b)
<1>1. n \in Nat \ {0} /\ at \in Seq(Nat) /\ Len(at) = n
  BY DEF Aligned
<1>2. /\ Len(r) = n + 1 /\ new \in Seq(Nat) /\ Len(new) = n + 1
      /\ \A j \in 1..n : r[j] = s[j] /\ new[j] = at[j]
      /\ r[n + 1] = f /\ new[n + 1] = b
  BY <1>1
<1> HIDE DEF r, new
<1>3. new[1] = 0 /\ r[1].end = Len(input) /\ r[1].depth = MaxDepth
  BY <1>1, <1>2 DEF Aligned
<1>4. ASSUME NEW j \in 1..(n + 1) PROVE new[j] <= r[j].pos
  <2>1. j = n + 1 \/ j \in 1..n
    BY <1>1
  <2> QED BY <1>1, <1>2, <2>1 DEF Aligned
<1>5. ASSUME NEW j \in 2..(n + 1) PROVE Hangs(G, r[j-1], new[j-1], r[j], new[j])
  <2>1. CASE j = n + 1
    <3>1. j - 1 = n /\ n \in 1..n
      BY <1>1, <2>1
    <3> QED BY <1>2, <2>1, <3>1
  <2>2. CASE j # n + 1
    <3>1. j \in 1..n /\ j - 1 \in 1..n /\ j \in 2..n
      BY <1>1, <2>2
    <3>2. Hangs(G, s[j-1], at[j-1], s[j], at[j])
      BY <3>1 DEF Aligned
    <3> QED BY <1>2, <3>1, <3>2
  <2> QED BY <2>1, <2>2
<1>6. Aligned(G, new, r)
  BY <1>2, <1>3, <1>4, <1>5 DEF Aligned
<1> QED BY <1>6 DEF new, r, n

\* The innermost decoder, and where its handler has come to
LEMMA InnermostFacts ==
    ASSUME DecoderInv, NEW G, NEW at, Aligned(G, at, stack)
    PROVE  /\ stack \in Seq(Frame) /\ stack # << >> /\ Len(stack) \in Nat \ {0}
           /\ at \in Seq(Nat) /\ Len(at) = Len(stack)
           /\ at[Len(stack)] \in Nat /\ at[Len(stack)] <= top.pos
           /\ Len(stack) = 1 => at[Len(stack)] = 0
           /\ Len(stack) > 1 => /\ Hangs(G, stack[Len(stack)-1], at[Len(stack)-1], top, at[Len(stack)])
                                /\ stack[Len(stack)-1] \in Frame /\ at[Len(stack)-1] \in Nat
                                /\ at[Len(stack)-1] <= stack[Len(stack)-1].pos
<1>1. stack \in Seq(Frame) /\ stack # << >> /\ Len(stack) \in Nat \ {0} /\ at \in Seq(Nat) /\ Len(at) = Len(stack)
  BY TopFacts DEF Aligned
<1>2. Len(stack) \in 1..Len(stack) /\ (Len(stack) > 1 => Len(stack) \in 2..Len(stack) /\ Len(stack) - 1 \in 1..Len(stack))
  BY <1>1
<1>3. at[Len(stack)] \in Nat /\ at[Len(stack)] <= top.pos /\ (Len(stack) = 1 => at[Len(stack)] = 0)
  <2>1. at[Len(stack)] \in Nat
    BY <1>1, <1>2
  <2>2. at[1] = 0 /\ \A j \in 1..Len(stack) : at[j] <= stack[j].pos
    BY DEF Aligned
  <2> QED BY <1>2, <2>1, <2>2 DEF top
<1>4. Len(stack) > 1 => /\ Hangs(G, stack[Len(stack)-1], at[Len(stack)-1], top, at[Len(stack)])
                        /\ stack[Len(stack)-1] \in Frame /\ at[Len(stack)-1] \in Nat
                        /\ at[Len(stack)-1] <= stack[Len(stack)-1].pos
  <2>1. Len(stack) > 1 => /\ Hangs(G, stack[Len(stack)-1], at[Len(stack)-1], stack[Len(stack)], at[Len(stack)])
                          /\ at[Len(stack)-1] <= stack[Len(stack)-1].pos
    BY <1>2 DEF Aligned
  <2>2. Len(stack) > 1 => stack[Len(stack)-1] \in Frame /\ at[Len(stack)-1] \in Nat
    BY <1>1, <1>2
  <2> QED BY <2>1, <2>2 DEF top
<1> QED BY <1>1, <1>3, <1>4

\* What decode_bool, decode_octet_string... return: the decoder has moved over the value,
\* or to where the value failed.
LEMMA ReadSound ==
    ASSUME DecoderInv, NEW G, NEW at, Aligned(G, at, stack), Decoding(G, at[Len(stack)], top, goal),
           NEW p \in top.pos..top.end, stack' = SetTop(Moved(top, p)), pc' = "return",
           res' = "ok" => <<goal, top.pos, top.end, top.depth, p>> \in G.values,
           res' # "ok" => Failed(top.pos, top.end, p)
    PROVE  SoundAt(G, stack', pc', goal', res')
<1> DEFINE n == Len(stack)
           f == Moved(top, p)
           new == [at EXCEPT ![n] = top.pos]
<1>1. /\ top \in Frame /\ top.pos \in Nat /\ top.end \in Nat /\ p \in Nat /\ top.pos <= p /\ p <= top.end
      /\ n \in Nat \ {0} /\ stack \in Seq(Frame) /\ at \in Seq(Nat) /\ Len(at) = n
  BY TopFacts, InnermostFacts
<1>2. at[n] = top.pos
  BY DEF Decoding
<1>3. /\ f \in Frame /\ f.pos = p /\ f.end = top.end /\ f.depth = top.depth
      /\ Wanted(f) = Wanted(top) /\ Waits(f) = Waits(top)
  BY <1>1, MovedFacts
<1>4. Aligned(G, new, SetTop(f))
  <2>1. n > 1 => Hangs(G, stack[n-1], at[n-1], f, top.pos)
    BY <1>1, <1>2, InnermostFacts, HangsMoved
  <2> HIDE DEF f
  <2>2. (n = 1 => top.pos = 0) /\ stack # << >>
    BY <1>2, InnermostFacts
  <2> QED BY <1>1, <1>3, <2>1, <2>2, AlignedReplaced DEF SetTop, top
<1> HIDE DEF f
<1>5. /\ Len(stack') = n /\ stack'[n] = f /\ new[n] = top.pos /\ new \in Seq(Nat)
  BY <1>1 DEF SetTop, f
<1>6. Returning(G, top.pos, f, res')
  <2>1. res' = "ok" => <<Wanted(top), top.pos, top.end, top.depth, p>> \in G.values
    BY <1>1, <1>2 DEF Decoding
  <2> QED BY <1>3, <2>1 DEF Returning, Decoding
<1>7. Stands(G, new[Len(stack')], stack'[Len(stack')], pc', goal', res')
  BY <1>5, <1>6 DEF Stands
<1>8. Aligned(G, new, stack')
  BY <1>4 DEF f
<1> HIDE DEF new
<1> QED BY <1>5, <1>7, <1>8 DEF SoundAt

\* What fails without having read anything stays where it is.
LEMMA UnreadSound ==
    ASSUME DecoderInv, NEW G, NEW at, Aligned(G, at, stack), Decoding(G, at[Len(stack)], top, goal),
           stack' = stack, pc' = "return", res' # "ok"
    PROVE  SoundAt(G, stack', pc', goal', res')
<1>1. at \in Seq(Nat)
  BY DEF Aligned
<1>2. Returning(G, at[Len(stack)], top, res')
  BY DEF Decoding, Returning, Failed
<1>3. Stands(G, at[Len(stack')], stack'[Len(stack')], pc', goal', res')
  BY <1>2 DEF Stands, top
<1> QED BY <1>1, <1>3 DEF SoundAt

\* A handler asks for the next value: at the place it has come to.
LEMMA AskSound ==
    ASSUME DecoderInv, NEW G, NEW at, Aligned(G, at, stack), at[Len(stack)] = top.pos,
           NEW f, f \in Frame, Waits(f), f.pos = top.pos, f.end = top.end, f.depth = top.depth,
           Len(stack) > 1 => Hangs(G, stack[Len(stack)-1], at[Len(stack)-1], f, top.pos),
           stack' = SetTop(f), pc' = "decode", goal' = Wanted(f), goal' \in G.types
    PROVE  SoundAt(G, stack', pc', goal', res')
<1> DEFINE n == Len(stack)
           new == [at EXCEPT ![n] = top.pos]
<1>1. /\ top.pos \in Nat /\ n \in Nat \ {0} /\ stack \in Seq(Frame) /\ stack # << >> /\ at \in Seq(Nat) /\ Len(at) = n
      /\ n = 1 => top.pos = 0
  BY TopFacts, InnermostFacts
<1>2. Aligned(G, new, stack')
  <2>1. f.end = stack[n].end /\ f.depth = stack[n].depth /\ top.pos <= f.pos
    BY <1>1 DEF top
  <2>2. n > 1 => Hangs(G, stack[n-1], at[n-1], f, top.pos)
    OBVIOUS
  <2>3. Aligned(G, new, [stack EXCEPT ![n] = f])
    BY <1>1, <2>1, <2>2, AlignedReplaced
  <2> QED BY <2>3 DEF SetTop
<1>3. Len(stack') = n /\ stack'[n] = f /\ new[n] = top.pos /\ new \in Seq(Nat)
  BY <1>1 DEF SetTop
<1>4. Decoding(G, top.pos, f, goal')
  BY DEF Decoding
<1>5. Stands(G, new[Len(stack')], stack'[Len(stack')], pc', goal', res')
  BY <1>3, <1>4 DEF Stands
<1> HIDE DEF new
<1> QED BY <1>2, <1>3, <1>5 DEF SoundAt

\* A handler goes on with f, which has come to its place.
LEMMA GoOnSound ==
    ASSUME DecoderInv, NEW G, NEW at, Aligned(G, at, stack),
           NEW f, f \in Frame, f.pos = top.pos, f.end = top.end, f.depth = top.depth,
           Len(stack) > 1, Hangs(G, stack[Len(stack)-1], at[Len(stack)-1], f, top.pos),
           stack' = SetTop(f), pc' = "step"
    PROVE  SoundAt(G, stack', pc', goal', res')
<1> DEFINE n == Len(stack)
           new == [at EXCEPT ![n] = top.pos]
<1>1. /\ top.pos \in Nat /\ n \in Nat \ {0} /\ stack \in Seq(Frame) /\ stack # << >> /\ at \in Seq(Nat) /\ Len(at) = n
      /\ n = 1 => top.pos = 0
  BY TopFacts, InnermostFacts
<1>2. Aligned(G, new, stack')
  <2>1. f.end = stack[n].end /\ f.depth = stack[n].depth /\ top.pos <= f.pos
    BY <1>1 DEF top
  <2>2. n > 1 => Hangs(G, stack[n-1], at[n-1], f, top.pos)
    OBVIOUS
  <2>3. Aligned(G, new, [stack EXCEPT ![n] = f])
    BY <1>1, <2>1, <2>2, AlignedReplaced
  <2> QED BY <2>3 DEF SetTop
<1>3. Len(stack') = n /\ stack'[n] = f /\ new[n] = top.pos /\ new \in Seq(Nat)
  BY <1>1 DEF SetTop
<1>4. Stands(G, new[Len(stack')], stack'[Len(stack')], pc', goal', res')
  BY <1>3 DEF Stands
<1> HIDE DEF new
<1> QED BY <1>2, <1>3, <1>4 DEF SoundAt

\* The decoder below, moved to p: the value it asked for ends there, or failed.
LEMMA BackSound ==
    ASSUME DecoderInv, NEW G, NEW at, Aligned(G, at, stack), Len(stack) > 1,
           NEW g, g = stack[Len(stack)-1], NEW a, a = at[Len(stack)-1],
           NEW p \in g.pos..g.end, stack' = [Below EXCEPT ![Len(stack)-1] = Moved(g, p)],
           pc' = "return",
           res' = "ok" => <<Wanted(g), a, g.end, g.depth, p>> \in G.values,
           res' # "ok" => Failed(a, g.end, p)
    PROVE  SoundAt(G, stack', pc', goal', res')
<1> DEFINE n == Len(stack) - 1
           f == Moved(g, p)
           cut == Cut(at)
           new == [cut EXCEPT ![n] = a]
<1>1. /\ n \in Nat \ {0} /\ Len(stack) = n + 1 /\ stack \in Seq(Frame)
      /\ g \in Frame /\ a \in Nat /\ a <= g.pos /\ Hangs(G, g, a, top, at[Len(stack)])
  BY InnermostFacts
<1>2. g.pos \in Nat /\ g.end \in Nat /\ p \in Nat /\ g.pos <= p /\ p <= g.end
  <2>1. g.pos \in Nat /\ g.end \in Nat
    BY <1>1 DEF Frame
  <2> QED BY <2>1
<1>3. /\ Below \in Seq(Frame) /\ Len(Below) = n /\ cut \in Seq(Nat) /\ Len(cut) = n
      /\ Aligned(G, cut, Below)
      /\ \A j \in 1..n : Below[j] = stack[j] /\ cut[j] = at[j]
  <2> HIDE DEF cut
  <2> QED BY <1>1, AlignedDropped DEF cut
<1>4. f \in Frame /\ f.pos = p /\ f.end = g.end /\ f.depth = g.depth /\ Wanted(f) = Wanted(g) /\ Waits(f) = Waits(g)
  <2>1. g \in Frame /\ p \in Nat
    BY <1>1, <1>2
  <2> QED BY <2>1, MovedFacts
<1>5. n \in 1..n /\ Below[n] = g /\ cut[n] = a
  <2>1. n \in 1..n
    BY <1>1
  <2> HIDE DEF cut
  <2> QED BY <1>3, <2>1
<1>6. n = 1 => a = 0
  <2>1. cut[1] = 0
    BY <1>3 DEF Aligned
  <2> HIDE DEF cut, n
  <2> QED BY <1>5, <2>1
<1>7. n > 1 => Hangs(G, Below[n-1], cut[n-1], f, a)
  <2>1. n > 1 => n \in 2..n /\ n - 1 \in 1..n
    BY <1>1
  <2> HIDE DEF cut, n, f
  <2>2. n > 1 => Hangs(G, Below[n-1], cut[n-1], Below[n], cut[n]) /\ Below[n-1] \in Frame
    BY <1>3, <2>1 DEF Aligned
  <2> QED BY <1>1, <1>2, <1>5, <2>2, HangsMoved DEF f
<1> HIDE DEF f, cut, n
<1>8. Aligned(G, new, stack')
  <2>1. Below # << >> /\ a <= f.pos /\ f.end = Below[n].end /\ f.depth = Below[n].depth
    BY <1>1, <1>2, <1>3, <1>4, <1>5
  <2>2. f \in Frame /\ Below \in Seq(Frame) /\ Len(Below) = n /\ Aligned(G, cut, Below) /\ a \in Nat
    BY <1>1, <1>3, <1>4
  <2>3. Aligned(G, new, [Below EXCEPT ![n] = f])
    BY <1>6, <1>7, <2>1, <2>2, AlignedReplaced
  <2> QED BY <2>3 DEF f, n
<1>9. Len(stack') = n /\ stack'[n] = f /\ new[n] = a /\ new \in Seq(Nat)
  <2>1. stack' = [Below EXCEPT ![n] = f]
    BY DEF f, n
  <2> QED BY <1>1, <1>3, <2>1
<1>10. Returning(G, a, f, res')
  BY <1>1, <1>4 DEF Returning, Hangs
<1>11. Stands(G, new[Len(stack')], stack'[Len(stack')], pc', goal', res')
  BY <1>9, <1>10 DEF Stands
<1> HIDE DEF new
<1> QED BY <1>8, <1>9, <1>11 DEF SoundAt

\* Where the decoder below is: behind the value, or in it
LEMMA OuterFacts ==
    ASSUME DecoderInv, NEW G, NEW at, Aligned(G, at, stack), Len(stack) > 1,
           NEW g, g = stack[Len(stack)-1], NEW a, a = at[Len(stack)-1]
    PROVE  /\ g \in Frame /\ g.pos \in Nat /\ g.end \in Nat /\ g.pos <= g.end /\ g.end <= Len(input)
           /\ a \in Nat /\ a <= g.pos /\ Failed(a, g.end, g.pos)
           /\ top.streaming => top.end = g.end /\ g.pos <= top.pos /\ Failed(a, g.end, top.pos)
           /\ ~top.streaming => top.end = g.pos
           /\ Hangs(G, g, a, top, at[Len(stack)])
           /\ Below[Len(stack)-1] = g /\ [Below EXCEPT ![Len(stack)-1] = Moved(g, g.pos)] = Below
<1> DEFINE n == Len(stack) - 1
<1>1. /\ n \in Nat \ {0} /\ Len(stack) = n + 1 /\ stack \in Seq(Frame)
      /\ g \in Frame /\ a \in Nat /\ a <= g.pos /\ Hangs(G, g, a, top, at[Len(stack)])
  BY InnermostFacts
<1>2. n \in 1..Len(stack) /\ Len(stack) \in 2..Len(stack)
  BY <1>1
<1>3. /\ g.pos \in Nat /\ g.end \in Nat /\ g.pos <= g.end /\ g.end <= Len(input)
      /\ IF top.streaming THEN top.end = g.end /\ g.pos <= top.pos ELSE top.end = g.pos
  BY <1>1, <1>2 DEF DecoderInv, FramesOK, top, Frame
<1>4. top.pos \in Nat /\ top.pos <= top.end /\ top.streaming \in BOOLEAN
  BY TopFacts DEF Frame
<1>5. top.streaming => Failed(a, g.end, g.pos) /\ Failed(a, g.end, top.pos)
  BY <1>1, <1>3, <1>4 DEF Hangs, Failed
<1>6. ~top.streaming => Failed(a, g.end, g.pos)
  BY <1>1, <1>3, <1>4 DEF Hangs, Failed, InnerEnd
<1>7. Below \in Seq(Frame) /\ Len(Below) = n /\ Below[n] = g
  BY <1>1, <1>2, PopTop, TopFacts DEF DecoderInv, Below, FramesOK
<1>8. Moved(g, g.pos) = g
  BY <1>1 DEF Moved, Frame
<1>9. [Below EXCEPT ![n] = Moved(g, g.pos)] = Below
  BY <1>1, <1>7, <1>8
<1> QED BY <1>1, <1>3, <1>4, <1>5, <1>6, <1>7, <1>9

\* An error drops the decoder.
LEMMA PropagateSound ==
    ASSUME DecoderInv, NEW G, NEW at, Aligned(G, at, stack), Len(stack) > 1,
           NEW e, e # "ok", Propagate(e)
    PROVE  SoundAt(G, stack', pc', goal', res')
<1> DEFINE g == stack[Len(stack)-1]
           a == at[Len(stack)-1]
<1>1. /\ g.pos \in g.pos..g.end /\ Failed(a, g.end, g.pos)
      /\ [Below EXCEPT ![Len(stack)-1] = Moved(g, g.pos)] = Below
  BY OuterFacts
<1>2. stack' = Below /\ pc' = "return" /\ res' # "ok"
  BY DEF Propagate, Return
<1> HIDE DEF g, a
<1> QED BY <1>1, <1>2, BackSound DEF g, a

\* parse_constructed_contents returns the value if its contents end here.
LEMMA LeaveSound ==
    ASSUME DecoderInv, NEW G, NEW at, Aligned(G, at, stack), Len(stack) > 1, LeaveConstructed,
           Kind(top) = "set" => ~top.twice,
           <<top.type, Progress(top), at[Len(stack)], top.end, top.depth, top.pos>> \in G.contents
    PROVE  SoundAt(G, stack', pc', goal', res')
<1> DEFINE n == Len(stack) - 1
           g == stack[n]
           a == at[n]
<1>1. /\ g \in Frame /\ g.pos \in Nat /\ g.end \in Nat /\ g.pos <= g.end /\ a \in Nat
      /\ Failed(a, g.end, g.pos) /\ Hangs(G, g, a, top, at[Len(stack)])
      /\ top.streaming => top.end = g.end /\ g.pos <= top.pos /\ Failed(a, g.end, top.pos)
      /\ ~top.streaming => top.end = g.pos
      /\ [Below EXCEPT ![n] = Moved(g, g.pos)] = Below
      /\ Below[n] = g
  BY OuterFacts
<1>2. top.pos \in Nat /\ top.end \in Nat /\ top.pos <= top.end /\ top.streaming \in BOOLEAN /\ n \in Nat \ {0}
  <2>1. top \in Frame /\ top.pos \in Nat /\ top.end \in Nat /\ top.pos <= top.end
    BY TopFacts
  <2>2. top.streaming \in BOOLEAN
    BY <2>1 DEF Frame
  <2>3. n \in Nat \ {0}
    BY InnermostFacts
  <2> QED BY <2>1, <2>2, <2>3
<1>3. \A q \in 0..top.end : Closes(top.streaming, top.end, top.pos, q) => <<Wanted(g), a, g.end, g.depth, q>> \in G.values
  <2>1. top.pos \in 0..top.end /\ Hangs(G, g, a, top, at[Len(stack)])
    BY <1>1, <1>2
  <2> HIDE DEF g, a
  <2> QED BY <2>1, Zenon DEF Hangs
<1>4. \A p : [g EXCEPT !.pos = p] = Moved(g, p)
  BY DEF Moved
<1>5. CASE top.streaming /\ AtEoc(Moved(g, top.pos))
  <2>1. Moved(g, top.pos).pos = top.pos /\ Moved(g, top.pos).end = g.end
    BY <1>1, <1>2, MovedFacts
  <2>2. top.pos # g.end /\ input[top.pos + 1].kind = "eoc"
    BY <1>5, <2>1 DEF AtEoc, AtEnd, Peek
  <2>3. top.pos + 1 \in 0..top.end /\ top.pos + 1 \in g.pos..g.end
    <3>1. top.end = g.end /\ g.pos <= top.pos /\ g.pos \in Nat /\ top.pos # g.end
      BY <1>1, <1>5, <2>2
    <3> HIDE DEF g
    <3> QED BY <1>2, <3>1
  <2>4. <<Wanted(g), a, g.end, g.depth, top.pos + 1>> \in G.values
    BY <1>1, <1>2, <1>3, <1>5, <2>2, <2>3 DEF Closes
  <2>5. stack' = [Below EXCEPT ![n] = Moved(g, top.pos + 1)] /\ pc' = "return" /\ res' = "ok"
    BY <1>4, <1>5 DEF LeaveConstructed, Return
  <2> HIDE DEF g, a, n
  <2> QED BY <2>3, <2>4, <2>5, BackSound DEF g, a, n
<1>6. CASE top.streaming /\ ~AtEoc(Moved(g, top.pos))
  <2>1. stack' = [Below EXCEPT ![n] = Moved(g, top.pos)] /\ pc' = "return" /\ res' = "err"
    BY <1>4, <1>6 DEF LeaveConstructed, Return
  <2>2. top.pos \in g.pos..g.end /\ Failed(a, g.end, top.pos)
    BY <1>1, <1>2, <1>6
  <2> HIDE DEF g, a, n
  <2> QED BY <2>1, <2>2, BackSound DEF g, a, n
<1>7. CASE ~top.streaming
  <2>1. /\ stack' = [Below EXCEPT ![n] = g] /\ pc' = "return"
        /\ res' = IF AtEnd(top) THEN "ok" ELSE "err"
    BY <1>7 DEF LeaveConstructed, Return
  <2>2. stack' = [Below EXCEPT ![n] = Moved(g, g.pos)] /\ g.pos \in g.pos..g.end
    <3>1. Moved(g, g.pos) = g
      BY <1>1 DEF Moved, Frame
    <3> HIDE DEF g
    <3> QED BY <1>1, <2>1, <3>1
  <2>3. AtEnd(top) => <<Wanted(g), a, g.end, g.depth, g.pos>> \in G.values
    BY <1>1, <1>2, <1>3, <1>7 DEF Closes, AtEnd
  <2> HIDE DEF g, a, n
  <2> QED BY <1>1, <2>1, <2>2, <2>3, BackSound DEF g, a, n
<1> QED BY <1>5, <1>6, <1>7

\* The rules, for the value that is read at the innermost decoder
LEMMA ValueAt ==
    ASSUME DecoderInv, NEW G, ValueRules(G), goal \in G.types, NEW p \in 0..top.end,
           \/ PrimitiveEnds(goal, top.pos, top.end, p)
           \/ StringEnds(goal, top.pos, top.end, p)
           \/ EncodedEnds(goal, top.pos, top.end, p)
    PROVE  <<goal, top.pos, top.end, top.depth, p>> \in G.values
<1>1. top.pos \in 0..top.end /\ top.end \in 0..Len(input) /\ top.depth \in Nat
  BY TopFacts
<1> QED BY <1>1, Zenon DEF ValueRules

\* and for where it leaves the decoder if it fails.
LEMMA FailedAt ==
    ASSUME DecoderInv, NEW tag, ParseValue(top, tag)
    PROVE  /\ Failed(top.pos, top.end, AfterValue(top))
           /\ AfterValue(top) \in top.pos..top.end
           /\ Peek(top).len = Indefinite => \A p \in top.pos..top.end : Failed(top.pos, top.end, p)
<1>1. /\ top.pos \in Nat /\ top.end \in Nat /\ AfterValue(top) \in top.pos..top.end
      /\ HasIdentifier(top) /\ HasContents(top)
  BY TopFacts, ParseFacts DEF ParseValue
<1> QED BY <1>1, SliceFacts DEF Failed

\* One lemma per action: what was in accord with the rules still is.
LEMMA PrimitiveSound ==
    ASSUME DecoderInv, NEW G, Grammar(G), NEW at, Aligned(G, at, stack),
           Stands(G, at[Len(stack)], top, pc, goal, res), DecodePrimitive
    PROVE  SoundAt(G, stack', pc', goal', res')
<1>1. Decoding(G, at[Len(stack)], top, goal) /\ goal \in G.types
  BY DEF Stands, DecodePrimitive, Decoding
<1>2. CASE ~ParseValue(top, Schema[goal].tag)
  <2>1. stack' = stack /\ pc' = "return" /\ res' # "ok"
    BY <1>2 DEF DecodePrimitive, Return
  <2> QED BY <1>1, <2>1, UnreadSound
<1>3. CASE ParseValue(top, Schema[goal].tag)
  <2> DEFINE p == AfterValue(top)
  <2>1. p \in top.pos..top.end /\ p \in 0..top.end /\ Failed(top.pos, top.end, p)
    BY <1>3, FailedAt, TopFacts
  <2>2. /\ stack' = SetTop(Moved(top, p)) /\ pc' = "return"
        /\ res' = IF Peek(top).len # Indefinite /\ Peek(top).ok THEN "ok" ELSE "err"
    BY <1>3 DEF DecodePrimitive, Return, Moved
  <2>3. ASSUME res' = "ok" PROVE PrimitiveEnds(goal, top.pos, top.end, p)
    BY <1>3, <2>2, <2>3, SliceFacts DEF PrimitiveEnds, DecodePrimitive
  <2> HIDE DEF p
  <2>4. res' = "ok" => <<goal, top.pos, top.end, top.depth, p>> \in G.values
    BY <1>1, <2>1, <2>3, ValueAt DEF Grammar
  <2> QED BY <1>1, <2>1, <2>2, <2>4, ReadSound
<1> QED BY <1>2, <1>3

LEMMA StringSound ==
    ASSUME DecoderInv, NEW G, Grammar(G), NEW at, Aligned(G, at, stack),
           Stands(G, at[Len(stack)], top, pc, goal, res), DecodeString
    PROVE  SoundAt(G, stack', pc', goal', res')
<1>1. Decoding(G, at[Len(stack)], top, goal) /\ goal \in G.types /\ Schema[goal].kind = "string"
  BY DEF Stands, DecodeString, Decoding
<1>2. CASE ~ParseValue(top, Schema[goal].tag)
  <2>1. stack' = stack /\ pc' = "return" /\ res' # "ok"
    BY <1>2 DEF DecodeString, Return
  <2> QED BY <1>1, <2>1, UnreadSound
<1>3. ASSUME NEW p \in top.pos..top.end, Failed(top.pos, top.end, p),
             stack' = SetTop(Moved(top, p)), pc' = "return",
             res' = "ok" => StringEnds(goal, top.pos, top.end, p)
      PROVE  SoundAt(G, stack', pc', goal', res')
  <2>1. p \in 0..top.end
    BY TopFacts
  <2>2. res' = "ok" => <<goal, top.pos, top.end, top.depth, p>> \in G.values
    BY <1>1, <1>3, <2>1, ValueAt DEF Grammar
  <2> QED BY <1>1, <1>3, <2>2, ReadSound
<1>4. ASSUME ParseValue(top, Schema[goal].tag)
      PROVE  /\ AfterValue(top) \in top.pos..top.end /\ Failed(top.pos, top.end, AfterValue(top))
             /\ AfterValue(top) \in Nat /\ top.pos \in Nat /\ top.end \in Nat
             /\ Peek(top).len = Indefinite => \A p \in top.pos..top.end : Failed(top.pos, top.end, p)
             /\ Peek(Slice(top.pos, top.end)) = Peek(top)
             /\ AfterValue(Slice(top.pos, top.end)) = AfterValue(top)
             /\ ParseValue(Slice(top.pos, top.end), Schema[goal].tag)
  BY <1>4, FailedAt, ParseFacts, TopFacts, SliceFacts
<1>5. CASE ParseValue(top, Schema[goal].tag) /\ (~Peek(top).constructed \/ der)
  <2>1. /\ stack' = SetTop(Moved(top, AfterValue(top))) /\ pc' = "return"
        /\ res' = IF Peek(top).constructed \/ ~Peek(top).ok THEN "err" ELSE "ok"
    BY <1>5 DEF DecodeString, Return, Moved
  <2>2. res' = "ok" => StringEnds(goal, top.pos, top.end, AfterValue(top))
    BY <1>1, <1>4, <1>5, <2>1 DEF StringEnds
  <2> QED BY <1>3, <1>4, <1>5, <2>1, <2>2
<1>6. CASE ParseValue(top, Schema[goal].tag) /\ Peek(top).constructed /\ ~der
  <2> DEFINE indefinite == Peek(top).len = Indefinite
             end == IF indefinite THEN top.end ELSE AfterValue(top)
             closed(r) == indefinite /\ r < end /\ input[r + 1].kind = "eoc"
             q(r) == IF ~indefinite THEN end ELSE IF closed(r) THEN r + 1 ELSE r
  <2>1. PICK r \in (top.pos + 1)..end :
               /\ r = StringParts(top.pos + 1, end)
               /\ stack' = SetTop(Moved(top, q(r))) /\ pc' = "return"
               /\ res' = IF (IF indefinite THEN closed(r) ELSE r = end) /\ Peek(top).ok THEN "ok" ELSE "err"
    BY <1>6 DEF DecodeString, Return, Moved
  <2>2. q(r) \in top.pos..top.end /\ Failed(top.pos, top.end, q(r))
    BY <1>4, <1>6, <2>1
  <2>3. CASE indefinite
    <3>1. res' = "ok" => /\ Peek(top).ok /\ r < top.end /\ input[r + 1].kind = "eoc" /\ q(r) = r + 1
                         /\ r = StringParts(top.pos + 1, top.end)
      BY <2>1, <2>3
    <3>2. r + 1 - 1 = r
      BY <1>4, <1>6, <2>1
    <3>3. ASSUME res' = "ok" PROVE StringEnds(goal, top.pos, top.end, r + 1)
      BY <1>1, <1>4, <1>6, <2>3, <3>1, <3>2, <3>3 DEF StringEnds
    <3> HIDE DEF q
    <3> QED BY <1>3, <2>1, <2>2, <3>1, <3>3
  <2>4. CASE ~indefinite
    <3>1. /\ q(r) = AfterValue(top)
          /\ res' = "ok" => Peek(top).ok /\ r = AfterValue(top) /\ r = StringParts(top.pos + 1, AfterValue(top))
      BY <2>1, <2>4
    <3>2. ASSUME res' = "ok" PROVE StringEnds(goal, top.pos, top.end, AfterValue(top))
      BY <1>1, <1>4, <1>6, <2>4, <3>1, <3>2 DEF StringEnds
    <3> HIDE DEF q
    <3> QED BY <1>3, <2>1, <2>2, <3>1, <3>2
  <2> QED BY <2>3, <2>4
<1> QED BY <1>2, <1>5, <1>6

LEMMA EncodedSound ==
    ASSUME DecoderInv, NEW G, Grammar(G), NEW at, Aligned(G, at, stack),
           Stands(G, at[Len(stack)], top, pc, goal, res), DecodeEncoded
    PROVE  SoundAt(G, stack', pc', goal', res')
<1>1. Decoding(G, at[Len(stack)], top, goal) /\ goal \in G.types /\ Schema[goal].kind \in {"bits", "any"}
  BY DEF Stands, DecodeEncoded, Decoding
<1> DEFINE strict == Schema[goal].kind = "bits"
           parses == /\ HasIdentifier(top)
                     /\ HasContents(top)
                     /\ AnyTag(goal) \/ Peek(top).tag = Schema[goal].tag
           behind == IF ~parses THEN -1
                     ELSE IF ~strict /\ Peek(top).len # Indefinite THEN AfterValue(top)
                     ELSE Encoded(top.pos, top.end, strict)
<1>2. CASE behind \in top.pos..top.end
  <2>1. stack' = SetTop(Moved(top, behind)) /\ pc' = "return" /\ res' = "ok"
    BY <1>2 DEF DecodeEncoded, Return, Moved
  <2>2. top.pos \in Nat /\ top.end \in Nat
    BY TopFacts
  <2>3. parses
    BY <1>2, <2>2
  <2>4. EncodedEnds(goal, top.pos, top.end, behind)
    BY <1>1, <2>3, SliceFacts DEF EncodedEnds
  <2> HIDE DEF behind
  <2>5. behind \in 0..top.end
    BY <1>2, <2>2
  <2>6. <<goal, top.pos, top.end, top.depth, behind>> \in G.values
    BY <1>1, <2>4, <2>5, ValueAt DEF Grammar
  <2> QED BY <1>1, <1>2, <2>1, <2>6, ReadSound
<1>3. CASE behind \notin top.pos..top.end
  <2>1. stack' = stack /\ pc' = "return" /\ res' # "ok"
    BY <1>3 DEF DecodeEncoded, Return
  <2> QED BY <1>1, <2>1, UnreadSound
<1> QED BY <1>2, <1>3

LEMMA ChoiceSound ==
    ASSUME DecoderInv, NEW G, Uses(G), Grammar(G), NEW at, Aligned(G, at, stack),
           Stands(G, at[Len(stack)], top, pc, goal, res), DecodeChoice
    PROVE  SoundAt(G, stack', pc', goal', res')
<1>1. /\ Decoding(G, at[Len(stack)], top, goal) /\ goal \in G.types /\ Schema[goal].kind = "choice"
      /\ stack' = stack
  BY DEF Stands, DecodeChoice, Decoding
<1> DEFINE alts == Schema[goal].alts
           chosen == {i \in 1..Len(alts) : HasIdentifier(top) /\ Peek(top).tag \in alts[i].tree}
<1>2. CASE chosen = {}
  <2>1. pc' = "return" /\ res' # "ok"
    BY <1>2 DEF DecodeChoice, Return
  <2> QED BY <1>1, <2>1, UnreadSound
<1>3. CASE chosen # {}
  <2>1. PICK i \in chosen : Decode(alts[i].type)
    BY <1>3 DEF DecodeChoice
  <2>2. pc' = "decode" /\ goal' = alts[i].type /\ goal' \in G.types
    BY <1>1, <2>1 DEF Decode, Uses
  <2>3. top.pos \in 0..top.end /\ top.end \in 0..Len(input) /\ top.depth \in Nat
    BY TopFacts
  <2>4. HasIdentifier(Slice(top.pos, top.end)) /\ Peek(Slice(top.pos, top.end)).tag \in alts[i].tree
    BY <2>1, SliceFacts
  <2>5. ASSUME NEW p \in 0..top.end, <<goal', top.pos, top.end, top.depth, p>> \in G.values
        PROVE  <<goal, top.pos, top.end, top.depth, p>> \in G.values
    BY <1>1, <2>1, <2>2, <2>3, <2>4, <2>5 DEF Grammar, ValueRules
  <2>6. Decoding(G, at[Len(stack)], top, goal')
    BY <1>1, <2>2, <2>5 DEF Decoding
  <2>7. Stands(G, at[Len(stack')], stack'[Len(stack')], pc', goal', res')
    BY <1>1, <2>2, <2>6 DEF Stands, top
  <2>8. at \in Seq(Nat)
    BY DEF Aligned
  <2> QED BY <1>1, <2>7, <2>8 DEF SoundAt
<1> QED BY <1>2, <1>3

\* The decoder of the contents hangs from the one that reads the header.
LEMMA OpenedHangs ==
    ASSUME DecoderInv, NEW G, ValueRules(G), NEW b, Decoding(G, b, top, goal), goal \in Types,
           Schema[goal].kind \in Constructed, top.depth # 0, ParseValue(top, Schema[goal].tag),
           Schema[goal].kind = "explicit" \/ Peek(top).constructed,
           NEW f, f.type = goal, f.end = InnerEnd(top.pos, top.end), f.depth = InnerDepth(goal, top.depth),
           f.streaming <=> Peek(top).len = Indefinite, f.field = 1, f.seen = {}
    PROVE  Hangs(G, top, top.pos, f, top.pos + 1)
<1>1. /\ top.pos \in 0..top.end /\ top.end \in 0..Len(input) /\ top.depth \in Nat
      /\ AfterValue(top) \in Nat /\ AfterValue(top) <= top.end /\ top.end \in Nat
  BY TopFacts, ParseFacts
<1>2. Kind(f) = Schema[goal].kind /\ Progress(f) = First(goal)
  <2>1. goal # NoType
    BY SchemaAssumption
  <2>2. Kind(f) = Schema[goal].kind
    BY <2>1 DEF Kind
  <2> QED BY <2>2 DEF Progress, First
<1> DEFINE d == Slice(top.pos, top.end)
<1>3. /\ Peek(d) = Peek(top) /\ HasIdentifier(d) /\ HasContents(d) /\ AfterValue(d) = AfterValue(top)
      /\ Opens(goal, top.pos, top.end, top.depth)
  BY SliceFacts DEF ParseValue, Opens
<1>4. f.end \in 0..top.end
  BY <1>1, <1>3 DEF InnerEnd
<1>5. ASSUME NEW p \in 0..f.end, NEW q \in 0..f.end,
             <<goal, First(goal), top.pos + 1, f.end, f.depth, p>> \in G.contents,
             Closes(f.streaming, f.end, p, q)
      PROVE  <<Wanted(top), top.pos, top.end, top.depth, q>> \in G.values
  <2>1. p \in 0..top.end /\ q \in 0..top.end
    BY <1>1, <1>4
  <2>2. Closes(Peek(d).len = Indefinite, InnerEnd(top.pos, top.end), p, q)
    BY <1>3, <1>5 DEF Closes
  <2>3. goal \in G.types
    BY DEF Decoding
  <2>4. <<goal, First(goal), top.pos + 1, InnerEnd(top.pos, top.end), InnerDepth(goal, top.depth), p>> \in G.contents
    BY <1>5
  <2> HIDE DEF d
  <2>5. <<goal, top.pos, top.end, top.depth, q>> \in G.values
    BY <1>1, <1>3, <2>1, <2>2, <2>3, <2>4, Zenon DEF ValueRules, d
  <2> QED BY <2>1, <2>5 DEF Decoding
<1>6. f.type \in G.types /\ Waits(top)
  BY DEF Decoding
<1> QED BY <1>2, <1>3, <1>5, <1>6 DEF Hangs

LEMMA EnterSound ==
    ASSUME DecoderInv, NEW G, Grammar(G), NEW at, Aligned(G, at, stack),
           Stands(G, at[Len(stack)], top, pc, goal, res), EnterConstructed
    PROVE  SoundAt(G, stack', pc', goal', res')
<1> DEFINE n == Len(stack)
           outer == Moved(top, AfterValue(top))
           inner == [type |-> goal, pos |-> top.pos + 1,
                     end |-> IF Peek(top).len = Indefinite THEN top.end ELSE AfterValue(top),
                     depth |-> InnerDepth(goal, top.depth),
                     streaming |-> Peek(top).len = Indefinite,
                     field |-> 1, seen |-> {}, twice |-> FALSE]
<1>1. /\ Decoding(G, at[n], top, goal) /\ goal \in G.types /\ goal \in Types /\ Schema[goal].kind \in Constructed
      /\ at[n] = top.pos
  BY DEF Stands, EnterConstructed, Decoding, Constructed, DecoderInv, TypeOK
<1>2. CASE top.depth = 0 \/ ~ParseValue(top, Schema[goal].tag)
  <2>1. stack' = stack /\ pc' = "return" /\ res' # "ok"
    BY <1>2 DEF EnterConstructed, Return
  <2> QED BY <1>1, <2>1, UnreadSound
<1>3. CASE /\ top.depth # 0 /\ ParseValue(top, Schema[goal].tag)
           /\ Schema[goal].kind # "explicit" /\ ~Peek(top).constructed
  <2>1. stack' = SetTop(outer) /\ pc' = "return" /\ res' # "ok"
    BY <1>3 DEF EnterConstructed, Return, Moved
  <2>2. AfterValue(top) \in top.pos..top.end /\ Failed(top.pos, top.end, AfterValue(top))
    BY <1>3, FailedAt
  <2> QED BY <1>1, <2>1, <2>2, ReadSound
<1>4. CASE /\ top.depth # 0 /\ ParseValue(top, Schema[goal].tag)
           /\ Schema[goal].kind = "explicit" \/ Peek(top).constructed
  <2>1. stack' = Append(SetTop(outer), inner) /\ pc' = "step"
    BY <1>4 DEF EnterConstructed, Moved
  <2>2. /\ n \in Nat \ {0} /\ stack \in Seq(Frame) /\ stack # << >> /\ at \in Seq(Nat) /\ Len(at) = n
        /\ top \in Frame /\ top.pos \in Nat /\ top.end \in Nat /\ top.depth \in Nat
        /\ n = 1 => top.pos = 0
        /\ n > 1 => Hangs(G, stack[n-1], at[n-1], top, top.pos) /\ stack[n-1] \in Frame
    BY <1>1, InnermostFacts, TopFacts
  <2>3. AfterValue(top) \in Nat /\ top.pos <= AfterValue(top)
    BY <1>4, <2>2, ParseFacts
  <2>4. outer \in Frame /\ outer.pos = AfterValue(top) /\ outer.end = top.end /\ outer.depth = top.depth
    BY <2>2, <2>3, MovedFacts
  <2>5. inner \in Frame
    <3>1. goal \in Types \cup {NoType} /\ top.pos + 1 \in Nat
      BY <1>1, <2>2
    <3>2. (IF Peek(top).len = Indefinite THEN top.end ELSE AfterValue(top)) \in Nat
      BY <2>2, <2>3
    <3>3. (Peek(top).len = Indefinite) \in BOOLEAN
      OBVIOUS
    <3>4. InnerDepth(goal, top.depth) \in Nat
      BY <2>2 DEF InnerDepth
    <3> QED BY <3>1, <3>2, <3>3, <3>4, SMTT(30) DEF Frame
  <2>6. Hangs(G, top, top.pos, inner, top.pos + 1)
    <3>1. inner.end = InnerEnd(top.pos, top.end)
      BY SliceFacts DEF InnerEnd
    <3>2. /\ inner.type = goal /\ inner.depth = InnerDepth(goal, top.depth)
          /\ inner.streaming <=> Peek(top).len = Indefinite
          /\ inner.field = 1 /\ inner.seen = {}
      OBVIOUS
    <3> HIDE DEF inner
    <3> QED BY <1>1, <1>4, <3>1, <3>2, OpenedHangs DEF Grammar
  <2> DEFINE s == SetTop(outer)
             new == [at EXCEPT ![n] = top.pos]
  <2>7. inner.pos = top.pos + 1
    OBVIOUS
  <2> HIDE DEF inner
  <2>8. Hangs(G, outer, top.pos, inner, top.pos + 1)
    BY <2>2, <2>3, <2>5, <2>6, HangsMoved
  <2>9. n > 1 => Hangs(G, stack[n-1], at[n-1], outer, top.pos)
    BY <2>2, <2>3, HangsMoved
  <2> HIDE DEF outer
  <2>10. Aligned(G, new, s)
    <3>1. outer.end = stack[n].end /\ outer.depth = stack[n].depth /\ top.pos <= outer.pos
      BY <2>3, <2>4 DEF top
    <3>2. Aligned(G, new, [stack EXCEPT ![n] = outer])
      BY <2>2, <2>4, <2>9, <3>1, AlignedReplaced
    <3> QED BY <3>2 DEF SetTop
  <2>11. s \in Seq(Frame) /\ Len(s) = n /\ s # << >> /\ s[n] = outer /\ new \in Seq(Nat) /\ Len(new) = n /\ new[n] = top.pos
    BY <2>2, <2>4 DEF SetTop
  <2> HIDE DEF s, new
  <2>12. Aligned(G, Append(new, top.pos + 1), Append(s, inner))
    <3>1. top.pos + 1 \in Nat /\ top.pos + 1 <= inner.pos
      BY <2>2, <2>7
    <3> QED BY <2>5, <2>8, <2>10, <2>11, <3>1, AlignedOpened
  <2>13. /\ Append(new, top.pos + 1) \in Seq(Nat) /\ Len(stack') = n + 1
         /\ Append(new, top.pos + 1)[n + 1] = top.pos + 1 /\ stack'[n + 1] = inner
    BY <2>1, <2>2, <2>5, <2>11 DEF s
  <2>14. Stands(G, Append(new, top.pos + 1)[Len(stack')], stack'[Len(stack')], pc', goal', res')
    BY <2>1, <2>7, <2>13 DEF Stands
  <2>15. stack' = Append(s, inner)
    BY <2>1 DEF s
  <2> QED BY <2>12, <2>13, <2>14, <2>15 DEF SoundAt
<1> QED BY <1>2, <1>3, <1>4

\* The handler of a nested decoder, and the value it reads the contents of
LEMMA HandlerFacts ==
    ASSUME DecoderInv, NEW G, NEW at, Aligned(G, at, stack), Kind(top) # "root"
    PROVE  /\ Len(stack) > 1
           /\ Hangs(G, stack[Len(stack)-1], at[Len(stack)-1], top, at[Len(stack)])
           /\ top.type \in G.types /\ top.type \in Types
           /\ Kind(top) = Schema[top.type].kind /\ Fields(top) = Schema[top.type].fields
           /\ top \in Frame /\ top.field \in Nat \ {0} /\ top.seen \in SUBSET Nat
           /\ top.depth \in Nat /\ top.end \in 0..Len(input)
           /\ top.pos \in 0..top.end /\ at[Len(stack)] \in 0..top.end
<1>1. Len(stack) > 1 /\ top.type \in Types /\ top.field \in Nat \ {0}
  BY Nested
<1>2. Hangs(G, stack[Len(stack)-1], at[Len(stack)-1], top, at[Len(stack)])
  BY <1>1, InnermostFacts
<1>3. top.type \in G.types
  BY <1>2 DEF Hangs
<1>4. Kind(top) = Schema[top.type].kind /\ Fields(top) = Schema[top.type].fields
  BY <1>1, SchemaAssumption DEF Kind, Fields
<1>5. /\ top \in Frame /\ top.depth \in Nat /\ top.end \in 0..Len(input) /\ top.pos \in 0..top.end
      /\ top.pos \in Nat /\ top.end \in Nat
  BY TopFacts
<1>6. at[Len(stack)] \in Nat /\ at[Len(stack)] <= top.pos
  BY InnermostFacts
<1>7. at[Len(stack)] \in 0..top.end
  BY <1>5, <1>6
<1>8. top.seen \in SUBSET Nat
  BY <1>5 DEF Frame
<1> QED BY <1>1, <1>2, <1>3, <1>4, <1>5, <1>7, <1>8

\* f goes on where d was: it hangs from the same value if what f still reads completes
\* what d has read.
LEMMA HangsOn ==
    ASSUME NEW G, NEW g, NEW a, NEW d, NEW b, NEW f, NEW c, Hangs(G, g, a, d, b),
           f.type = d.type, f.end = d.end, f.depth = d.depth, f.streaming = d.streaming,
           ASSUME NEW p \in 0..d.end, Kind(f) = "set" => ~f.twice,
                  <<d.type, Progress(f), c, d.end, d.depth, p>> \in G.contents
           PROVE  /\ Kind(d) = "set" => ~d.twice
                  /\ <<d.type, Progress(d), b, d.end, d.depth, p>> \in G.contents
    PROVE  Hangs(G, g, a, f, c)
<1>1. ASSUME NEW p \in 0..d.end, NEW q \in 0..d.end, Kind(f) = "set" => ~f.twice,
             <<d.type, Progress(f), c, d.end, d.depth, p>> \in G.contents, Closes(d.streaming, d.end, p, q)
      PROVE  <<Wanted(g), a, g.end, g.depth, q>> \in G.values
  <2>1. /\ Kind(d) = "set" => ~d.twice
        /\ <<d.type, Progress(d), b, d.end, d.depth, p>> \in G.contents
    BY <1>1
  <2> QED BY <1>1, <2>1 DEF Hangs
<1> QED BY <1>1 DEF Hangs

\* The handler's own bookkeeping
Ticked(f) == [f EXCEPT !.field = @ + 1]
OnField(f, i) == [f EXCEPT !.field = i]
Seen(f) == [f EXCEPT !.seen = @ \cup {f.field}, !.twice = @ \/ f.field \in f.seen]

LEMMA BookkeepingFacts ==
    ASSUME NEW f \in Frame
    PROVE  /\ Ticked(f) \in Frame /\ Ticked(f).field = f.field + 1
           /\ Ticked(f).type = f.type /\ Ticked(f).pos = f.pos /\ Ticked(f).end = f.end
           /\ Ticked(f).depth = f.depth /\ Ticked(f).streaming = f.streaming
           /\ Ticked(f).seen = f.seen /\ Ticked(f).twice = f.twice
           /\ Kind(Ticked(f)) = Kind(f) /\ Fields(Ticked(f)) = Fields(f)
           /\ Seen(f) \in Frame /\ Seen(f).field = f.field
           /\ Seen(f).type = f.type /\ Seen(f).pos = f.pos /\ Seen(f).end = f.end
           /\ Seen(f).depth = f.depth /\ Seen(f).streaming = f.streaming
           /\ Seen(f).seen = f.seen \cup {f.field} /\ (Seen(f).twice <=> f.twice \/ f.field \in f.seen)
           /\ Kind(Seen(f)) = Kind(f) /\ Fields(Seen(f)) = Fields(f)
           /\ \A i \in Nat \ {0} :
                 /\ OnField(f, i) \in Frame /\ OnField(f, i).field = i
                 /\ OnField(f, i).type = f.type /\ OnField(f, i).pos = f.pos /\ OnField(f, i).end = f.end
                 /\ OnField(f, i).depth = f.depth /\ OnField(f, i).streaming = f.streaming
                 /\ OnField(f, i).seen = f.seen /\ OnField(f, i).twice = f.twice
                 /\ Kind(OnField(f, i)) = Kind(f) /\ Fields(OnField(f, i)) = Fields(f)
<1>1. f.field + 1 \in Nat \ {0} /\ f.seen \cup {f.field} \in SUBSET Nat /\ (f.twice \/ f.field \in f.seen) \in BOOLEAN
  BY DEF Frame
<1>2. \A i \in Nat \ {0} :
         /\ OnField(f, i) \in Frame /\ OnField(f, i).field = i
         /\ OnField(f, i).type = f.type /\ OnField(f, i).pos = f.pos /\ OnField(f, i).end = f.end
         /\ OnField(f, i).depth = f.depth /\ OnField(f, i).streaming = f.streaming
         /\ OnField(f, i).seen = f.seen /\ OnField(f, i).twice = f.twice
         /\ Kind(OnField(f, i)) = Kind(f) /\ Fields(OnField(f, i)) = Fields(f)
  BY DEF OnField, Frame, Kind, Fields
<1>3. Ticked(f) = OnField(f, f.field + 1)
  BY DEF Ticked, OnField
<1>4. /\ Seen(f) \in Frame /\ Seen(f).field = f.field
      /\ Seen(f).type = f.type /\ Seen(f).pos = f.pos /\ Seen(f).end = f.end
      /\ Seen(f).depth = f.depth /\ Seen(f).streaming = f.streaming
      /\ Seen(f).seen = f.seen \cup {f.field} /\ (Seen(f).twice <=> f.twice \/ f.field \in f.seen)
  <2> DEFINE S == f.seen \cup {f.field}
             t == f.twice \/ f.field \in f.seen
  <2>1. Seen(f) = [f EXCEPT !.seen = S, !.twice = t]
    BY DEF Seen
  <2>2. S \in SUBSET Nat /\ t \in BOOLEAN
    BY <1>1
  <2> HIDE DEF S, t
  <2> DEFINE h == [f EXCEPT !.seen = S]
  <2>3. /\ h \in Frame /\ h.field = f.field
        /\ h.type = f.type /\ h.pos = f.pos /\ h.end = f.end
        /\ h.depth = f.depth /\ h.streaming = f.streaming /\ h.seen = S
    BY <2>2 DEF Frame
  <2>4. Seen(f) = [h EXCEPT !.twice = t]
    BY <2>1
  <2> HIDE DEF h
  <2>5. /\ Seen(f) \in Frame /\ Seen(f).field = f.field
        /\ Seen(f).type = f.type /\ Seen(f).pos = f.pos /\ Seen(f).end = f.end
        /\ Seen(f).depth = f.depth /\ Seen(f).streaming = f.streaming
        /\ Seen(f).seen = S /\ Seen(f).twice = t
    BY <2>2, <2>3, <2>4 DEF Frame
  <2> QED BY <2>5 DEF S, t
<1>5. Kind(Seen(f)) = Kind(f) /\ Fields(Seen(f)) = Fields(f)
  BY <1>4 DEF Kind, Fields
<1> QED BY <1>1, <1>2, <1>3, <1>4, <1>5

\* The contents of a SEQUENCE may end where the handler is.
LEMMA SequenceEndSound ==
    ASSUME DecoderInv, NEW G, Grammar(G), NEW at, Aligned(G, at, stack),
           Stands(G, at[Len(stack)], top, pc, goal, res), SequenceEnd
    PROVE  SoundAt(G, stack', pc', goal', res')
<1>1. Kind(top) = "sequence" /\ Kind(top) # "root" /\ LeaveConstructed /\ at[Len(stack)] = top.pos
  BY DEF Stands, SequenceEnd
<1>2. /\ Len(stack) > 1 /\ top.type \in {u \in G.types : Schema[u].kind = "sequence"}
      /\ Fields(top) = Schema[top.type].fields /\ top.field \in Nat \ {0}
      /\ top.depth \in Nat /\ top.end \in 0..Len(input) /\ top.pos \in 0..top.end
  BY <1>1, HandlerFacts
<1>3. \A j \in top.field..Len(Schema[top.type].fields) : Schema[top.type].fields[j].mode # "required"
  <2>1. CASE SequenceIsDefault(top)
    BY <1>2, <2>1 DEF SequenceIsDefault
  <2>2. CASE top.field > Len(Fields(top))
    <3>1. Len(Fields(top)) \in Nat
      <4>1. Schema[top.type].fields \in Seq(Component)
        BY <1>1, Nested, SchemaAssumption DEF Declaration
      <4> QED BY <1>2, <4>1
    <3>2. top.field..Len(Schema[top.type].fields) = {}
      BY <1>2, <2>2, <3>1
    <3> QED BY <3>2
  <2> QED BY <2>1, <2>2 DEF SequenceEnd
<1>4. <<top.type, top.field, top.pos, top.end, top.depth, top.pos>> \in G.contents
  BY <1>2, <1>3, Zenon DEF Grammar, SequenceRules
<1>5. Progress(top) = top.field
  BY <1>1 DEF Progress
<1> QED BY <1>1, <1>2, <1>4, <1>5, LeaveSound

\* The component at which the handler of a SEQUENCE or SET is is one of the type's.
LEMMA ComponentFacts ==
    ASSUME DecoderInv, NEW G, Uses(G), NEW at, Aligned(G, at, stack), Kind(top) \in {"sequence", "set"},
           NEW n \in 1..Len(Fields(top))
    PROVE  /\ Fields(top)[n].type \in G.types
           /\ Len(Fields(top)) \in Nat
<1>1. top.type \in G.types /\ top.type \in Types /\ Fields(top) = Schema[top.type].fields
  BY HandlerFacts
<1>2. Schema[top.type].fields \in Seq(Component)
  BY <1>1, SchemaAssumption DEF Declaration
<1> QED BY <1>1, <1>2 DEF Uses

\* A handler that changes nothing asks for the next value.
LEMMA AskSame ==
    ASSUME DecoderInv, NEW G, NEW at, Aligned(G, at, stack), at[Len(stack)] = top.pos, Kind(top) # "root",
           Waits(top), Wanted(top) \in G.types, Decode(Wanted(top)), stack' = stack
    PROVE  SoundAt(G, stack', pc', goal', res')
<1>1. Len(stack) > 1 /\ Hangs(G, stack[Len(stack)-1], at[Len(stack)-1], top, top.pos) /\ top \in Frame
  BY HandlerFacts
<1>2. stack' = SetTop(top)
  BY TopFacts DEF SetTop, top
<1>3. pc' = "decode" /\ goal' = Wanted(top)
  BY DEF Decode
<1> QED BY <1>1, <1>2, <1>3, AskSound

LEMMA SequenceFieldSound ==
    ASSUME DecoderInv, NEW G, Uses(G), NEW at, Aligned(G, at, stack),
           Stands(G, at[Len(stack)], top, pc, goal, res), SequenceField
    PROVE  SoundAt(G, stack', pc', goal', res')
<1>1. /\ Kind(top) = "sequence" /\ Kind(top) # "root" /\ top.field <= Len(Fields(top)) /\ at[Len(stack)] = top.pos
      /\ Decode(Fields(top)[top.field].type) /\ stack' = stack
  BY DEF Stands, SequenceField, InSequence
<1>2. top.field \in 1..Len(Fields(top))
  BY <1>1, HandlerFacts
<1>3. Waits(top) /\ Wanted(top) = Fields(top)[top.field].type
  BY <1>1, <1>2 DEF Waits, Wanted
<1> QED BY <1>1, <1>2, <1>3, ComponentFacts, AskSame

\* A component that is not required is passed over.
LEMMA AbsentSound ==
    ASSUME DecoderInv, NEW G, Grammar(G), NEW at, Aligned(G, at, stack),
           Stands(G, at[Len(stack)], top, pc, goal, res), InSequence({"optional", "default"}),
           stack' = SetTop(Ticked(top)), UNCHANGED <<pc, goal, res>>
    PROVE  SoundAt(G, stack', pc', goal', res')
<1> DEFINE f == Ticked(top)
           g == stack[Len(stack)-1]
           a == at[Len(stack)-1]
<1>1. /\ Kind(top) = "sequence" /\ Kind(top) # "root" /\ top.field <= Len(Fields(top)) /\ pc = "step"
      /\ at[Len(stack)] = top.pos /\ Fields(top)[top.field].mode # "required"
  BY DEF Stands, InSequence
<1>2. /\ Len(stack) > 1 /\ Hangs(G, g, a, top, top.pos)
      /\ top.type \in {u \in G.types : Schema[u].kind = "sequence"} /\ Fields(top) = Schema[top.type].fields
      /\ top \in Frame /\ top.field \in Nat \ {0}
      /\ top.depth \in Nat /\ top.end \in 0..Len(input) /\ top.pos \in 0..top.end
  BY <1>1, HandlerFacts
<1>3. /\ f \in Frame /\ f.field = top.field + 1 /\ f.type = top.type /\ f.pos = top.pos /\ f.end = top.end
      /\ f.depth = top.depth /\ f.streaming = top.streaming /\ Kind(f) = "sequence"
  BY <1>1, <1>2, BookkeepingFacts
<1>4. Progress(top) = top.field /\ Progress(f) = top.field + 1
  BY <1>1, <1>3 DEF Progress
<1>5. ASSUME NEW p \in 0..top.end, <<top.type, top.field + 1, top.pos, top.end, top.depth, p>> \in G.contents
      PROVE  <<top.type, top.field, top.pos, top.end, top.depth, p>> \in G.contents
  BY <1>1, <1>2, <1>5 DEF Grammar, SequenceRules
<1> HIDE DEF f, g, a
<1>6. Hangs(G, g, a, f, top.pos)
  BY <1>1, <1>2, <1>3, <1>4, <1>5, HangsOn
<1>7. stack' = SetTop(f) /\ pc' = "step"
  BY <1>1 DEF f
<1> QED BY <1>2, <1>3, <1>6, <1>7, GoOnSound DEF g, a

LEMMA SequenceOptionalSound ==
    ASSUME DecoderInv, NEW G, Uses(G), Grammar(G), NEW at, Aligned(G, at, stack),
           Stands(G, at[Len(stack)], top, pc, goal, res), SequenceOptional
    PROVE  SoundAt(G, stack', pc', goal', res')
<1>1. /\ Kind(top) = "sequence" /\ Kind(top) # "root" /\ top.field <= Len(Fields(top)) /\ at[Len(stack)] = top.pos
      /\ InSequence({"optional", "default"})
  BY DEF Stands, SequenceOptional, InSequence
<1>2. top.field \in 1..Len(Fields(top)) /\ Len(stack) > 1
  BY <1>1, HandlerFacts
<1>3. CASE stack' = SetTop([top EXCEPT !.field = @ + 1]) /\ UNCHANGED <<pc, goal, res>>
  BY <1>1, <1>3, AbsentSound DEF Ticked
<1>4. CASE Propagate("err")
  BY <1>2, <1>4, PropagateSound
<1>5. CASE Decode(Fields(top)[top.field].type) /\ stack' = stack
  <2>1. Waits(top) /\ Wanted(top) = Fields(top)[top.field].type
    BY <1>1, <1>2 DEF Waits, Wanted
  <2> QED BY <1>1, <1>2, <1>5, <2>1, ComponentFacts, AskSame
<1> QED BY <1>3, <1>4, <1>5 DEF SequenceOptional

LEMMA CollectionElementSound ==
    ASSUME DecoderInv, NEW G, Uses(G), Grammar(G), NEW at, Aligned(G, at, stack),
           Stands(G, at[Len(stack)], top, pc, goal, res), CollectionElement \/ ExplicitContent
    PROVE  SoundAt(G, stack', pc', goal', res')
<1>1. Kind(top) \in {"sequenceOf", "setOf", "explicit"} /\ Kind(top) # "root" /\ at[Len(stack)] = top.pos
  BY DEF Stands, CollectionElement, ExplicitContent
<1>2. /\ Len(stack) > 1 /\ top.type \in G.types /\ Kind(top) = Schema[top.type].kind
      /\ top.depth \in Nat /\ top.end \in 0..Len(input) /\ top.pos \in 0..top.end
  BY <1>1, HandlerFacts
<1>3. CASE Kind(top) = "sequenceOf" /\ LeaveConstructed
  <2>1. <<top.type, 1, top.pos, top.end, top.depth, top.pos>> \in G.contents
    BY <1>2, <1>3 DEF Grammar, CollectionRules
  <2>2. Progress(top) = 1
    BY <1>3 DEF Progress
  <2> QED BY <1>1, <1>2, <1>3, <2>1, <2>2, LeaveSound
<1>4. CASE Decode(Schema[top.type].elem) /\ stack' = stack
  <2>1. Waits(top) /\ Wanted(top) = Schema[top.type].elem
    BY <1>1 DEF Waits, Wanted
  <2>2. Schema[top.type].elem \in G.types
    BY <1>1, <1>2 DEF Uses
  <2> QED BY <1>1, <1>4, <2>1, <2>2, AskSame
<1> QED BY <1>3, <1>4 DEF CollectionElement, ExplicitContent

\* A SET ends with its components complete and none of them twice, or fails.
LEMMA EndSetSound ==
    ASSUME DecoderInv, NEW G, NEW at, Aligned(G, at, stack), Kind(top) = "set", EndSet,
           Complete(top.type, top.seen) =>
              <<top.type, top.seen, at[Len(stack)], top.end, top.depth, top.pos>> \in G.contents
    PROVE  SoundAt(G, stack', pc', goal', res')
<1>1. Len(stack) > 1 /\ Fields(top) = Schema[top.type].fields
  BY HandlerFacts
<1>2. CASE SetComplete(top)
  <2>1. ~top.twice /\ Complete(top.type, top.seen)
    BY <1>1, <1>2 DEF SetComplete, Complete
  <2>2. Progress(top) = top.seen /\ LeaveConstructed
    BY <1>2 DEF Progress, EndSet
  <2> QED BY <1>1, <2>1, <2>2, LeaveSound
<1>3. CASE ~SetComplete(top)
  <2>1. Propagate("err")
    BY <1>3 DEF EndSet
  <2> QED BY <1>1, <2>1, PropagateSound
<1> QED BY <1>2, <1>3

LEMMA SetElementSound ==
    ASSUME DecoderInv, NEW G, Uses(G), Grammar(G), NEW at, Aligned(G, at, stack),
           Stands(G, at[Len(stack)], top, pc, goal, res), SetElement
    PROVE  SoundAt(G, stack', pc', goal', res')
<1> DEFINE g == stack[Len(stack)-1]
           a == at[Len(stack)-1]
<1>1. Kind(top) = "set" /\ Kind(top) # "root" /\ at[Len(stack)] = top.pos
  BY DEF Stands, SetElement
<1>2. /\ Len(stack) > 1 /\ Hangs(G, g, a, top, top.pos)
      /\ top.type \in {u \in G.types : Schema[u].kind = "set"} /\ Fields(top) = Schema[top.type].fields
      /\ top \in Frame /\ top.seen \in SUBSET Nat
      /\ top.depth \in Nat /\ top.end \in 0..Len(input) /\ top.pos \in 0..top.end
  BY <1>1, HandlerFacts
<1>3. CASE EndSet
  <2>1. Complete(top.type, top.seen) => <<top.type, top.seen, top.pos, top.end, top.depth, top.pos>> \in G.contents
    BY <1>2 DEF Grammar, SetRules
  <2> QED BY <1>1, <1>3, <2>1, EndSetSound
<1>4. CASE \E i \in 1..Len(Fields(top)) :
              stack' = SetTop([top EXCEPT !.field = i]) /\ Decode(Fields(top)[i].type)
  <2>1. PICK i \in 1..Len(Fields(top)) :
              stack' = SetTop([top EXCEPT !.field = i]) /\ Decode(Fields(top)[i].type)
    BY <1>4
  <2> DEFINE f == OnField(top, i)
  <2>2. i \in Nat \ {0}
    OBVIOUS
  <2>3. /\ f \in Frame /\ f.field = i /\ f.type = top.type /\ f.pos = top.pos /\ f.end = top.end
        /\ f.depth = top.depth /\ f.streaming = top.streaming /\ Kind(f) = "set"
        /\ f.seen = top.seen /\ f.twice = top.twice /\ Fields(f) = Fields(top)
    <3>1. top \in Frame
      BY <1>2
    <3> QED BY <1>1, <2>2, <3>1, BookkeepingFacts
  <2>4. /\ stack' = SetTop(f) /\ pc' = "decode" /\ goal' = Fields(top)[i].type
    BY <2>1 DEF Decode, OnField
  <2> HIDE DEF f
  <2>5. Waits(f) /\ Wanted(f) = Fields(top)[i].type
    BY <2>3 DEF Waits, Wanted
  <2>6. Progress(f) = Progress(top)
    BY <1>1, <2>3 DEF Progress
  <2> HIDE DEF g, a
  <2>7. Hangs(G, g, a, f, top.pos)
    BY <1>1, <1>2, <2>3, <2>6, HangsOn
  <2>8. goal' \in G.types
    BY <1>1, <2>4, ComponentFacts
  <2> QED BY <1>1, <1>2, <2>3, <2>4, <2>5, <2>7, <2>8, AskSound DEF g, a
<1> QED BY <1>3, <1>4 DEF SetElement

\* The handler goes on behind the value it asked for,
LEMMA ReturnOkSound ==
    ASSUME DecoderInv, NEW G, Grammar(G), NEW at, Aligned(G, at, stack),
           Stands(G, at[Len(stack)], top, pc, goal, res), ReturnOk
    PROVE  SoundAt(G, stack', pc', goal', res')
<1> DEFINE g == stack[Len(stack)-1]
           a == at[Len(stack)-1]
           b == at[Len(stack)]
<1>1. Waits(top) /\ <<Wanted(top), b, top.end, top.depth, top.pos>> \in G.values /\ Returning(G, b, top, res)
  BY DEF Stands, ReturnOk, Returning
<1>2. CASE Kind(top) = "root" /\ pc' = "done" /\ UNCHANGED <<stack, goal, res>>
  <2>1. Stands(G, at[Len(stack')], stack'[Len(stack')], pc', goal', res')
    BY <1>1, <1>2 DEF Stands, top
  <2>2. at \in Seq(Nat) /\ Aligned(G, at, stack')
    BY <1>2 DEF Aligned
  <2> QED BY <2>1, <2>2 DEF SoundAt
<1>3. ASSUME Kind(top) # "root"
      PROVE  /\ Len(stack) > 1 /\ Hangs(G, g, a, top, b)
             /\ top.type \in G.types /\ Kind(top) = Schema[top.type].kind /\ Fields(top) = Schema[top.type].fields
             /\ top \in Frame /\ top.field \in Nat \ {0} /\ top.seen \in SUBSET Nat
             /\ top.depth \in Nat /\ top.end \in 0..Len(input) /\ top.pos \in 0..top.end /\ b \in 0..top.end
  BY <1>3, HandlerFacts
<1>4. ASSUME NEW f, Continue(f), f \in Frame, f.pos = top.pos, f.end = top.end, f.depth = top.depth,
             Kind(top) # "root", Hangs(G, g, a, f, top.pos)
      PROVE  SoundAt(G, stack', pc', goal', res')
  BY <1>3, <1>4, GoOnSound DEF Continue
<1>5. CASE Kind(top) = "sequence" /\ Continue([top EXCEPT !.field = @ + 1])
  <2> DEFINE f == Ticked(top)
  <2>1. /\ f \in Frame /\ f.field = top.field + 1 /\ f.type = top.type /\ f.pos = top.pos /\ f.end = top.end
        /\ f.depth = top.depth /\ f.streaming = top.streaming /\ Kind(f) = "sequence"
    BY <1>3, <1>5, BookkeepingFacts
  <2>2. /\ Progress(top) = top.field /\ Progress(f) = top.field + 1 /\ top.field \in 1..Len(Fields(top))
        /\ Wanted(top) = Fields(top)[top.field].type
    BY <1>1, <1>5, <2>1 DEF Progress, Waits, Wanted
  <2>3. ASSUME NEW p \in 0..top.end, <<top.type, top.field + 1, top.pos, top.end, top.depth, p>> \in G.contents
        PROVE  <<top.type, top.field, b, top.end, top.depth, p>> \in G.contents
    <3>1. top.type \in {u \in G.types : Schema[u].kind = "sequence"} /\ top.field <= Len(Schema[top.type].fields)
      BY <1>3, <1>5, <2>2
    <3>2. <<Schema[top.type].fields[top.field].type, b, top.end, top.depth, top.pos>> \in G.values
      BY <1>1, <1>3, <1>5, <2>2
    <3> HIDE DEF b
    <3> QED BY <1>3, <1>5, <2>3, <3>1, <3>2 DEF Grammar, SequenceRules
  <2> HIDE DEF f, g, a, b
  <2>4. Hangs(G, g, a, f, top.pos)
    BY <1>3, <1>5, <2>1, <2>2, <2>3, HangsOn
  <2>5. Continue(f)
    BY <1>5 DEF f, Ticked
  <2> QED BY <1>4, <1>5, <2>1, <2>4, <2>5
<1>6. CASE Kind(top) \in {"sequenceOf", "setOf"} /\ Continue(top)
  <2>1. Progress(top) = 1 /\ Wanted(top) = Schema[top.type].elem
    BY <1>6 DEF Progress, Wanted
  <2>2. top.type \in {u \in G.types : Schema[u].kind \in {"sequenceOf", "setOf"}}
    BY <1>3, <1>6
  <2> HIDE DEF g, a, b
  <2>3. ASSUME NEW p \in 0..top.end, <<top.type, 1, top.pos, top.end, top.depth, p>> \in G.contents
        PROVE  <<top.type, 1, b, top.end, top.depth, p>> \in G.contents
    BY <1>1, <1>3, <1>6, <2>1, <2>2, <2>3 DEF Grammar, CollectionRules
  <2>4. Hangs(G, g, a, top, top.pos)
    BY <1>3, <1>6, <2>1, <2>3, HangsOn
  <2> QED BY <1>3, <1>4, <1>6, <2>4
<1>7. CASE Kind(top) = "set" /\ Continue(Seen(top))
  <2> DEFINE f == Seen(top)
  <2>1. /\ f \in Frame /\ f.type = top.type /\ f.pos = top.pos /\ f.end = top.end
        /\ f.depth = top.depth /\ f.streaming = top.streaming /\ Kind(f) = "set"
        /\ f.seen = top.seen \cup {top.field} /\ (f.twice <=> top.twice \/ top.field \in top.seen)
    BY <1>3, <1>7, BookkeepingFacts
  <2> HIDE DEF f
  <2>2. /\ Progress(top) = top.seen /\ Progress(f) = top.seen \cup {top.field}
        /\ top.field \in 1..Len(Fields(top)) /\ Wanted(top) = Fields(top)[top.field].type
    BY <1>1, <1>7, <2>1 DEF Progress, Waits, Wanted
  <2>3. top.type \in {u \in G.types : Schema[u].kind = "set"}
    BY <1>3, <1>7
  <2> HIDE DEF g, a, b
  <2>4. ASSUME NEW p \in 0..top.end, ~f.twice,
               <<top.type, top.seen \cup {top.field}, top.pos, top.end, top.depth, p>> \in G.contents
        PROVE  /\ ~top.twice
               /\ <<top.type, top.seen, b, top.end, top.depth, p>> \in G.contents
    <3>1. ~top.twice /\ top.field \in (1..Len(Schema[top.type].fields)) \ top.seen
      BY <1>3, <1>7, <2>1, <2>2, <2>4
    <3>2. <<Schema[top.type].fields[top.field].type, b, top.end, top.depth, top.pos>> \in G.values
      BY <1>1, <1>3, <1>7, <2>2
    <3> QED BY <1>3, <1>7, <2>3, <2>4, <3>1, <3>2 DEF Grammar, SetRules
  <2>5. Hangs(G, g, a, f, top.pos)
    BY <1>3, <1>7, <2>1, <2>2, <2>4, HangsOn
  <2>6. Continue(f)
    BY <1>7 DEF f
  <2> QED BY <1>4, <1>7, <2>1, <2>5, <2>6
<1>8. CASE Kind(top) = "explicit" /\ LeaveConstructed
  <2>1. Progress(top) = 1 /\ Wanted(top) = Schema[top.type].elem
    BY <1>8 DEF Progress, Wanted
  <2>2. top.type \in {u \in G.types : Schema[u].kind = "explicit"}
    BY <1>3, <1>8
  <2> HIDE DEF b
  <2>3. <<top.type, 1, b, top.end, top.depth, top.pos>> \in G.contents
    BY <1>1, <1>3, <1>8, <2>1, <2>2 DEF Grammar, ExplicitRules
  <2> QED BY <1>3, <1>8, <2>1, <2>3, LeaveSound DEF b
<1> QED BY <1>2, <1>5, <1>6, <1>7, <1>8 DEF ReturnOk, Seen

\* or where it failed, if the error is not one to return.
LEMMA ReturnErrSound ==
    ASSUME DecoderInv, NEW G, Grammar(G), Swallows(G), NEW at, Aligned(G, at, stack),
           Stands(G, at[Len(stack)], top, pc, goal, res), ReturnErr
    PROVE  SoundAt(G, stack', pc', goal', res')
<1> DEFINE g == stack[Len(stack)-1]
           a == at[Len(stack)-1]
           b == at[Len(stack)]
<1>1. Waits(top) /\ Failed(b, top.end, top.pos) /\ Returning(G, b, top, res) /\ res # "ok"
  BY DEF Stands, ReturnErr, Returning
<1>2. CASE Kind(top) = "root" /\ pc' = "done" /\ UNCHANGED <<stack, goal, res>>
  <2>1. Stands(G, at[Len(stack')], stack'[Len(stack')], pc', goal', res')
    BY <1>1, <1>2 DEF Stands, top
  <2>2. at \in Seq(Nat) /\ Aligned(G, at, stack')
    BY <1>2 DEF Aligned
  <2> QED BY <2>1, <2>2 DEF SoundAt
<1>3. ASSUME Kind(top) # "root"
      PROVE  /\ Len(stack) > 1 /\ Hangs(G, g, a, top, b)
             /\ top.type \in G.types /\ Kind(top) = Schema[top.type].kind /\ Fields(top) = Schema[top.type].fields
             /\ top \in Frame /\ top.field \in Nat \ {0} /\ top.seen \in SUBSET Nat
             /\ top.depth \in Nat /\ top.end \in 0..Len(input) /\ top.pos \in 0..top.end /\ b \in 0..top.end
  BY <1>3, HandlerFacts
<1>4. CASE SwallowsError(top) /\ Continue([top EXCEPT !.field = @ + 1])
  <2> DEFINE f == Ticked(top)
  <2>1. Kind(top) = "sequence" /\ Kind(top) # "root" /\ Fields(top)[top.field].mode = "optionalExplicit"
    BY <1>4 DEF SwallowsError
  <2>2. /\ f \in Frame /\ f.field = top.field + 1 /\ f.type = top.type /\ f.pos = top.pos /\ f.end = top.end
        /\ f.depth = top.depth /\ f.streaming = top.streaming /\ Kind(f) = "sequence"
    BY <1>3, <2>1, BookkeepingFacts
  <2>3. /\ Progress(top) = top.field /\ Progress(f) = top.field + 1 /\ top.field \in 1..Len(Fields(top))
    BY <1>1, <2>1, <2>2 DEF Progress, Waits
  <2>4. stack' = SetTop(f) /\ pc' = "step"
    BY <1>4 DEF Continue, Ticked
  <2> HIDE DEF f, g, a, b
  <2>5. ASSUME NEW p \in 0..top.end, <<top.type, top.field + 1, top.pos, top.end, top.depth, p>> \in G.contents
        PROVE  <<top.type, top.field, b, top.end, top.depth, p>> \in G.contents
    BY <1>1, <1>3, <2>1, <2>3, <2>5 DEF Swallows
  <2>6. Hangs(G, g, a, f, top.pos)
    BY <1>3, <2>1, <2>2, <2>3, <2>5, HangsOn
  <2> QED BY <1>3, <2>1, <2>2, <2>4, <2>6, GoOnSound DEF g, a
<1>5. CASE Kind(top) = "set" /\ EndSet
  <2> HIDE DEF b
  <2>1. Complete(top.type, top.seen) => <<top.type, top.seen, b, top.end, top.depth, top.pos>> \in G.contents
    BY <1>1, <1>3, <1>5 DEF Swallows
  <2> QED BY <1>5, <2>1, EndSetSound DEF b
<1>6. CASE Kind(top) \in {"sequenceOf", "setOf"} /\ LeaveConstructed
  <2> HIDE DEF b
  <2>1. <<top.type, 1, b, top.end, top.depth, top.pos>> \in G.contents
    BY <1>1, <1>3, <1>6 DEF Swallows
  <2>2. Progress(top) = 1
    BY <1>6 DEF Progress
  <2> QED BY <1>3, <1>6, <2>1, <2>2, LeaveSound DEF b
<1>7. CASE Kind(top) # "root" /\ Propagate(res)
  BY <1>1, <1>3, <1>7, PropagateSound
<1> QED BY <1>2, <1>4, <1>5, <1>6, <1>7 DEF ReturnErr, EndsCollection

\* Every step keeps what the decoders have read in accord with the rules.
LEMMA StepSound ==
    ASSUME DecoderInv, NEW G, Uses(G), Grammar(G), Swallows(G), Sound(G), Next
    PROVE  Sound(G)'
<1>1. CASE Finished
  <2>1. UNCHANGED <<input, root, der, stack, pc, goal, res>>
    BY <1>1 DEF Finished, vars
  <2>2. SoundAt(G, stack', pc', goal', res')
    BY <2>1 DEF Sound
  <2> QED BY <2>1, <2>2, Carried
<1>2. PICK at \in Seq(Nat) : Aligned(G, at, stack) /\ Stands(G, at[Len(stack)], top, pc, goal, res)
  BY DEF Sound, SoundAt, top
<1>3. UNCHANGED <<input, root, der>> \/ Finished
  BY DEF Next, DecodePrimitive, DecodeString, DecodeEncoded, DecodeChoice, EnterConstructed, SequenceEnd,
         SequenceField, SequenceOptional, CollectionElement, ExplicitContent, SetElement, ReturnOk, ReturnErr
<1>4. SoundAt(G, stack', pc', goal', res') \/ Finished
  BY <1>2, PrimitiveSound, StringSound, EncodedSound, ChoiceSound, EnterSound, SequenceEndSound,
     SequenceFieldSound, SequenceOptionalSound, CollectionElementSound, SetElementSound,
     ReturnOkSound, ReturnErrSound, Zenon DEF Next
<1> QED BY <1>1, <1>3, <1>4, Carried

LEMMA InitSound ==
    ASSUME Init, NEW G, Uses(G)
    PROVE  Sound(G)
<1> DEFINE f == [type |-> NoType, pos |-> 0, end |-> Len(input), depth |-> MaxDepth,
                 streaming |-> FALSE, field |-> 1, seen |-> {}, twice |-> FALSE]
           at == << 0 >>
<1>1. stack = << f >> /\ pc = "decode" /\ goal = root /\ root \in G.types
  BY DEF Init, Uses
<1>2. f.pos = 0 /\ f.end = Len(input) /\ f.depth = MaxDepth /\ Kind(f) = "root"
  BY DEF Kind
<1> HIDE DEF f
<1>3. Len(stack) = 1 /\ stack[1] = f /\ at \in Seq(Nat) /\ Len(at) = 1 /\ at[1] = 0
  BY <1>1
<1> HIDE DEF at
<1>4. Aligned(G, at, stack)
  BY <1>2, <1>3 DEF Aligned
<1>5. Stands(G, at[Len(stack)], stack[Len(stack)], pc, goal, res)
  BY <1>1, <1>2, <1>3 DEF Stands, Decoding, Waits, Wanted
<1> QED BY <1>3, <1>4, <1>5 DEF Sound, SoundAt

\* What the caller of decode gets as a value is an encoding of its type.
LEMMA SoundResult ==
    ASSUME DecoderInv, NEW G, Sound(G), pc = "done", res = "ok"
    PROVE  <<root, 0, Len(input), MaxDepth, stack[1].pos>> \in G.values
<1>1. PICK at \in Seq(Nat) : Aligned(G, at, stack) /\ Stands(G, at[Len(stack)], top, pc, goal, res)
  BY DEF Sound, SoundAt, top
<1>2. Kind(top) = "root" /\ <<Wanted(top), at[Len(stack)], top.end, top.depth, top.pos>> \in G.values
  BY <1>1 DEF Stands, Returning
<1>3. Len(stack) = 1
  <2>1. CASE top.type = NoType
    BY <2>1, TopFacts
  <2>2. CASE top.type # NoType
    <3>1. top.type \in Types /\ Schema[top.type].kind = "root"
      BY <1>2, <2>2, TopFacts DEF Kind
    <3>2. Schema[top.type].kind \in TypeKind
      BY <3>1, SchemaAssumption DEF Declaration
    <3> QED BY <3>1, <3>2 DEF TypeKind
  <2> QED BY <2>1, <2>2
<1>4. Wanted(top) = root
  BY <1>2 DEF Wanted
<1>5. at[1] = 0 /\ stack[1].end = Len(input) /\ stack[1].depth = MaxDepth
  BY <1>1 DEF Aligned
<1> QED BY <1>2, <1>3, <1>4, <1>5 DEF top

(***************************************************************************)
(* The rules read the input and whether it is DER, nothing else that a     *)
(* step could change.  The loops over the parts of a value are written out *)
(* over both for that.                                                     *)
(***************************************************************************)
PeekOf(inp, d) == inp[d.pos + 1]
HasContentsOf(inp, dr, d) ==
    LET t == PeekOf(inp, d) IN
    IF t.len = Indefinite THEN t.constructed /\ ~dr
                          ELSE d.pos + 1 + t.len <= d.end
AfterValueOf(inp, d) ==
    IF PeekOf(inp, d).len = Indefinite THEN d.pos + 1 ELSE d.pos + 1 + PeekOf(inp, d).len
LoopOf(inp, dr, e, strict) ==
    LET At(j) == [pos |-> j, end |-> e]
        loop[j \in 0..e] ==
            IF j = e \/ PeekOf(inp, At(j)).kind = "eoc" THEN j
            ELSE IF ~HasContentsOf(inp, dr, At(j)) THEN -1
            ELSE IF ~PeekOf(inp, At(j)).constructed
            THEN IF strict /\ ~PeekOf(inp, At(j)).ok THEN -1 ELSE loop[AfterValueOf(inp, At(j))]
            ELSE LET last == IF dr THEN -1 ELSE loop[AfterValueOf(inp, At(j))] IN
                 IF last = -1 THEN -1
                 ELSE IF PeekOf(inp, At(j)).len # Indefinite THEN loop[last]
                 ELSE IF last = e THEN -1 ELSE loop[last + 1]
    IN  loop
EncodedOf(inp, dr, j, e, strict) ==
    LET d == [pos |-> j, end |-> e]
        last == LoopOf(inp, dr, e, strict)[AfterValueOf(inp, d)]
    IN  IF ~(~d.pos = d.end /\ PeekOf(inp, d).kind = "tlv") \/ ~HasContentsOf(inp, dr, d) THEN -1
        ELSE IF ~PeekOf(inp, d).constructed
        THEN IF strict /\ ~PeekOf(inp, d).ok THEN -1 ELSE AfterValueOf(inp, d)
        ELSE IF dr \/ last = -1 THEN -1
        ELSE IF PeekOf(inp, d).len # Indefinite THEN last
        ELSE IF last = e THEN -1 ELSE last + 1
StringPartsOf(inp, dr, i, e) ==
    LET stop[j \in 0..e] ==
            IF j = e \/ inp[j + 1].kind = "eoc" \/ inp[j + 1].tag # ChunkTag THEN j
            ELSE LET next == EncodedOf(inp, dr, j, e, FALSE) IN IF next = -1 THEN j ELSE stop[next]
    IN  stop[i]

LEMMA LoopIs ==
    ASSUME NEW CONSTANT e, NEW CONSTANT strict
    PROVE  /\ Loop(e, strict) = LoopOf(input, der, e, strict)
           /\ Loop(e, strict)' = LoopOf(input', der', e, strict)
<1>1. Loop(e, strict) = LoopOf(input, der, e, strict)
  BY Zenon DEF Loop, AtEnd, Peek, HasContents, AfterValue, LoopOf, PeekOf, HasContentsOf, AfterValueOf
<1>2. Loop(e, strict)' = LoopOf(input', der', e, strict)
  BY Zenon DEF Loop, AtEnd, Peek, HasContents, AfterValue, LoopOf, PeekOf, HasContentsOf, AfterValueOf
<1> QED BY <1>1, <1>2

LEMMA EncodedIs ==
    ASSUME NEW CONSTANT j, NEW CONSTANT e, NEW CONSTANT strict
    PROVE  /\ Encoded(j, e, strict) = EncodedOf(input, der, j, e, strict)
           /\ Encoded(j, e, strict)' = EncodedOf(input', der', j, e, strict)
<1>1. Encoded(j, e, strict) = EncodedOf(input, der, j, e, strict)
  BY LoopIs DEF Encoded, AtEnd, Peek, HasIdentifier, HasContents, AfterValue,
               EncodedOf, PeekOf, HasContentsOf, AfterValueOf
<1>2. Encoded(j, e, strict)' = EncodedOf(input', der', j, e, strict)
  BY LoopIs DEF Encoded, AtEnd, Peek, HasIdentifier, HasContents, AfterValue,
               EncodedOf, PeekOf, HasContentsOf, AfterValueOf
<1> QED BY <1>1, <1>2

LEMMA StringPartsIs ==
    ASSUME NEW CONSTANT i, NEW CONSTANT e
    PROVE  /\ StringParts(i, e) = StringPartsOf(input, der, i, e)
           /\ StringParts(i, e)' = StringPartsOf(input', der', i, e)
<1>1. StringParts(i, e) = StringPartsOf(input, der, i, e)
  BY Zenon DEF StringParts, Encoded, Loop, AtEnd, Peek, HasIdentifier, HasContents, AfterValue,
               StringPartsOf, EncodedOf, LoopOf, PeekOf, HasContentsOf, AfterValueOf
<1>2. StringParts(i, e)' = StringPartsOf(input', der', i, e)
  BY Zenon DEF StringParts, Encoded, Loop, AtEnd, Peek, HasIdentifier, HasContents, AfterValue,
               StringPartsOf, EncodedOf, LoopOf, PeekOf, HasContentsOf, AfterValueOf
<1> QED BY <1>1, <1>2

LEMMA SameValues ==
    ASSUME UNCHANGED <<input, root, der>>,
           NEW CONSTANT t, NEW CONSTANT i, NEW CONSTANT e, NEW CONSTANT k, NEW CONSTANT p
    PROVE  /\ PrimitiveEnds(t, i, e, p)' <=> PrimitiveEnds(t, i, e, p)
           /\ StringEnds(t, i, e, p)' <=> StringEnds(t, i, e, p)
           /\ EncodedEnds(t, i, e, p)' <=> EncodedEnds(t, i, e, p)
           /\ Opens(t, i, e, k)' <=> Opens(t, i, e, k)
           /\ Failed(i, e, p)' <=> Failed(i, e, p)
           /\ InnerEnd(i, e)' = InnerEnd(i, e)
           /\ Peek(Slice(i, e))' = Peek(Slice(i, e))
           /\ HasIdentifier(Slice(i, e))' = HasIdentifier(Slice(i, e))
<1>1. \A tag : ParseValue(Slice(i, e), tag)' <=> ParseValue(Slice(i, e), tag)
  BY DEF ParseValue, HasIdentifier, HasContents, Slice, Peek, AtEnd
<1>2. /\ Peek(Slice(i, e))' = Peek(Slice(i, e)) /\ AfterValue(Slice(i, e))' = AfterValue(Slice(i, e))
      /\ HasIdentifier(Slice(i, e))' = HasIdentifier(Slice(i, e))
      /\ HasContents(Slice(i, e))' = HasContents(Slice(i, e))
  BY DEF Slice, Peek, AfterValue, HasIdentifier, HasContents, AtEnd
<1>3. \A a, b : StringParts(a, b)' = StringParts(a, b)
  BY StringPartsIs
<1>4. \A a, b, c : Encoded(a, b, c)' = Encoded(a, b, c)
  BY EncodedIs
<1>5. PrimitiveEnds(t, i, e, p)' <=> PrimitiveEnds(t, i, e, p)
  BY <1>1, <1>2 DEF PrimitiveEnds
<1>6. StringEnds(t, i, e, p)' <=> StringEnds(t, i, e, p)
  BY <1>1, <1>2, <1>3 DEF StringEnds
<1>7. EncodedEnds(t, i, e, p)' <=> EncodedEnds(t, i, e, p)
  BY <1>2, <1>4 DEF EncodedEnds, AnyTag
<1>8. Opens(t, i, e, k)' <=> Opens(t, i, e, k)
  BY <1>1, <1>2 DEF Opens
<1>9. Failed(i, e, p)' <=> Failed(i, e, p)
  BY <1>2 DEF Failed
<1>10. InnerEnd(i, e)' = InnerEnd(i, e)
  BY <1>2 DEF InnerEnd
<1> QED BY <1>2, <1>5, <1>6, <1>7, <1>8, <1>9, <1>10

\* What G satisfies after a step it satisfied before.
LEMMA SameRules ==
    ASSUME UNCHANGED <<input, root, der>>, NEW CONSTANT G, (Uses(G) /\ Grammar(G) /\ Swallows(G))'
    PROVE  Uses(G) /\ Grammar(G) /\ Swallows(G)
<1>1. Uses(G)
  BY DEF Uses
<1>2. ValueRules(G)
  <2> SUFFICES ASSUME NEW t \in G.types, NEW k \in Nat, NEW e \in 0..Len(input), NEW i \in 0..e, NEW p \in 0..e
               PROVE  /\ PrimitiveEnds(t, i, e, p) \/ StringEnds(t, i, e, p) \/ EncodedEnds(t, i, e, p)
                            => <<t, i, e, k, p>> \in G.values
                      /\ \A a \in 1..Len(Schema[t].alts) :
                            /\ Schema[t].kind = "choice"
                            /\ HasIdentifier(Slice(i, e))
                            /\ Peek(Slice(i, e)).tag \in Schema[t].alts[a].tree
                            /\ <<Schema[t].alts[a].type, i, e, k, p>> \in G.values
                            => <<t, i, e, k, p>> \in G.values
                      /\ \A q \in 0..e :
                            /\ Opens(t, i, e, k)
                            /\ <<t, First(t), i + 1, InnerEnd(i, e), InnerDepth(t, k), p>> \in G.contents
                            /\ Closes(Peek(Slice(i, e)).len = Indefinite, InnerEnd(i, e), p, q)
                            => <<t, i, e, k, q>> \in G.values
    BY DEF ValueRules
  <2>1. (/\ PrimitiveEnds(t, i, e, p) \/ StringEnds(t, i, e, p) \/ EncodedEnds(t, i, e, p)
              => <<t, i, e, k, p>> \in G.values
         /\ \A a \in 1..Len(Schema[t].alts) :
              /\ Schema[t].kind = "choice"
              /\ HasIdentifier(Slice(i, e))
              /\ Peek(Slice(i, e)).tag \in Schema[t].alts[a].tree
              /\ <<Schema[t].alts[a].type, i, e, k, p>> \in G.values
              => <<t, i, e, k, p>> \in G.values
         /\ \A q \in 0..e :
              /\ Opens(t, i, e, k)
              /\ <<t, First(t), i + 1, InnerEnd(i, e), InnerDepth(t, k), p>> \in G.contents
              /\ Closes(Peek(Slice(i, e)).len = Indefinite, InnerEnd(i, e), p, q)
              => <<t, i, e, k, q>> \in G.values)'
    BY DEF Grammar, ValueRules
  <2>2. PrimitiveEnds(t, i, e, p) \/ StringEnds(t, i, e, p) \/ EncodedEnds(t, i, e, p)
              => <<t, i, e, k, p>> \in G.values
    BY <2>1, SameValues
  <2>3. ASSUME NEW a \in 1..Len(Schema[t].alts), Schema[t].kind = "choice",
               HasIdentifier(Slice(i, e)), Peek(Slice(i, e)).tag \in Schema[t].alts[a].tree,
               <<Schema[t].alts[a].type, i, e, k, p>> \in G.values
        PROVE  <<t, i, e, k, p>> \in G.values
    BY <2>1, <2>3, SameValues
  <2>4. ASSUME NEW q \in 0..e, Opens(t, i, e, k),
               <<t, First(t), i + 1, InnerEnd(i, e), InnerDepth(t, k), p>> \in G.contents,
               Closes(Peek(Slice(i, e)).len = Indefinite, InnerEnd(i, e), p, q)
        PROVE  <<t, i, e, k, q>> \in G.values
    <3>1. Closes(Peek(Slice(i, e)).len = Indefinite, InnerEnd(i, e), p, q)'
      BY <2>4, SameValues DEF Closes
    <3>2. Opens(t, i, e, k)' /\ <<t, First(t), i + 1, InnerEnd(i, e)', InnerDepth(t, k), p>> \in G.contents
      <4>1. (Opens(t, i, e, k)' <=> Opens(t, i, e, k)) /\ InnerEnd(i, e)' = InnerEnd(i, e)
        BY SameValues
      <4> QED BY <2>4, <4>1
    <3>3. (/\ Opens(t, i, e, k)
           /\ <<t, First(t), i + 1, InnerEnd(i, e), InnerDepth(t, k), p>> \in G.contents
           /\ Closes(Peek(Slice(i, e)).len = Indefinite, InnerEnd(i, e), p, q)
           => <<t, i, e, k, q>> \in G.values)'
      BY <2>1
    <3> QED BY <3>1, <3>2, <3>3
  <2> QED BY <2>2, <2>3, <2>4
<1>3. SequenceRules(G) /\ SetRules(G) /\ CollectionRules(G) /\ ExplicitRules(G)
  <2>1. SequenceRules(G)
    BY DEF Grammar, SequenceRules
  <2>2. SetRules(G)
    BY DEF Grammar, SetRules, Complete
  <2>3. CollectionRules(G)
    BY DEF Grammar, CollectionRules
  <2>4. ExplicitRules(G)
    BY DEF Grammar, ExplicitRules
  <2> QED BY <2>1, <2>2, <2>3, <2>4
<1>4. Swallows(G)
  <2>1. \A i, e, p : Failed(i, e, p)' <=> Failed(i, e, p)
    BY SameValues
  <2>2. ASSUME NEW t \in G.types, NEW k \in Nat, NEW e \in 0..Len(input), NEW i \in 0..e, NEW p \in 0..e, NEW q \in 0..e
        PROVE  /\ Schema[t].kind \in {"sequenceOf", "setOf"} /\ Failed(i, e, p)
                     => <<t, 1, i, e, k, p>> \in G.contents
               /\ \A S \in SUBSET Nat :
                     Schema[t].kind = "set" /\ Complete(t, S) /\ Failed(i, e, p)
                         => <<t, S, i, e, k, p>> \in G.contents
               /\ \A n \in 1..Len(Schema[t].fields) :
                     /\ Schema[t].kind = "sequence"
                     /\ Schema[t].fields[n].mode = "optionalExplicit"
                     /\ Failed(i, e, q)
                     /\ <<t, n + 1, q, e, k, p>> \in G.contents
                     => <<t, n, i, e, k, p>> \in G.contents
    <3>1. (Failed(i, e, p)' <=> Failed(i, e, p)) /\ (Failed(i, e, q)' <=> Failed(i, e, q))
      BY <2>1
    <3> QED BY <3>1 DEF Swallows, Complete
  <2> QED BY <2>2 DEF Swallows
<1> QED BY <1>1, <1>2, <1>3, <1>4 DEF Grammar

\* decode returns a value only for an encoding of the type it was asked for: whatever
\* the schema, the input and the limit of nested decoders, what has been consumed
\* when it succeeds is formed by the rules, or by what Swallows adds to them.
AcceptsByRules ==
    pc = "done" /\ res = "ok" =>
        \A G : Uses(G) /\ Grammar(G) /\ Swallows(G)
                  => <<root, 0, Len(input), MaxDepth, stack[1].pos>> \in G.values

THEOREM AcceptsCorrect == Spec => []AcceptsByRules
<1> DEFINE Inv == \A G : Uses(G) /\ Grammar(G) /\ Swallows(G) => Sound(G)
<1>1. Init => Inv
  BY InitSound
<1>2. DecoderInv /\ Inv /\ [Next]_vars => Inv'
  <2> SUFFICES ASSUME DecoderInv, Inv, [Next]_vars,
                      NEW CONSTANT G, (Uses(G) /\ Grammar(G) /\ Swallows(G))'
               PROVE  Sound(G)'
    OBVIOUS
  <2>1. UNCHANGED <<input, root, der>>
    BY DEF Next, vars, DecodePrimitive, DecodeString, DecodeEncoded, DecodeChoice, EnterConstructed,
           SequenceEnd, InSequence, SequenceField, SequenceOptional, CollectionElement, ExplicitContent,
           SetElement, ReturnOk, ReturnErr, Finished
  <2>2. Uses(G) /\ Grammar(G) /\ Swallows(G)
    BY <2>1, SameRules
  <2>3. Sound(G)
    BY <2>2
  <2>4. CASE Next
    BY <2>2, <2>3, <2>4, StepSound
  <2>5. CASE UNCHANGED vars
    <3>1. SoundAt(G, stack', pc', goal', res')
      BY <2>3, <2>5 DEF Sound, vars
    <3> QED BY <2>1, <3>1, Carried
  <2> QED BY <2>4, <2>5
<1>3. DecoderInv /\ Inv => AcceptsByRules
  BY SoundResult DEF AcceptsByRules
<1> QED BY <1>1, <1>2, <1>3, Invariance, PTL DEF Spec

\* A type of which no part is a collection, a SET, or a component with an explicit tag
\* that may be absent
Plain(G) ==
    \A t \in G.types :
        /\ Schema[t].kind \notin {"set", "setOf", "sequenceOf"}
        /\ \A n \in 1..Len(Schema[t].fields) : Schema[t].fields[n].mode # "optionalExplicit"

\* Where nothing swallows an error, the rules of X.690 are all there is: what a decode
\* of such a type accepts is an encoding of it.
RecordsByRules ==
    pc = "done" /\ res = "ok" =>
        \A G : Uses(G) /\ Grammar(G) /\ Plain(G)
                  => <<root, 0, Len(input), MaxDepth, stack[1].pos>> \in G.values

THEOREM RecordsCorrect == Spec => []RecordsByRules
<1>1. ASSUME NEW G, Plain(G) PROVE Swallows(G)
  <2>1. ASSUME NEW t \in G.types
        PROVE  /\ Schema[t].kind \notin {"sequenceOf", "setOf"} /\ Schema[t].kind # "set"
               /\ \A n \in 1..Len(Schema[t].fields) : Schema[t].fields[n].mode # "optionalExplicit"
    BY <1>1 DEF Plain
  <2>2. ASSUME NEW t \in G.types, NEW k \in Nat, NEW e \in 0..Len(input), NEW i \in 0..e, NEW p \in 0..e, NEW q \in 0..e
        PROVE  /\ Schema[t].kind \in {"sequenceOf", "setOf"} /\ Failed(i, e, p)
                     => <<t, 1, i, e, k, p>> \in G.contents
               /\ \A S \in SUBSET Nat :
                     Schema[t].kind = "set" /\ Complete(t, S) /\ Failed(i, e, p)
                         => <<t, S, i, e, k, p>> \in G.contents
               /\ \A n \in 1..Len(Schema[t].fields) :
                     /\ Schema[t].kind = "sequence"
                     /\ Schema[t].fields[n].mode = "optionalExplicit"
                     /\ Failed(i, e, q)
                     /\ <<t, n + 1, q, e, k, p>> \in G.contents
                     => <<t, n, i, e, k, p>> \in G.contents
    BY <2>1
  <2> QED BY <2>2 DEF Swallows
<1>2. AcceptsByRules => RecordsByRules
  BY <1>1 DEF AcceptsByRules, RecordsByRules
<1> QED BY <1>2, AcceptsCorrect, PTL
=============================================================================
