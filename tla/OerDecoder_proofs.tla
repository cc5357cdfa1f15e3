-------------------------- MODULE OerDecoder_proofs --------------------------
(***************************************************************************)
(* coer::decode keeps to the slices it was given, whatever the type and    *)
(* whatever the octets: SlicesNest is an invariant.  The inductive         *)
(* invariant is what CallStack_proofs says of the calls under way.  No     *)
(* octet is read by two calls: every step is one of ReadsForward.          *)
(***************************************************************************)
EXTENDS OerDecoder, CallStack_proofs

Size == Len(input)
DecoderInv ==
    /\ input \in Inputs
    /\ goal \in Type \cup {Absent}
    /\ Calls(calls, Size)

\* A step of ReadsForward
Advances == Proceeds(calls, calls') /\ (status' = "ok" => Len(calls') = 1)

-----------------------------------------------------------------------------

LEMMA Limit == MaxDepth \in Nat
BY OerTypesAssumption

LEMMA InputFacts ==
    ASSUME input \in Inputs
    PROVE  input \in Seq(Octet) /\ Size \in Nat
<1>1. input \in Seq(Octet)
  BY OerTypesAssumption
<1> QED BY <1>1 DEF Size

\* The fields of a type
LEMMA TypeFacts ==
    ASSUME NEW t \in Type
    PROVE  /\ Declared(t)
           /\ \A i \in 1..Len(Fields[t]) : Fields[t][i].type \in Type
           /\ Kind[t] = "list" => Len(Fields[t]) = 1
<1>1. Fields[t] \in Seq(FieldDef) /\ (Kind[t] = "list" => Len(Fields[t]) = 1)
  BY OerTypesAssumption
<1>2. ASSUME NEW i \in 1..Len(Fields[t])
      PROVE  Fields[t][i].type \in Type /\ Fields[t][i].tag \in Nat
  <2>1. Fields[t][i] \in FieldDef
    BY <1>1
  <2> QED BY <2>1 DEF FieldDef
<1>3. Kind[t] = "set" => \A i, j \in 1..Len(Fields[t]) : i # j => Fields[t][i].tag # Fields[t][j].tag
  BY OerTypesAssumption
<1> QED BY <1>1, <1>2, <1>3 DEF Declared

\* The innermost call
LEMMA CallFacts ==
    ASSUME DecoderInv
    PROVE  /\ Size \in Nat /\ CallOK(C) /\ C = Top(calls)
           /\ C.pos \in Nat /\ C.pos >= 1 /\ C.end \in Nat /\ C.pos <= C.end + 1 /\ C.end <= Size
           /\ C.type \in Type /\ C.depth \in 0..MaxDepth
           /\ C.call = "root" <=> Len(calls) = 1
           /\ Len(calls) \in Nat /\ Len(calls) > 0
<1>1. Size \in Nat /\ Calls(calls, Size) /\ C = Top(calls)
  BY InputFacts DEF DecoderInv, C
<1>2. CallOK(C)
  BY <1>1, TopFacts
<1>3. C.type \in Type /\ C.depth \in 0..MaxDepth
  BY <1>2 DEF CallOK, Fixed
<1> QED BY <1>1, <1>2, <1>3, TopFacts

\* The field that is next
LEMMA HereFacts ==
    ASSUME DecoderInv, C.call \in Constructed, Len(C.got) < Len(C.order)
    PROVE  Fields[C.type][Here].type \in Type
<1> DEFINE c == C
<1>1. /\ c.type \in Type
      /\ IsSeq(c.order) /\ \A k \in 1..Len(c.order) : c.order[k] \in 1..Len(Fields[c.type])
      /\ IsSeq(c.got)
  BY CallFacts DEF CallOK, Fixed
<1>2. Len(c.got) \in Nat /\ Len(c.order) \in Nat
  BY <1>1, LenNat
<1>3. Len(c.got) + 1 \in 1..Len(c.order)
  BY <1>2
<1>4. Here \in 1..Len(Fields[c.type])
  BY <1>1, <1>3 DEF Here
<1> QED BY <1>1, <1>4, TypeFacts

\* The contents behind a length are inside the slice.
LEMMA SliceFacts ==
    ASSUME DecoderInv, NEW p \in Nat, p >= 1, NEW end \in Nat, end <= Size, Slice(p, end).ok
    PROVE  /\ Slice(p, end).from = p + 1
           /\ Slice(p, end).from \in Nat /\ Slice(p, end).to \in Nat
           /\ p <= Slice(p, end).to /\ Slice(p, end).to <= end
<1>1. p <= end /\ input[p] < 128 /\ p + input[p] <= end
      /\ Slice(p, end).from = p + 1 /\ Slice(p, end).to = p + input[p]
  BY DEF Slice, Short
<1>2. input \in Seq(Octet) /\ Size \in Nat
  BY InputFacts DEF DecoderInv
<1>3. input[p] \in Octet
  BY <1>1, <1>2 DEF Size
<1>4. input[p] \in Nat
  BY <1>3 DEF Octet
<1> QED BY <1>1, <1>4

\* A value is returned to the calls cs.
LEMMA ReturnsKeeps ==
    ASSUME DecoderInv, status = "run",
           NEW cs, Calls(cs, Size), cs = calls \/ (cs = Front(calls) /\ Len(calls) > 1),
           NEW v, NEW pos, NEW own \in BOOLEAN,
           ~own => pos \in Nat /\ Top(cs).pos <= pos /\ pos <= Top(cs).end + 1,
           C.pos <= IF own THEN Top(cs).pos ELSE pos,
           Returns(v, pos, cs, own)
    PROVE  DecoderInv' /\ Advances
<1> DEFINE d == Received(Top(cs), v, own, pos)
<1>1. goal' = Absent /\ input' = input /\ calls' = [cs EXCEPT ![Len(cs)] = d]
  BY DEF Returns, Received
<1>2. calls' = Replaced(cs, d)
  BY <1>1 DEF Replaced
<1>3. /\ Calls(Replaced(cs, d), Size) /\ Proceeds(cs, Replaced(cs, d))
      /\ Len(Replaced(cs, d)) = Len(cs) /\ Top(Replaced(cs, d)) = d
  BY CallFacts, Receives
<1>4. Top(cs).call = "root" <=> Len(cs) = 1
  BY CallFacts, TopFacts
<1>5. status' = "ok" => Len(cs) = 1
  BY <1>4 DEF Returns
<1>6. Top(calls).pos <= d.pos
  <2>1. CallOK(Top(cs))
    BY CallFacts, TopFacts
  <2>2. d.pos = IF own THEN Top(cs).pos ELSE pos
    BY <2>1 DEF CallOK, Fixed, CallField, Received
  <2> QED BY <2>2 DEF C
<1> HIDE DEF d
<1>7. Proceeds(calls, calls')
  <2>1. CASE cs = calls
    BY <1>2, <1>3, <2>1
  <2>2. CASE cs = Front(calls) /\ Len(calls) > 1
    <3>1. Calls(calls, Size) /\ Size \in Nat
      BY CallFacts DEF DecoderInv
    <3> DEFINE q == Replaced(cs, d)
               n == Size
    <3>2. /\ n \in Nat /\ Calls(calls, n) /\ Calls(q, n) /\ Proceeds(cs, q) /\ Len(q) = Len(cs)
          /\ Top(calls).pos <= Top(q).pos
      BY <1>3, <1>6, <3>1
    <3> HIDE DEF q, n
    <3>3. Proceeds(calls, q)
      BY <2>2, <3>2, ProceedsBehind
    <3> QED BY <1>2, <3>3 DEF q
  <2> QED BY <2>1, <2>2
<1>8. Size' = Size
  BY <1>1 DEF Size
<1>9. Calls(calls', Size') /\ Len(calls') = Len(cs)
  BY <1>2, <1>3, <1>8
<1> QED BY <1>1, <1>5, <1>7, <1>9 DEF DecoderInv, Advances

\* A step that leaves the calls, and one that changes them
LEMMA OtherKeeps ==
    ASSUME DecoderInv, UNCHANGED <<input, calls>>, goal' \in Type \cup {Absent}, status' # "ok"
    PROVE  DecoderInv' /\ Advances
<1>1. Calls(calls, Size) /\ Size \in Nat
  BY CallFacts DEF DecoderInv
<1>2. Proceeds(calls, calls)
  BY <1>1, ProceedsNowhere
<1>3. Proceeds(calls, calls')
  BY <1>2
<1> QED BY <1>3 DEF DecoderInv, Size, Advances

LEMMA CallsKeeps ==
    ASSUME DecoderInv, UNCHANGED input, goal' \in Type \cup {Absent}, status' # "ok",
           NEW cs, calls' = cs, Calls(cs, Size), Proceeds(calls, cs)
    PROVE  DecoderInv' /\ Advances
BY DEF DecoderInv, Size, Advances

LEMMA FailKeeps ==
    ASSUME DecoderInv, NEW e, e # "ok", Fail(e)
    PROVE  DecoderInv' /\ Advances
BY OtherKeeps DEF Fail, DecoderInv

-----------------------------------------------------------------------------

LEMMA DecodePrimitiveKeeps ==
    ASSUME DecoderInv, DecodePrimitive
    PROVE  DecoderInv' /\ Advances
<1> DEFINE v == Decoded(goal, input[C.pos], << >>)
<1>1. Calls(calls, Size) /\ status = "run" /\ C = Top(calls) /\ C.pos \in Nat
  BY CallFacts DEF DecoderInv, DecodePrimitive, Starting
<1>2. CASE C.pos > C.end
  BY <1>2, FailKeeps DEF DecodePrimitive
<1>3. CASE ~(C.pos > C.end) /\ C.call = "addition"
  <2>1. Returns(v, 0, calls, TRUE)
    BY <1>3 DEF DecodePrimitive
  <2>2. C.pos <= Top(calls).pos
    BY <1>1
  <2> HIDE DEF v
  <2> QED BY <1>1, <2>1, <2>2, ReturnsKeeps
<1>4. CASE ~(C.pos > C.end) /\ C.call # "addition"
  <2>1. Returns(v, C.pos + 1, calls, FALSE)
    BY <1>4 DEF DecodePrimitive
  <2>2. C.pos + 1 \in Nat /\ Top(calls).pos <= C.pos + 1 /\ C.pos + 1 <= Top(calls).end + 1
    BY <1>4, CallFacts
  <2> HIDE DEF v
  <2> QED BY <1>1, <2>1, <2>2, ReturnsKeeps
<1> QED BY <1>2, <1>3, <1>4

LEMMA DecodeConstructedKeeps ==
    ASSUME DecoderInv, DecodeConstructed
    PROVE  DecoderInv' /\ Advances
<1> DEFINE p == PreambleEnd(goal, C.pos)
           c == CallOf(Kind[goal], goal, p, C.end, C.depth - 1, FALSE)
           x == PresentBits(goal, C.pos)
           y == IF Extensible[goal] /\ BitAt(C.pos, 0) THEN "unread" ELSE "none"
           z == DecodeOrder(goal)
           d == [c EXCEPT !.present = x, !.extensions = y, !.order = z]
           v == Decoded(goal, 0, [i \in 1..Len(Fields[goal]) |-> Absent])
<1>1. /\ Calls(calls, Size) /\ goal \in Type /\ goal # Absent /\ Kind[goal] \in Constructed
      /\ status = "run" /\ C = Top(calls) /\ C.pos \in Nat
  BY CallFacts DEF DecoderInv, DecodeConstructed, Starting
<1>2. \/ \E e : e # "ok" /\ Fail(e)
      \/ Returns(v, C.pos, calls, FALSE)
      \/ /\ ~Exceeds(C.depth) /\ ~(p > C.end + 1)
         /\ calls' = Append(calls, d) /\ goal' = Absent /\ UNCHANGED <<input, value, status>>
  BY DEF DecodeConstructed
<1>3. CASE \E e : e # "ok" /\ Fail(e)
  BY <1>3, FailKeeps
<1>4. CASE Returns(v, C.pos, calls, FALSE)
  <2>1. C.pos \in Nat /\ Top(calls).pos <= C.pos /\ C.pos <= C.pos /\ C.pos <= Top(calls).end + 1
    BY CallFacts
  <2> HIDE DEF v
  <2> QED BY <1>1, <1>4, <2>1, ReturnsKeeps
<1>5. CASE /\ ~Exceeds(C.depth) /\ ~(p > C.end + 1)
           /\ calls' = Append(calls, d) /\ goal' = Absent /\ UNCHANGED <<input, value, status>>
  <2>1. p \in Nat /\ C.pos <= p
    <3>1. Cardinality(OptFields(goal)) \in Nat
      BY <1>1, TypeFacts, FieldsFinite
    <3>2. PreambleBits(goal) \in Nat
      BY <3>1 DEF PreambleBits
    <3>3. (PreambleBits(goal) + 7) \div 8 \in Nat
      BY <3>2
    <3> QED BY <3>3, CallFacts DEF PreambleEnd
  <2>2. d = Filled(c, x, y, z)
    BY DEF Filled
  <2> HIDE DEF d, x, y, z, p
  <2>3. NewCall(d, Kind[goal], goal, p, C.end, C.depth - 1, FALSE) /\ d.order = DecodeOrder(goal)
    <3> DEFINE own == FALSE
    <3>1. d = Filled(CallOf(Kind[goal], goal, p, C.end, C.depth - 1, own), x, y, z)
      BY <2>2
    <3> HIDE DEF own
    <3>2. NewCall(d, Kind[goal], goal, p, C.end, C.depth - 1, own) /\ d.order = z
      BY ONLY <3>1, NewFilled
    <3> QED BY <3>2 DEF z, own
  <2>4. /\ C = Top(calls) /\ Size \in Nat /\ MaxDepth \in Nat /\ Declared(goal)
        /\ Kind[goal] \in CallName \ {"root", "addition"} /\ Kind[goal] # "list"
    BY <1>1, CallFacts, Limit, TypeFacts DEF CallName, Constructed
  <2>5. p <= C.end + 1
    BY <1>5, <2>1, CallFacts
  <2>6. Calls(Pushed(calls, d), Size) /\ Proceeds(calls, Pushed(calls, d))
    BY <1>1, <1>5, <2>1, <2>3, <2>4, <2>5, BeginsOnRest
  <2>7. calls' = Pushed(calls, d) /\ goal' = Absent /\ input' = input /\ status' # "ok"
    BY <1>1, <1>5 DEF Pushed
  <2> QED BY <2>6, <2>7, CallsKeeps
<1> QED BY <1>2, <1>3, <1>4, <1>5

LEMMA DecodeFieldKeeps ==
    ASSUME DecoderInv, DecodeField
    PROVE  DecoderInv' /\ Advances
<1>1. Fields[C.type][Here].type \in Type
  BY HereFacts DEF DecodeField, AtField, Going
<1>2. goal' \in Type \cup {Absent} /\ UNCHANGED <<input, calls>> /\ status' # "ok"
  BY <1>1 DEF DecodeField, AtField, Going
<1> QED BY <1>2, OtherKeeps

\* Absent is noted for the field that is next.
LEMMA AbsentKeeps ==
    ASSUME DecoderInv, SetCall([C EXCEPT !.got = Append(@, Absent)]), UNCHANGED <<input, goal>>,
           status' # "ok"
    PROVE  DecoderInv' /\ Advances
<1> DEFINE d == [Top(calls) EXCEPT !.got = Append(@, Absent)]
<1>1. Calls(calls, Size) /\ Size \in Nat
  BY CallFacts DEF DecoderInv
<1>2. calls' = Replaced(calls, d)
  BY DEF SetCall, Replaced, C
<1>3. Calls(Replaced(calls, d), Size) /\ Proceeds(calls, Replaced(calls, d))
  BY <1>1, Skips
<1> HIDE DEF d
<1>4. goal' \in Type \cup {Absent}
  BY DEF DecoderInv
<1> QED BY <1>2, <1>3, <1>4, CallsKeeps

LEMMA DecodeAbsentKeeps ==
    ASSUME DecoderInv, DecodeAbsent
    PROVE  DecoderInv' /\ Advances
BY AbsentKeeps DEF DecodeAbsent, AtField, Going

LEMMA DecodeNoAdditionKeeps ==
    ASSUME DecoderInv, DecodeNoAddition
    PROVE  DecoderInv' /\ Advances
<1>1. CASE Fields[C.type][Here].opt
  BY <1>1, AbsentKeeps DEF DecodeNoAddition, AtField, Going
<1>2. CASE ~Fields[C.type][Here].opt
  BY <1>2, FailKeeps DEF DecodeNoAddition
<1> QED BY <1>1, <1>2

LEMMA ReadHeaderKeeps ==
    ASSUME DecoderInv, ReadHeader
    PROVE  DecoderInv' /\ Advances
<1> DEFINE s == Slice(C.pos, C.end)
           y == HeaderBits(s, C.type)
           d == [Top(calls) EXCEPT !.extensions = "read", !.pos = s.to + 1, !.additions = y]
<1>1. Calls(calls, Size) /\ Size \in Nat /\ C = Top(calls)
  BY CallFacts DEF DecoderInv
<1>2. CASE HeaderFault(s, C.type) # "none"
  <2>1. HeaderFault(s, C.type) # "ok"
    BY DEF HeaderFault
  <2> QED BY <1>2, <2>1, FailKeeps DEF ReadHeader
<1>3. CASE HeaderFault(s, C.type) = "none"
  <2>1. s.ok
    BY <1>3 DEF HeaderFault
  <2>2. s.to \in Nat /\ C.pos <= s.to /\ s.to <= C.end
    BY <2>1, CallFacts, SliceFacts
  <2>3. calls' = Replaced(calls, d) /\ goal' = goal /\ input' = input /\ status' # "ok"
    BY <1>1, <1>3 DEF ReadHeader, SetCall, Replaced, AtField, Going
  <2> HIDE DEF s, y
  <2>4. s.to + 1 \in Nat /\ Top(calls).pos <= s.to + 1 /\ s.to + 1 <= Top(calls).end + 1
    BY <1>1, <2>2, CallFacts
  <2>5. Calls(Replaced(calls, d), Size) /\ Proceeds(calls, Replaced(calls, d))
    BY <1>1, <2>4, ReadsOn
  <2> HIDE DEF d
  <2>6. goal' \in Type \cup {Absent}
    BY <2>3 DEF DecoderInv
  <2> QED BY <2>3, <2>5, <2>6, CallsKeeps
<1> QED BY <1>2, <1>3

LEMMA DecodeAdditionKeeps ==
    ASSUME DecoderInv, DecodeAddition
    PROVE  DecoderInv' /\ Advances
<1> DEFINE s == Slice(C.pos, C.end)
           b == Moved(Top(calls), s.to + 1)
           own == TRUE
           d == CallOf("addition", C.type, s.from, s.to, C.depth, TRUE)
<1>1. Calls(calls, Size) /\ Size \in Nat /\ C = Top(calls) /\ MaxDepth \in Nat
  BY CallFacts, Limit DEF DecoderInv
<1>2. C.call \in Constructed /\ Len(C.got) < Len(C.order)
  BY DEF DecodeAddition, AtField, Going
<1>3. CASE ~s.ok
  BY <1>3, FailKeeps DEF DecodeAddition
<1>4. CASE s.ok
  <2>1. /\ s.from = C.pos + 1 /\ s.from \in Nat /\ s.to \in Nat
        /\ C.pos <= s.to /\ s.to <= C.end
    BY <1>4, CallFacts, SliceFacts
  <2>2. calls' = Append([calls EXCEPT ![Len(calls)] = b], d)
        /\ goal' = Fields[C.type][Here].type /\ input' = input /\ status' # "ok"
    BY <1>1, <1>4 DEF DecodeAddition, Top, Moved, AtField, Going
  <2>3. calls' = Pushed(Replaced(calls, b), d)
    BY <2>2 DEF Pushed, Replaced
  <2>4. d = CallOf("addition", C.type, s.from, s.to, C.depth, own) /\ own = TRUE
    OBVIOUS
  <2> HIDE DEF d, s, own
  <2>8. NewCall(d, "addition", C.type, s.from, s.to, C.depth, own)
    BY <2>4, CallOfFacts
  <2>5. CutOut(Top(calls), "addition", s.from, s.to, C.depth) /\ C.type \in Type
    BY <1>1, <1>2, <2>1, CallFacts DEF CutOut
  <2>9. b = Moved(Top(calls), s.to + 1)
    OBVIOUS
  <2> HIDE DEF b
  <2>6. Calls(Pushed(Replaced(calls, b), d), Size) /\ Proceeds(calls, Pushed(Replaced(calls, b), d))
    <3> DEFINE f == s.from
               e == s.to
               n == Size
               t == C.type
               x == C.depth
    <3>1. /\ MaxDepth \in Nat /\ n \in Nat /\ Calls(calls, n) /\ t \in Type /\ f \in Nat /\ e \in Int
          /\ NewCall(d, "addition", t, f, e, x, own) /\ CutOut(Top(calls), "addition", f, e, x)
          /\ b = Moved(Top(calls), e + 1)
      BY <1>1, <2>1, <2>5, <2>8, <2>9
    <3>2. own = TRUE
      BY DEF own
    <3> HIDE DEF f, e, n, t, x
    <3>3. Calls(Pushed(Replaced(calls, b), d), n) /\ Proceeds(calls, Pushed(Replaced(calls, b), d))
      BY ONLY <3>1, <3>2, BeginsOnOwn
    <3> QED BY <3>3 DEF n
  <2>7. goal' \in Type
    BY <1>2, <2>2, HereFacts
  <2> QED BY <2>2, <2>3, <2>6, <2>7, CallsKeeps
<1> QED BY <1>3, <1>4

LEMMA CloseAdditionKeeps ==
    ASSUME DecoderInv, CloseAddition
    PROVE  DecoderInv' /\ Advances
<1>1. /\ Calls(calls, Size) /\ Size \in Nat /\ C.call = "addition"
      /\ C = Top(calls) /\ status = "run"
  BY CallFacts DEF DecoderInv, CloseAddition, Going
<1>2. Len(calls) > 1
  <2> DEFINE m == Len(calls)
  <2>1. m \in Nat /\ m > 0 /\ m # 1
    BY <1>1, CallFacts
  <2> HIDE DEF m
  <2>2. m > 1
    BY <2>1
  <2> QED BY <2>2 DEF m
<1>3. Calls(Front(calls), Size) /\ Within(C, Top(Front(calls)))
  BY <1>1, <1>2, Ends
<1>6. C.pos <= Top(Front(calls)).pos
  <2>1. C.own /\ Top(Front(calls)).pos \in Nat
    BY <1>1, <1>3, CallFacts, TopFacts DEF CallOK, Fixed
  <2> QED BY <1>3, <2>1, CallFacts DEF Within
<1>4. Returns(C.got[1], 0, Front(calls), TRUE)
  BY DEF CloseAddition
<1> DEFINE v == C.got[1]
<1>5. Returns(v, 0, Front(calls), TRUE)
  BY <1>4
<1> HIDE DEF v
<1> QED BY <1>1, <1>2, <1>3, <1>5, <1>6, ReturnsKeeps

LEMMA DecodeListKeeps ==
    ASSUME DecoderInv, DecodeList
    PROVE  DecoderInv' /\ Advances
<1> DEFINE s == Slice(C.pos, C.end)
           x == Quantity(s)
           d == [CallOf("list", goal, s.to + 1, C.end, C.depth - 1, FALSE) EXCEPT !.left = x]
<1>1. /\ Calls(calls, Size) /\ Size \in Nat /\ C = Top(calls) /\ MaxDepth \in Nat
      /\ goal \in Type /\ Kind[goal] = "list"
  BY CallFacts, Limit DEF DecoderInv, DecodeList, Starting
<1>2. CASE Exceeds(C.depth)
  BY <1>2, FailKeeps DEF DecodeList
<1>3. CASE ~Exceeds(C.depth) /\ QuantityFault(s) # "none"
  <2>1. QuantityFault(s) # "ok"
    BY DEF QuantityFault
  <2> QED BY <1>3, <2>1, FailKeeps DEF DecodeList
<1>4. CASE ~Exceeds(C.depth) /\ QuantityFault(s) = "none"
  <2>1. s.ok
    BY <1>4 DEF QuantityFault
  <2>2. s.to \in Nat /\ C.pos <= s.to /\ s.to <= C.end
    BY <2>1, CallFacts, SliceFacts
  <2>3. calls' = Append(calls, d) /\ goal' = Absent /\ input' = input /\ status' # "ok"
    BY <1>4 DEF DecodeList, Starting
  <2>4. calls' = Pushed(calls, d)
    BY <2>3 DEF Pushed
  <2> DEFINE p == s.to + 1
  <2>5. p \in Nat /\ C.pos <= p /\ p <= C.end + 1
    BY <2>2, CallFacts
  <2>6. NewCall(d, "list", goal, p, C.end, C.depth - 1, FALSE)
    <3> DEFINE own == FALSE
    <3>1. d = Counted(CallOf("list", goal, p, C.end, C.depth - 1, own), x)
      BY DEF Counted
    <3> HIDE DEF own, d, p, x
    <3>2. NewCall(d, "list", goal, p, C.end, C.depth - 1, own)
      BY <3>1, NewCounted
    <3> QED BY <3>2 DEF own
  <2> HIDE DEF d, p
  <2>7. "list" \in CallName \ {"root", "addition"} /\ "list" \notin Constructed
    BY DEF CallName, Constructed
  <2>8. Calls(Pushed(calls, d), Size) /\ Proceeds(calls, Pushed(calls, d))
    BY <1>1, <1>4, <2>5, <2>6, <2>7, BeginsOnRest
  <2> QED BY <2>3, <2>4, <2>8, CallsKeeps
<1> QED BY <1>2, <1>3, <1>4

LEMMA DecodeItemKeeps ==
    ASSUME DecoderInv, DecodeItem
    PROVE  DecoderInv' /\ Advances
<1>1. C.type \in Type /\ Kind[C.type] = "list"
  BY CallFacts DEF CallOK, Fixed, DecodeItem, Going
<1>2. Fields[C.type][1].type \in Type
  BY <1>1, TypeFacts
<1>3. goal' \in Type \cup {Absent} /\ UNCHANGED <<input, calls>> /\ status' # "ok"
  BY <1>2 DEF DecodeItem, Going
<1> QED BY <1>3, OtherKeeps

\* An alternative of the extension root goes on in the caller's slice, one behind the
\* extension marker has a slice of its own.
LEMMA DecodeChoiceKeeps ==
    ASSUME DecoderInv, DecodeChoice
    PROVE  DecoderInv' /\ Advances
<1> DEFINE i == CHOOSE k \in Variants(goal, input[C.pos]) : TRUE
           s == Slice(C.pos + 1, C.end)
           ext == Fields[goal][i].ext
           from == IF ext THEN s.from ELSE C.pos + 1
           to == IF ext THEN s.to ELSE C.end
           d == [CallOf("choice", goal, from, to, C.depth - 1, ext) EXCEPT !.alt = i]
<1>1. /\ Calls(calls, Size) /\ Size \in Nat /\ C = Top(calls) /\ MaxDepth \in Nat
      /\ goal \in Type
  BY CallFacts, Limit DEF DecoderInv, DecodeChoice, Starting
<1>2. CASE Exceeds(C.depth) \/ C.pos > C.end \/ Variants(goal, input[C.pos]) = {} \/ (ext /\ ~s.ok)
  <2>1. \E e : e # "ok" /\ Fail(e)
    BY <1>2 DEF DecodeChoice
  <2> QED BY <2>1, FailKeeps
<1>3. CASE ~(Exceeds(C.depth) \/ C.pos > C.end \/ Variants(goal, input[C.pos]) = {} \/ (ext /\ ~s.ok))
  <2>1. i \in 1..Len(Fields[goal])
    <3>1. i \in Variants(goal, input[C.pos])
      BY <1>3
    <3> HIDE DEF i
    <3> QED BY <3>1 DEF Variants
  <2>2. /\ calls' = Append(IF ext THEN [calls EXCEPT ![Len(calls)].pos = s.to + 1] ELSE calls, d)
        /\ goal' = Fields[goal][i].type /\ input' = input /\ status' # "ok"
    BY <1>3 DEF DecodeChoice, Starting
  <2> HIDE DEF i
  <2>3. Fields[goal][i].type \in Type
    BY <1>1, <2>1, TypeFacts
  <2>4. ext \in BOOLEAN
    <3>1. Fields[goal] \in Seq(FieldDef)
      BY <1>1, OerTypesAssumption
    <3>2. Fields[goal][i] \in FieldDef
      BY <2>1, <3>1
    <3> QED BY <3>2 DEF FieldDef
  <2>5. d = Chosen(CallOf("choice", goal, from, to, C.depth - 1, ext), i)
    BY DEF Chosen
  <2> HIDE DEF d, from, to, ext, s
  <2>6. NewCall(d, "choice", goal, from, to, C.depth - 1, ext)
    BY <2>5, NewChosen
  <2>7. goal' \in Type \cup {Absent}
    BY <2>2, <2>3
  <2> DEFINE n == Size
             x == C.depth - 1
  <2>8. CASE ext
    <3> DEFINE b == Moved(Top(calls), to + 1)
    <3>1. from = s.from /\ to = s.to
      BY <2>8 DEF from, to
    <3>2. /\ s.from = C.pos + 2 /\ s.from \in Nat /\ s.to \in Nat /\ C.pos + 1 <= s.to /\ s.to <= C.end
      <4>1. s.ok
        BY <1>3, <2>8
      <4>2. C.pos + 1 \in Nat /\ C.pos + 1 >= 1 /\ C.end \in Nat /\ C.end <= Size /\ C.pos \in Nat
        BY CallFacts
      <4> DEFINE p == C.pos + 1
      <4>3. s = Slice(p, C.end) /\ p \in Nat /\ p >= 1
        BY <4>2 DEF s
      <4> HIDE DEF p
      <4>4. s.from = p + 1 /\ s.from \in Nat /\ s.to \in Nat /\ p <= s.to /\ s.to <= C.end
        BY <4>1, <4>2, <4>3, SliceFacts
      <4> QED BY <4>2, <4>4 DEF p
    <3>3. CutOut(Top(calls), "choice", from, to, x) /\ from \in Nat /\ to \in Int
      BY <1>1, <1>3, <3>1, <3>2, CallFacts DEF CutOut
    <3>4. calls' = Pushed(Replaced(calls, b), d)
      BY <2>2, <2>8, <3>1 DEF Pushed, Replaced, Moved, Top
    <3>5. b = Moved(Top(calls), to + 1) /\ ext = TRUE /\ NewCall(d, "choice", goal, from, to, x, ext)
      BY <2>4, <2>6, <2>8
    <3>6. n \in Nat /\ Calls(calls, n)
      BY <1>1
    <3> HIDE DEF b, n, x
    <3>7. Calls(Pushed(Replaced(calls, b), d), n) /\ Proceeds(calls, Pushed(Replaced(calls, b), d))
      BY ONLY <1>1, <3>3, <3>5, <3>6, BeginsOnOwn
    <3> QED BY <2>2, <2>7, <3>4, <3>7, CallsKeeps DEF n
  <2>9. CASE ~ext
    <3>1. from = C.pos + 1 /\ to = C.end
      BY <2>9 DEF from, to
    <3>2. from \in Nat /\ Top(calls).pos <= from /\ from <= Top(calls).end + 1
      BY <1>1, <1>3, <3>1, CallFacts
    <3>3. NewCall(d, "choice", goal, from, Top(calls).end, Top(calls).depth - 1, FALSE)
      BY <1>1, <2>4, <2>6, <2>9, <3>1
    <3>4. "choice" \in CallName \ {"root", "addition"} /\ "choice" \notin Constructed
      BY DEF CallName, Constructed
    <3>5. Calls(Pushed(calls, d), Size) /\ Proceeds(calls, Pushed(calls, d))
      BY <1>1, <1>3, <3>2, <3>3, <3>4, BeginsOnRest
    <3>6. calls' = Pushed(calls, d)
      BY <2>2, <2>9 DEF Pushed
    <3> QED BY <2>2, <2>7, <3>5, <3>6, CallsKeeps
  <2> QED BY <2>4, <2>8, <2>9
<1> QED BY <1>2, <1>3

LEMMA CloseKeeps ==
    ASSUME DecoderInv, Close
    PROVE  DecoderInv' /\ Advances
<1> DEFINE v == Decoded(C.type, C.alt, Placed(C))
<1>1. /\ Calls(calls, Size) /\ Size \in Nat /\ C = Top(calls)
      /\ C.call \in Constructed \cup {"list", "choice"}
      /\ Returns(v, C.pos, Front(calls), C.own) /\ status = "run"
  BY CallFacts DEF DecoderInv, Close, Going
<1> HIDE DEF v
<1>2. Len(calls) > 1
  <2> DEFINE m == Len(calls)
  <2>1. m \in Nat /\ m > 0 /\ m # 1
    BY <1>1, CallFacts DEF Constructed
  <2> HIDE DEF m
  <2>2. m > 1
    BY <2>1
  <2> QED BY <2>2 DEF m
<1>3. Calls(Front(calls), Size) /\ Within(C, Top(Front(calls)))
  BY <1>1, <1>2, Ends
<1>4. C.own \in BOOLEAN
  BY CallFacts DEF CallOK, Fixed
<1>5. ~C.own => C.pos \in Nat /\ Top(Front(calls)).pos <= C.pos /\ C.pos <= Top(Front(calls)).end + 1
  BY <1>3, CallFacts DEF Within
<1>6. C.pos <= IF C.own THEN Top(Front(calls)).pos ELSE C.pos
  <2>1. Top(Front(calls)).pos \in Nat
    BY <1>1, <1>3, TopFacts
  <2> QED BY <1>3, <1>4, <2>1, CallFacts DEF Within
<1> QED BY <1>1, <1>2, <1>3, <1>4, <1>5, <1>6, ReturnsKeeps

-----------------------------------------------------------------------------

LEMMA InitKeeps == Init => DecoderInv
<1> SUFFICES ASSUME Init PROVE DecoderInv
  OBVIOUS
<1>1. input \in Inputs /\ goal \in Type /\ calls = Outermost(goal, Size)
  BY DEF Init, Size
<1>2. Size \in Nat /\ MaxDepth \in Nat
  BY <1>1, InputFacts, Limit
<1>3. Calls(calls, Size)
  BY <1>1, <1>2, Starts
<1> QED BY <1>1, <1>3 DEF DecoderInv

LEMMA StepKeeps ==
    ASSUME DecoderInv, Step
    PROVE  DecoderInv' /\ Advances
BY DecodePrimitiveKeeps, DecodeConstructedKeeps, DecodeFieldKeeps, DecodeAbsentKeeps,
   ReadHeaderKeeps, DecodeAdditionKeeps, DecodeNoAdditionKeeps, CloseAdditionKeeps,
   DecodeListKeeps, DecodeItemKeeps, DecodeChoiceKeeps, CloseKeeps DEF Step

LEMMA NextKeeps == DecoderInv /\ [Next]_vars => DecoderInv'
<1> SUFFICES ASSUME DecoderInv, [Next]_vars PROVE DecoderInv'
  OBVIOUS
<1>1. CASE Stop \/ UNCHANGED vars
  BY <1>1 DEF Stop, vars, DecoderInv, Size
<1>2. CASE Step
  BY <1>2, StepKeeps
<1> QED BY <1>1, <1>2 DEF Next

\* coer::decode of any octets as any type never reads outside the slice of the call
\* under way, the slices nest, and the depth limit bounds how many there are.
THEOREM SlicesCorrect == Spec => []SlicesNest
<1>1. DecoderInv => SlicesNest
  <2> SUFFICES ASSUME DecoderInv PROVE SlicesNest
    OBVIOUS
  <2>1. Nests(calls, Size)
    BY CallFacts, Limit, CallsNest DEF DecoderInv
  <2> QED BY <2>1 DEF SlicesNest, Size
<1> QED BY <1>1, InitKeeps, NextKeeps, PTL DEF Spec

\* coer::decode of any octets as any type goes forwards: what a call has read is read
\* again neither by the call it begins nor by its caller, the calls that go on keep
\* their slices and what they have decoded, and only the outermost reports success.
THEOREM ForwardCorrect == Spec => ReadsForward
<1>1. ASSUME DecoderInv, [Next]_vars
      PROVE  [status = "run" => Proceeds(calls, calls') /\ (status' = "ok" => Len(calls') = 1)]_vars
  <2>1. CASE UNCHANGED vars
    BY <2>1
  <2>2. CASE Stop
    BY <2>2 DEF Stop
  <2>3. CASE Step
    BY <1>1, <2>3, StepKeeps DEF Advances
  <2> QED BY <1>1, <2>1, <2>2, <2>3 DEF Next
<1> QED BY <1>1, InitKeeps, NextKeeps, PTL DEF Spec, ReadsForward
=============================================================================
