-------------------------- MODULE PerDecoder_proofs --------------------------
(***************************************************************************)
(* decode in both variants of the packed encoding rules keeps to the       *)
(* slices it was given, whatever the type and whatever the bits: ReadsNest *)
(* is an invariant.  The inductive invariant is what CallStack_proofs says *)
(* of the calls under way; what is added here is how far a length, a       *)
(* count, an index and the padding can lead.  No bit is read by two calls: *)
(* every step is one of ReadsForward.                                      *)
(***************************************************************************)
EXTENDS PerDecoder, CallStack_proofs

Size == Len(input)
DecoderInv ==
    /\ aligned \in BOOLEAN
    /\ input \in Inputs
    /\ goal \in Type \cup {Absent}
    /\ Calls(calls, Size)

\* A step of ReadsForward
Advances == Proceeds(calls, calls') /\ (status' = "ok" => Len(calls') = 1)

-----------------------------------------------------------------------------

LEMMA Limit == MaxDepth \in Nat
BY PerTypesAssumption

LEMMA InputFacts ==
    ASSUME input \in Inputs
    PROVE  input \in Seq(Bit) /\ Size \in Nat
<1>1. input \in Seq(Bit)
  BY PerTypesAssumption
<1> QED BY <1>1 DEF Size

\* The fields of a type
LEMMA TypeFacts ==
    ASSUME NEW t \in Type
    PROVE  /\ Declared(t)
           /\ \A i \in 1..Len(Fields[t]) : Fields[t][i].type \in Type
           /\ Kind[t] = "list" => Len(Fields[t]) = 1
<1>1. Fields[t] \in Seq(FieldDef) /\ (Kind[t] = "list" => Len(Fields[t]) = 1)
  BY PerTypesAssumption
<1>2. ASSUME NEW i \in 1..Len(Fields[t])
      PROVE  Fields[t][i].type \in Type /\ Fields[t][i].tag \in Nat
  <2>1. Fields[t][i] \in FieldDef
    BY <1>1
  <2> QED BY <2>1 DEF FieldDef
<1>3. Kind[t] = "set" => \A i, j \in 1..Len(Fields[t]) : i # j => Fields[t][i].tag # Fields[t][j].tag
  BY PerTypesAssumption
<1> QED BY <1>1, <1>2, <1>3 DEF Declared

\* The innermost call
LEMMA CallFacts ==
    ASSUME DecoderInv
    PROVE  /\ Size \in Nat /\ CallOK(C) /\ C = Top(calls)
           /\ C.pos \in Nat /\ C.pos >= 1 /\ C.end \in Nat /\ C.pos <= C.end + 1 /\ C.end <= Size
           /\ C.type \in Type /\ C.depth \in 0..MaxDepth
           /\ C.call = "root" <=> Len(calls) = 1
           /\ Len(calls) \in Nat /\ Len(calls) > 0
<1>1. Size \in Nat /\ Calls(calls, Size) /\ C = Top(calls)
  BY InputFacts DEF DecoderInv, C
<1>2. CallOK(C)
  BY <1>1, TopFacts
<1>3. C.type \in Type /\ C.depth \in 0..MaxDepth
  BY <1>2 DEF CallOK, Fixed
<1> QED BY <1>1, <1>2, <1>3, TopFacts

\* The field that is next
LEMMA HereFacts ==
    ASSUME DecoderInv, C.call \in Constructed, Len(C.got) < Len(C.order)
    PROVE  Fields[C.type][Here].type \in Type
<1> DEFINE c == C
<1>1. /\ c.type \in Type
      /\ IsSeq(c.order) /\ \A k \in 1..Len(c.order) : c.order[k] \in 1..Len(Fields[c.type])
      /\ IsSeq(c.got)
  BY CallFacts DEF CallOK, Fixed
<1>2. Len(c.got) \in Nat /\ Len(c.order) \in Nat
  BY <1>1, LenNat
<1>3. Len(c.got) + 1 \in 1..Len(c.order)
  BY <1>2
<1>4. Here \in 1..Len(Fields[c.type])
  BY <1>1, <1>3 DEF Here
<1> QED BY <1>1, <1>4, TypeFacts

\* The type of a field, and whether it is an extension addition
LEMMA FieldFacts ==
    ASSUME NEW t \in Type, NEW i \in 1..Len(Fields[t])
    PROVE  Fields[t][i].type \in Type /\ Fields[t][i].ext \in BOOLEAN
<1>1. Fields[t] \in Seq(FieldDef)
  BY PerTypesAssumption
<1>2. Fields[t][i] \in FieldDef
  BY <1>1
<1> QED BY <1>2 DEF FieldDef

-----------------------------------------------------------------------------

\* The values of the first k of the bits at p
Built(g, k, p) ==
    /\ g \in [0..k -> Nat]
    /\ g[0] = 0
    /\ \A i \in 1..k : g[i] = 2 * g[i - 1] + input[p + i - 1]
Numbers(f, p, w) == f = [i \in 0..w |-> IF i = 0 THEN 0 ELSE 2 * f[i - 1] + input[p + i - 1]]
AllBits(p, w) == \A i \in 1..w : input[p + i - 1] \in Nat

LEMMA BuildOne ==
    ASSUME NEW p \in Nat, NEW k \in Nat, NEW g, Built(g, k, p), input[p + k] \in Nat
    PROVE  \E h : Built(h, k + 1, p)
<1> DEFINE x == 2 * g[k] + input[p + k]
           h == [i \in 0..(k + 1) |-> IF i = k + 1 THEN x ELSE g[i]]
<1>1. g \in [0..k -> Nat] /\ g[0] = 0 /\ k \in 0..k
  BY DEF Built
<1>2. x \in Nat
  BY <1>1
<1>3. h \in [0..(k + 1) -> Nat]
  <2> SUFFICES ASSUME NEW i \in 0..(k + 1) PROVE (IF i = k + 1 THEN x ELSE g[i]) \in Nat
    OBVIOUS
  <2>1. i = k + 1 \/ i \in 0..k
    OBVIOUS
  <2> HIDE DEF x
  <2> QED BY <1>1, <1>2, <2>1
<1>4. h[0] = 0
  BY <1>1
<1>5. ASSUME NEW i \in 1..(k + 1) PROVE h[i] = 2 * h[i - 1] + input[p + i - 1]
  <2>1. CASE i = k + 1
    <3>1. h[i] = x /\ h[i - 1] = g[k] /\ p + i - 1 = p + k
      BY <2>1
    <3> QED BY <3>1
  <2>2. CASE i \in 1..k
    <3>1. h[i] = g[i] /\ h[i - 1] = g[i - 1]
      BY <2>2
    <3>2. g[i] = 2 * g[i - 1] + input[p + i - 1]
      BY <2>2 DEF Built
    <3> QED BY <3>1, <3>2
  <2> QED BY <2>1, <2>2
<1> HIDE DEF h
<1>6. Built(h, k + 1, p)
  BY <1>3, <1>4, <1>5 DEF Built
<1> QED BY <1>6

LEMMA NumbersExist ==
    ASSUME NEW p \in Nat, NEW w \in Nat, AllBits(p, w)
    PROVE  \E f : Numbers(f, p, w)
<1> DEFINE S == {k \in Nat : k <= w => \E g : Built(g, k, p)}
<1>1. 0 \in S
  <2>1. Built([i \in 0..0 |-> 0], 0, p)
    BY DEF Built
  <2> QED BY <2>1
<1>2. ASSUME NEW k \in Nat, k \in S PROVE k + 1 \in S
  <2>1. ASSUME k + 1 <= w PROVE \E g : Built(g, k + 1, p)
    <3>1. PICK g : Built(g, k, p)
      BY <1>2, <2>1
    <3>2. input[p + k] \in Nat
      <4>1. k + 1 \in 1..w /\ p + (k + 1) - 1 = p + k
        BY <2>1
      <4> QED BY <4>1 DEF AllBits
    <3> QED BY <3>1, <3>2, BuildOne
  <2> QED BY <2>1
<1>3. w \in S
  <2> HIDE DEF S
  <2> QED BY <1>1, <1>2, InductionOnNat
<1>4. PICK g : Built(g, w, p)
  BY <1>3
<1>5. ASSUME NEW i \in 0..w PROVE g[i] = IF i = 0 THEN 0 ELSE 2 * g[i - 1] + input[p + i - 1]
  <2>1. i = 0 \/ i \in 1..w
    OBVIOUS
  <2> QED BY <1>4, <2>1 DEF Built
<1>6. g = [i \in 0..w |-> g[i]]
  BY <1>4 DEF Built
<1>7. g = [i \in 0..w |-> IF i = 0 THEN 0 ELSE 2 * g[i - 1] + input[p + i - 1]]
  BY <1>5, <1>6
<1> QED BY <1>7 DEF Numbers

\* take gives a natural number.
LEMMA NumberType ==
    ASSUME NEW p \in Nat, NEW w \in Nat, AllBits(p, w)
    PROVE  Number(p, w) \in Nat
<1> DEFINE f == CHOOSE f : Numbers(f, p, w)
           S == {k \in Nat : k <= w => f[k] \in Nat}
<1>1. Numbers(f, p, w)
  BY NumbersExist
<1>2. Number(p, w) = f[w]
  BY DEF Number, Numbers
<1> HIDE DEF f
<1>3. f = [i \in 0..w |-> IF i = 0 THEN 0 ELSE 2 * f[i - 1] + input[p + i - 1]]
  BY <1>1 DEF Numbers
<1>4. 0 \in S
  BY <1>3
<1>5. ASSUME NEW k \in Nat, k \in S PROVE k + 1 \in S
  <2>1. ASSUME k + 1 <= w PROVE f[k + 1] \in Nat
    <3>1. f[k] \in Nat
      BY <1>5, <2>1
    <3>2. k + 1 \in 1..w /\ k + 1 \in 0..w /\ k + 1 # 0 /\ (k + 1) - 1 = k
      BY <2>1
    <3>3. f[k + 1] = 2 * f[(k + 1) - 1] + input[p + (k + 1) - 1]
      BY <1>3, <3>2
    <3>4. input[p + (k + 1) - 1] \in Nat
      BY <3>2 DEF AllBits
    <3> DEFINE x == input[p + (k + 1) - 1]
               y == f[k]
    <3>5. f[k + 1] = 2 * y + x /\ x \in Nat /\ y \in Nat
      BY <3>1, <3>2, <3>3, <3>4
    <3> HIDE DEF x, y
    <3> QED BY <3>5
  <2> QED BY <2>1
<1>6. w \in S
  <2> HIDE DEF S
  <2> QED BY <1>4, <1>5, InductionOnNat
<1> QED BY <1>2, <1>6

\* The bits of a slice
LEMMA HasBits ==
    ASSUME DecoderInv, NEW p \in Nat, p >= 1, NEW w \in Nat, NEW end \in Nat, end <= Size, Has(p, w, end)
    PROVE  AllBits(p, w) /\ Number(p, w) \in Nat
<1>1. input \in Seq(Bit) /\ Size \in Nat
  BY InputFacts DEF DecoderInv
<1>2. ASSUME NEW i \in 1..w PROVE input[p + i - 1] \in Nat
  <2>1. p + i - 1 \in 1..Size
    BY <1>1 DEF Has
  <2>2. input[p + i - 1] \in Bit
    BY <1>1, <2>1 DEF Size
  <2> QED BY <2>2 DEF Bit
<1>3. AllBits(p, w)
  BY <1>2 DEF AllBits
<1> QED BY <1>3, NumberType

-----------------------------------------------------------------------------

\* A place in a slice from which to read on, and one at or behind another
Place(p, end) == p \in Nat /\ p >= 1 /\ end \in Nat /\ p <= end + 1 /\ end <= Size

\* Padding stays in the slice.
LEMMA PaddedFacts ==
    ASSUME NEW p, NEW end, Place(p, end)
    PROVE  Place(Padded(p, end), end) /\ p <= Padded(p, end)
<1>1. p \in Nat /\ p >= 1 /\ end \in Nat /\ p <= end + 1
  BY DEF Place
<1>2. (end + 1 - p) % 8 \in Nat /\ (end + 1 - p) % 8 <= end + 1 - p
  <2> DEFINE x == end + 1 - p
  <2>1. x \in Nat
    BY <1>1
  <2> HIDE DEF x
  <2>2. x % 8 \in Nat /\ x % 8 <= x
    BY <2>1
  <2> QED BY <2>2 DEF x
<1>3. Padded(p, end) \in Nat /\ p <= Padded(p, end) /\ Padded(p, end) <= end + 1
  BY <1>1, <1>2 DEF Padded
<1> QED BY <1>1, <1>3 DEF Place

LEMMA LengthFacts ==
    ASSUME DecoderInv, NEW at, NEW end, Place(at, end), Length(at, end).ok
    PROVE  /\ Place(Length(at, end).next, end) /\ at < Length(at, end).next
           /\ Length(at, end).count \in Nat
<1> DEFINE p == Padded(at, end)
           n == Length(at, end)
<1>1. Place(p, end) /\ at <= p /\ at \in Nat
  BY PaddedFacts DEF Place
<1>2. n = IF Has(p, 8, end) /\ input[p] = 0
          THEN [ok |-> TRUE, count |-> Number(p + 1, 7), next |-> p + 8]
          ELSE IF Has(p, 16, end) /\ input[p + 1] = 0
          THEN [ok |-> TRUE, count |-> Number(p + 2, 14), next |-> p + 16]
          ELSE [ok |-> FALSE, count |-> 0, next |-> p]
  BY DEF Length
<1> HIDE DEF p
<1>3. p \in Nat /\ p >= 1 /\ end \in Nat /\ p <= end + 1 /\ end <= Size
  BY <1>1 DEF Place
<1>4. CASE Has(p, 8, end) /\ input[p] = 0
  <2>1. n.count = Number(p + 1, 7) /\ n.next = p + 8
    BY <1>2, <1>4
  <2>2. p + 8 <= end + 1
    BY <1>4 DEF Has
  <2>3. Has(p + 1, 7, end)
    BY <1>3, <2>2 DEF Has
  <2>4. Number(p + 1, 7) \in Nat
    <3>1. p + 1 \in Nat /\ p + 1 >= 1
      BY <1>3
    <3> QED BY <1>3, <2>3, <3>1, HasBits
  <2>5. p + 8 \in Nat /\ p + 8 >= 1 /\ at < p + 8
    BY <1>1, <1>3
  <2> QED BY <1>3, <2>1, <2>2, <2>4, <2>5 DEF Place
<1>5. CASE ~(Has(p, 8, end) /\ input[p] = 0) /\ Has(p, 16, end) /\ input[p + 1] = 0
  <2>1. n.count = Number(p + 2, 14) /\ n.next = p + 16
    BY <1>2, <1>5
  <2>2. p + 16 <= end + 1
    BY <1>5 DEF Has
  <2>3. Has(p + 2, 14, end)
    BY <1>3, <2>2 DEF Has
  <2>4. Number(p + 2, 14) \in Nat
    <3>1. p + 2 \in Nat /\ p + 2 >= 1
      BY <1>3
    <3> QED BY <1>3, <2>3, <3>1, HasBits
  <2>5. p + 16 \in Nat /\ p + 16 >= 1 /\ at < p + 16
    BY <1>1, <1>3
  <2> QED BY <1>3, <2>1, <2>2, <2>4, <2>5 DEF Place
<1>6. CASE ~(Has(p, 8, end) /\ input[p] = 0) /\ ~(Has(p, 16, end) /\ input[p + 1] = 0)
  <2>1. n.ok = FALSE
    BY <1>2, <1>6
  <2> QED BY <2>1
<1> QED BY <1>4, <1>5, <1>6

\* A value is returned to the calls cs.
LEMMA ReturnsKeeps ==
    ASSUME DecoderInv, status = "run",
           NEW cs, Calls(cs, Size), cs = calls \/ (cs = Front(calls) /\ Len(calls) > 1),
           NEW v, NEW pos, NEW own \in BOOLEAN,
           ~own => pos \in Nat /\ Top(cs).pos <= pos /\ pos <= Top(cs).end + 1,
           C.pos <= IF own THEN Top(cs).pos ELSE pos,
           Returns(v, pos, cs, own)
    PROVE  DecoderInv' /\ Advances
<1> DEFINE d == Received(Top(cs), v, own, pos)
<1>1. goal' = Absent /\ aligned' = aligned /\ input' = input /\ calls' = [cs EXCEPT ![Len(cs)] = d]
  BY DEF Returns, Received
<1>2. calls' = Replaced(cs, d)
  BY <1>1 DEF Replaced
<1>3. /\ Calls(Replaced(cs, d), Size) /\ Proceeds(cs, Replaced(cs, d))
      /\ Len(Replaced(cs, d)) = Len(cs) /\ Top(Replaced(cs, d)) = d
  BY CallFacts, Receives
<1>4. Top(cs).call = "root" <=> Len(cs) = 1
  BY CallFacts, TopFacts
<1>5. status' = "ok" => Len(cs) = 1
  BY <1>4 DEF Returns
<1>6. Top(calls).pos <= d.pos
  <2>1. CallOK(Top(cs))
    BY CallFacts, TopFacts
  <2>2. d.pos = IF own THEN Top(cs).pos ELSE pos
    BY <2>1 DEF CallOK, Fixed, CallField, Received
  <2> QED BY <2>2 DEF C
<1> HIDE DEF d
<1>7. Proceeds(calls, calls')
  <2>1. CASE cs = calls
    BY <1>2, <1>3, <2>1
  <2>2. CASE cs = Front(calls) /\ Len(calls) > 1
    <3>1. Calls(calls, Size) /\ Size \in Nat
      BY CallFacts DEF DecoderInv
    <3> DEFINE q == Replaced(cs, d)
               n == Size
    <3>2. /\ n \in Nat /\ Calls(calls, n) /\ Calls(q, n) /\ Proceeds(cs, q) /\ Len(q) = Len(cs)
          /\ Top(calls).pos <= Top(q).pos
      BY <1>3, <1>6, <3>1
    <3> HIDE DEF q, n
    <3>3. Proceeds(calls, q)
      BY <2>2, <3>2, ProceedsBehind
    <3> QED BY <1>2, <3>3 DEF q
  <2> QED BY <2>1, <2>2
<1>8. Size' = Size
  BY <1>1 DEF Size
<1>9. Calls(calls', Size') /\ Len(calls') = Len(cs)
  BY <1>2, <1>3, <1>8
<1> QED BY <1>1, <1>5, <1>7, <1>9 DEF DecoderInv, Advances

\* A step that leaves the calls, and one that changes them
LEMMA OtherKeeps ==
    ASSUME DecoderInv, UNCHANGED <<aligned, input, calls>>, goal' \in Type \cup {Absent}, status' # "ok"
    PROVE  DecoderInv' /\ Advances
<1>1. Calls(calls, Size) /\ Size \in Nat
  BY CallFacts DEF DecoderInv
<1>2. Proceeds(calls, calls)
  BY <1>1, ProceedsNowhere
<1>3. Proceeds(calls, calls')
  BY <1>2
<1> QED BY <1>3 DEF DecoderInv, Size, Advances

LEMMA CallsKeeps ==
    ASSUME DecoderInv, UNCHANGED <<aligned, input>>, goal' \in Type \cup {Absent}, status' # "ok",
           NEW cs, calls' = cs, Calls(cs, Size), Proceeds(calls, cs)
    PROVE  DecoderInv' /\ Advances
BY DEF DecoderInv, Size, Advances

LEMMA FailKeeps ==
    ASSUME DecoderInv, NEW e, e # "ok", Fail(e)
    PROVE  DecoderInv' /\ Advances
BY OtherKeeps DEF Fail, DecoderInv

-----------------------------------------------------------------------------

\* Octets behind a length are in the slice, and are not before the length.
LEMMA OctetsFacts ==
    ASSUME DecoderInv, NEW at, NEW end, Place(at, end), Octets(at, end).ok
    PROVE  /\ Octets(at, end).from \in Nat /\ Octets(at, end).to \in Int
           /\ at < Octets(at, end).from /\ Octets(at, end).from <= Octets(at, end).to + 1
           /\ Octets(at, end).to <= end
<1> DEFINE n == Length(at, end)
           s == Octets(at, end)
<1>1. n.ok /\ Has(n.next, 8 * n.count, end) /\ s.from = n.next /\ s.to = n.next + 8 * n.count - 1
  BY DEF Octets
<1>2. Place(n.next, end) /\ at < n.next /\ n.count \in Nat
  BY <1>1, LengthFacts
<1> HIDE DEF n, s
<1> DEFINE x == n.next
           k == n.count
<1>3. x \in Nat /\ end \in Nat /\ at \in Nat /\ at < x /\ k \in Nat
  BY <1>2 DEF Place
<1>4. x + 8 * k <= end + 1 /\ s.from = x /\ s.to = x + 8 * k - 1
  BY <1>1 DEF Has
<1> HIDE DEF x, k
<1>5. s.from \in Nat /\ s.to \in Int /\ at < s.from /\ s.from <= s.to + 1 /\ s.to <= end
  BY <1>3, <1>4
<1> QED BY <1>5 DEF s

LEMMA SmallLengthFacts ==
    ASSUME DecoderInv, NEW p, NEW end, Place(p, end), SmallLength(p, end).ok
    PROVE  /\ Place(SmallLength(p, end).next, end) /\ p < SmallLength(p, end).next
           /\ SmallLength(p, end).count \in Nat
<1> DEFINE n == SmallLength(p, end)
<1>1. p \in Nat /\ p >= 1 /\ end \in Nat /\ p <= end + 1 /\ end <= Size
  BY DEF Place
<1>2. Has(p, 1, end)
  BY DEF SmallLength
<1>3. CASE input[p] = 1
  <2>1. n = Length(p + 1, end)
    BY <1>2, <1>3 DEF SmallLength
  <2> DEFINE q == p + 1
  <2>2. Place(q, end) /\ p < q /\ q \in Nat
    BY <1>1, <1>2 DEF Place, Has
  <2> HIDE DEF q
  <2>3. n = Length(q, end)
    BY <2>1 DEF q
  <2>4. Place(n.next, end) /\ q < n.next /\ n.count \in Nat
    BY <2>2, <2>3, LengthFacts
  <2> HIDE DEF n
  <2>5. p < n.next
    BY <1>1, <2>2, <2>4 DEF Place
  <2> QED BY <2>4, <2>5 DEF n
<1>4. CASE input[p] # 1
  <2>1. /\ n.ok = Has(p, 7, end) /\ n.next = p + 7
        /\ n.count = IF Has(p, 7, end) THEN Number(p + 1, 6) ELSE 0
    BY <1>2, <1>4 DEF SmallLength
  <2>2. Has(p, 7, end) /\ p + 7 <= end + 1 /\ n.count = Number(p + 1, 6)
    BY <2>1 DEF Has
  <2>3. Has(p + 1, 6, end) /\ p + 1 \in Nat /\ p + 1 >= 1
    BY <1>1, <2>2 DEF Has
  <2>4. Number(p + 1, 6) \in Nat
    BY <1>1, <2>3, HasBits
  <2>5. p + 7 \in Nat /\ p + 7 >= 1 /\ p < p + 7
    BY <1>1
  <2> HIDE DEF n
  <2>6. Place(n.next, end) /\ p < n.next /\ n.count \in Nat
    BY <1>1, <2>1, <2>2, <2>4, <2>5 DEF Place
  <2> QED BY <2>6 DEF n
<1> QED BY <1>3, <1>4

LEMMA Log2Type ==
    ASSUME NEW range \in Nat
    PROVE  Log2(range) \in Nat
<1> DEFINE W == 0..(range - 1)
           S == {w \in W : 2^w < range}
<1>1. IsFiniteSet(W)
  BY FS_Interval
<1>2. S \subseteq W
  OBVIOUS
<1> HIDE DEF W, S
<1>3. Cardinality(S) \in Nat
  BY <1>1, <1>2, FS_Subset, FS_CardinalityType
<1> QED BY <1>3 DEF Log2, S, W

LEMMA MarkedType ==
    ASSUME NEW t \in Type
    PROVE  Marked(t) \in 0..1 /\ Extensible[t] \in BOOLEAN /\ (Extensible[t] => Marked(t) = 1)
BY PerTypesAssumption DEF Marked

LEMMA CountFacts ==
    ASSUME DecoderInv, NEW t \in Type, NEW p, NEW end, Place(p, end), Count(t, p, end).ok
    PROVE  Place(Count(t, p, end).next, end) /\ p <= Count(t, p, end).next
<1> DEFINE n == Count(t, p, end)
           w == Log2(Bound[t] + 1)
           m == Marked(t)
           q == p + m
<1>1. p \in Nat /\ p >= 1 /\ end \in Nat /\ p <= end + 1 /\ end <= Size
  BY DEF Place
<1>2. m \in Nat
  BY MarkedType
<1>3. w \in Nat
  <2>1. Bound[t] + 1 \in Nat
    <3>1. Bound[t] \in 0..8
      BY PerTypesAssumption
    <3> QED BY <3>1
  <2> QED BY <2>1, Log2Type
<1>4. Has(p, m, end) /\ \/ n = Length(q, end)
                        \/ n = [ok |-> Has(q, w, end),
                                count |-> IF Has(q, w, end) THEN Number(q, w) ELSE 0,
                                next |-> Padded(q + w, end)]
  BY DEF Count
<1> HIDE DEF w, m
<1>5. Place(q, end) /\ p <= q /\ q \in Nat
  BY <1>1, <1>2, <1>4 DEF Place, Has
<1> HIDE DEF q
<1>6. CASE n = Length(q, end)
  <2>1. Place(n.next, end) /\ q < n.next
    BY <1>5, <1>6, LengthFacts
  <2> HIDE DEF n
  <2>2. Place(n.next, end) /\ p <= n.next
    BY <1>1, <1>5, <2>1 DEF Place
  <2> QED BY <2>2 DEF n
<1>7. CASE n = [ok |-> Has(q, w, end),
                count |-> IF Has(q, w, end) THEN Number(q, w) ELSE 0,
                next |-> Padded(q + w, end)]
  <2> DEFINE r == q + w
  <2>1. Has(q, w, end) /\ n.next = Padded(r, end)
    BY <1>7
  <2>2. Place(r, end) /\ p <= r /\ r \in Nat
    BY <1>1, <1>3, <1>5, <2>1 DEF Place, Has
  <2> HIDE DEF r, n
  <2>3. Place(Padded(r, end), end) /\ r <= Padded(r, end)
    BY <2>2, PaddedFacts
  <2>4. Place(n.next, end) /\ p <= n.next
    BY <1>1, <2>1, <2>2, <2>3 DEF Place
  <2> QED BY <2>4 DEF n
<1> QED BY <1>4, <1>6, <1>7

LEMMA RootIndexFacts ==
    ASSUME DecoderInv, NEW t \in Type, NEW p, NEW end, Place(p, end), RootIndex(t, p, end).ok
    PROVE  /\ Place(RootIndex(t, p, end).next, end) /\ p <= RootIndex(t, p, end).next
           /\ RootIndex(t, p, end).alts \subseteq 1..Len(Fields[t])
<1> DEFINE w == Log2(Cardinality(RootFields(t)))
           n == RootIndex(t, p, end)
<1>1. w \in Nat
  <2>1. Cardinality(RootFields(t)) \in Nat
    BY TypeFacts, FieldsFinite
  <2> QED BY <2>1, Log2Type
<1>2. Has(p, w, end) /\ n.next = p + w /\ n.alts = At(t, FALSE, Number(p, w))
  BY DEF RootIndex
<1> HIDE DEF w, n
<1>3. n.alts \subseteq 1..Len(Fields[t])
  BY <1>2 DEF At, Indices, RootFields
<1>4. Place(n.next, end) /\ p <= n.next
  BY <1>1, <1>2 DEF Place, Has
<1> QED BY <1>3, <1>4 DEF n

LEMMA ExtIndexFacts ==
    ASSUME DecoderInv, NEW t \in Type, NEW p, NEW end, Place(p, end), ExtIndex(t, p, end).ok
    PROVE  /\ Place(ExtIndex(t, p, end).next, end) /\ p <= ExtIndex(t, p, end).next
           /\ ExtIndex(t, p, end).alts \subseteq 1..Len(Fields[t])
<1> DEFINE n == ExtIndex(t, p, end)
           q == p + 1
           s == Octets(q, end)
<1>1. p \in Nat /\ p >= 1 /\ end \in Nat /\ p <= end + 1 /\ end <= Size
  BY DEF Place
<1>2. Has(p, 1, end)
  BY DEF ExtIndex
<1>3. n.alts \subseteq ExtFields(t)
  BY DEF ExtIndex, At, Indices
<1>4. n.alts \subseteq 1..Len(Fields[t])
  BY <1>3 DEF ExtFields
<1>5. CASE input[p] = 1
  <2>1. n.ok = s.ok /\ n.next = s.to + 1
    BY <1>2, <1>5 DEF ExtIndex
  <2>2. Place(q, end) /\ q \in Nat
    BY <1>1, <1>2 DEF Place, Has
  <2>3. s.ok
    BY <2>1
  <2> HIDE DEF q
  <2>4. s.from \in Nat /\ s.to \in Int /\ q < s.from /\ s.from <= s.to + 1 /\ s.to <= end
    BY <2>2, <2>3, OctetsFacts
  <2> HIDE DEF n, s
  <2>5. Place(n.next, end) /\ p <= n.next
    BY <1>1, <2>1, <2>4 DEF Place, q
  <2> QED BY <1>4, <2>5 DEF n
<1>6. CASE input[p] # 1
  <2>1. n.ok = Has(p, 7, end) /\ n.next = p + 7
    BY <1>2, <1>6 DEF ExtIndex
  <2>2. p + 7 <= end + 1
    BY <2>1 DEF Has
  <2> HIDE DEF n
  <2>3. Place(n.next, end) /\ p <= n.next
    BY <1>1, <2>1, <2>2 DEF Place
  <2> QED BY <1>4, <2>3 DEF n
<1> QED BY <1>5, <1>6

-----------------------------------------------------------------------------

LEMMA DecodePrimitiveKeeps ==
    ASSUME DecoderInv, DecodePrimitive
    PROVE  DecoderInv' /\ Advances
<1> DEFINE w == Bound[goal]
           p == IF w = 8 THEN Padded(C.pos, C.end) ELSE C.pos
           v == Decoded(goal, Number(p, w), << >>)
<1>1. Calls(calls, Size) /\ goal \in Type /\ status = "run"
  BY DEF DecoderInv, DecodePrimitive, Starting
<1>2. CASE ~Has(p, w, C.end)
  BY <1>2, FailKeeps DEF DecodePrimitive
<1>3. CASE Has(p, w, C.end)
  <2>1. Returns(v, p + w, calls, FALSE)
    BY <1>3 DEF DecodePrimitive
  <2>2. w \in Nat
    <3>1. w \in 0..8
      BY <1>1, PerTypesAssumption
    <3> QED BY <3>1
  <2>3. Place(C.pos, C.end) /\ C = Top(calls)
    BY CallFacts DEF Place
  <2>4. Place(p, C.end) /\ C.pos <= p
    <3>1. Place(Padded(C.pos, C.end), C.end) /\ C.pos <= Padded(C.pos, C.end)
      BY <2>3, PaddedFacts
    <3>2. C.pos <= C.pos
      BY CallFacts
    <3> QED BY <2>3, <3>1, <3>2
  <2> HIDE DEF v, w, p
  <2>5. p + w \in Nat /\ Top(calls).pos <= p + w /\ p + w <= Top(calls).end + 1
    BY <1>3, <2>2, <2>3, <2>4, CallFacts DEF Has, Place
  <2> DEFINE x == p + w
  <2>6. Returns(v, x, calls, FALSE) /\ x \in Nat /\ Top(calls).pos <= x /\ x <= Top(calls).end + 1
    BY <2>1, <2>5
  <2>7. C.pos <= x
    BY <2>3, <2>6
  <2> HIDE DEF x
  <2> QED BY <1>1, <2>6, <2>7, ReturnsKeeps
<1> QED BY <1>2, <1>3

LEMMA DecodeConstructedKeeps ==
    ASSUME DecoderInv, DecodeConstructed
    PROVE  DecoderInv' /\ Advances
<1> DEFINE root == C.pos + Marked(goal)
           p == root + Cardinality(OptFields(goal))
           c == CallOf(Kind[goal], goal, p, C.end, C.depth - 1, FALSE)
           x == PresentBits(goal, root)
           y == IF Extensible[goal] /\ input[C.pos] = 1 THEN "unread" ELSE "none"
           z == DecodeOrder(goal)
           d == [c EXCEPT !.present = x, !.extensions = y, !.order = z]
<1>1. /\ Calls(calls, Size) /\ goal \in Type /\ goal # Absent /\ Kind[goal] \in Constructed
      /\ status = "run"
  BY DEF DecoderInv, DecodeConstructed, Starting
<1>2. \/ \E e : e # "ok" /\ Fail(e)
      \/ /\ ~Exceeds(C.depth) /\ ~(p > C.end + 1)
         /\ calls' = Append(calls, d) /\ goal' = Absent /\ UNCHANGED <<aligned, input, value, status>>
  BY DEF DecodeConstructed
<1>3. CASE \E e : e # "ok" /\ Fail(e)
  BY <1>3, FailKeeps
<1>5. CASE /\ ~Exceeds(C.depth) /\ ~(p > C.end + 1)
           /\ calls' = Append(calls, d) /\ goal' = Absent /\ UNCHANGED <<aligned, input, value, status>>
  <2>1. p \in Nat /\ C.pos <= p
    <3>1. Cardinality(OptFields(goal)) \in Nat
      BY <1>1, TypeFacts, FieldsFinite
    <3>2. Marked(goal) \in Nat
      BY <1>1, MarkedType
    <3> QED BY <3>1, <3>2, CallFacts
  <2>2. d = Filled(c, x, y, z)
    BY DEF Filled
  <2> HIDE DEF d, x, y, z, p
  <2>3. NewCall(d, Kind[goal], goal, p, C.end, C.depth - 1, FALSE) /\ d.order = DecodeOrder(goal)
    <3> DEFINE own == FALSE
    <3>1. d = Filled(CallOf(Kind[goal], goal, p, C.end, C.depth - 1, own), x, y, z)
      BY <2>2
    <3> HIDE DEF own
    <3>2. NewCall(d, Kind[goal], goal, p, C.end, C.depth - 1, own) /\ d.order = z
      BY ONLY <3>1, NewFilled
    <3> QED BY <3>2 DEF z, own
  <2>4. /\ C = Top(calls) /\ Size \in Nat /\ MaxDepth \in Nat /\ Declared(goal)
        /\ Kind[goal] \in CallName \ {"root", "addition"} /\ Kind[goal] # "list"
    BY <1>1, CallFacts, Limit, TypeFacts DEF CallName, Constructed
  <2>5. p <= C.end + 1
    BY <1>5, <2>1, CallFacts
  <2>6. Calls(Pushed(calls, d), Size) /\ Proceeds(calls, Pushed(calls, d))
    BY <1>1, <1>5, <2>1, <2>3, <2>4, <2>5, BeginsOnRest
  <2>7. /\ calls' = Pushed(calls, d) /\ goal' = Absent /\ aligned' = aligned /\ input' = input
        /\ status' # "ok"
    BY <1>1, <1>5 DEF Pushed
  <2> QED BY <2>6, <2>7, CallsKeeps
<1> QED BY <1>2, <1>3, <1>5

LEMMA DecodeFieldKeeps ==
    ASSUME DecoderInv, DecodeField
    PROVE  DecoderInv' /\ Advances
<1>1. Fields[C.type][Here].type \in Type
  BY HereFacts DEF DecodeField, AtField, Going
<1>2. goal' \in Type \cup {Absent} /\ UNCHANGED <<aligned, input, calls>> /\ status' # "ok"
  BY <1>1 DEF DecodeField, AtField, Going
<1> QED BY <1>2, OtherKeeps

\* Absent is noted for the field that is next.
LEMMA AbsentKeeps ==
    ASSUME DecoderInv, SetCall([C EXCEPT !.got = Append(@, Absent)]), UNCHANGED <<aligned, input, goal>>,
           status' # "ok"
    PROVE  DecoderInv' /\ Advances
<1> DEFINE d == [Top(calls) EXCEPT !.got = Append(@, Absent)]
<1>1. Calls(calls, Size) /\ Size \in Nat
  BY CallFacts DEF DecoderInv
<1>2. calls' = Replaced(calls, d)
  BY DEF SetCall, Replaced, C
<1>3. Calls(Replaced(calls, d), Size) /\ Proceeds(calls, Replaced(calls, d))
  BY <1>1, Skips
<1> HIDE DEF d
<1>4. goal' \in Type \cup {Absent}
  BY DEF DecoderInv
<1> QED BY <1>2, <1>3, <1>4, CallsKeeps

LEMMA DecodeAbsentKeeps ==
    ASSUME DecoderInv, DecodeAbsent
    PROVE  DecoderInv' /\ Advances
BY AbsentKeeps DEF DecodeAbsent, AtField, Going

LEMMA DecodeNoAdditionKeeps ==
    ASSUME DecoderInv, DecodeNoAddition
    PROVE  DecoderInv' /\ Advances
<1>1. CASE Fields[C.type][Here].opt
  BY <1>1, AbsentKeeps DEF DecodeNoAddition, AtField, Going
<1>2. CASE ~Fields[C.type][Here].opt
  BY <1>2, FailKeeps DEF DecodeNoAddition
<1> QED BY <1>1, <1>2

LEMMA ReadHeaderKeeps ==
    ASSUME DecoderInv, ReadHeader
    PROVE  DecoderInv' /\ Advances
<1> DEFINE n == SmallLength(C.pos, C.end)
           p == n.next + HeaderCount(n)
           y == HeaderBits(C.type, n)
           d == [Top(calls) EXCEPT !.extensions = "read", !.pos = p, !.additions = y]
<1>1. Calls(calls, Size) /\ Size \in Nat /\ C = Top(calls)
  BY CallFacts DEF DecoderInv
<1>2. \/ \E e : e # "ok" /\ Fail(e)
      \/ /\ n.ok /\ Has(n.next, HeaderCount(n), C.end)
         /\ calls' = Replaced(calls, d) /\ goal' = goal /\ UNCHANGED <<aligned, input>>
         /\ status' # "ok"
  BY <1>1 DEF ReadHeader, SetCall, Replaced, AtField, Going
<1>3. CASE \E e : e # "ok" /\ Fail(e)
  BY <1>3, FailKeeps
<1>4. CASE /\ n.ok /\ Has(n.next, HeaderCount(n), C.end)
           /\ calls' = Replaced(calls, d) /\ goal' = goal /\ UNCHANGED <<aligned, input>>
           /\ status' # "ok"
  <2>1. Place(C.pos, C.end)
    BY CallFacts DEF Place
  <2>2. Place(n.next, C.end) /\ C.pos < n.next /\ n.count \in Nat
    BY <1>4, <2>1, SmallLengthFacts
  <2> HIDE DEF n
  <2>3. HeaderCount(n) \in Nat
    BY <2>2 DEF HeaderCount
  <2>4. p \in Nat /\ Top(calls).pos <= p /\ p <= Top(calls).end + 1
    BY <1>1, <1>4, <2>1, <2>2, <2>3 DEF Place, Has
  <2> HIDE DEF p, y
  <2>5. Calls(Replaced(calls, d), Size) /\ Proceeds(calls, Replaced(calls, d))
    BY <1>1, <2>4, ReadsOn
  <2> HIDE DEF d
  <2>6. goal' \in Type \cup {Absent}
    BY <1>4 DEF DecoderInv
  <2> QED BY <1>4, <2>5, <2>6, CallsKeeps
<1> QED BY <1>2, <1>3, <1>4

LEMMA DecodeAdditionKeeps ==
    ASSUME DecoderInv, DecodeAddition
    PROVE  DecoderInv' /\ Advances
<1> DEFINE s == Octets(C.pos, C.end)
           b == Moved(Top(calls), s.to + 1)
           own == TRUE
           d == CallOf("addition", C.type, s.from, s.to, C.depth, TRUE)
<1>1. Calls(calls, Size) /\ Size \in Nat /\ C = Top(calls) /\ MaxDepth \in Nat
  BY CallFacts, Limit DEF DecoderInv
<1>2. C.call \in Constructed /\ Len(C.got) < Len(C.order)
  BY DEF DecodeAddition, AtField, Going
<1>3. CASE ~s.ok
  BY <1>3, FailKeeps DEF DecodeAddition
<1>4. CASE s.ok
  <2>1. /\ s.from \in Nat /\ s.to \in Int /\ C.pos < s.from /\ s.from <= s.to + 1 /\ s.to <= C.end
    <3>1. Place(C.pos, C.end)
      BY CallFacts DEF Place
    <3> QED BY <1>4, <3>1, OctetsFacts
  <2>2. calls' = Append([calls EXCEPT ![Len(calls)] = b], d)
        /\ goal' = Fields[C.type][Here].type /\ aligned' = aligned /\ input' = input
        /\ status' # "ok"
    BY <1>1, <1>4 DEF DecodeAddition, Top, Moved, AtField, Going
  <2>3. calls' = Pushed(Replaced(calls, b), d)
    BY <2>2 DEF Pushed, Replaced
  <2>4. d = CallOf("addition", C.type, s.from, s.to, C.depth, own) /\ own = TRUE
    OBVIOUS
  <2> HIDE DEF d, s, own
  <2>8. NewCall(d, "addition", C.type, s.from, s.to, C.depth, own)
    BY <2>4, CallOfFacts
  <2>5. CutOut(Top(calls), "addition", s.from, s.to, C.depth) /\ C.type \in Type
    BY <1>1, <1>2, <2>1, CallFacts DEF CutOut
  <2>9. b = Moved(Top(calls), s.to + 1)
    OBVIOUS
  <2> HIDE DEF b
  <2>6. Calls(Pushed(Replaced(calls, b), d), Size) /\ Proceeds(calls, Pushed(Replaced(calls, b), d))
    <3> DEFINE f == s.from
               e == s.to
               n == Size
               t == C.type
               x == C.depth
    <3>1. /\ MaxDepth \in Nat /\ n \in Nat /\ Calls(calls, n) /\ t \in Type /\ f \in Nat /\ e \in Int
          /\ NewCall(d, "addition", t, f, e, x, own) /\ CutOut(Top(calls), "addition", f, e, x)
          /\ b = Moved(Top(calls), e + 1)
      BY <1>1, <2>1, <2>5, <2>8, <2>9
    <3>2. own = TRUE
      BY DEF own
    <3> HIDE DEF f, e, n, t, x
    <3>3. Calls(Pushed(Replaced(calls, b), d), n) /\ Proceeds(calls, Pushed(Replaced(calls, b), d))
      BY ONLY <3>1, <3>2, BeginsOnOwn
    <3> QED BY <3>3 DEF n
  <2>7. goal' \in Type
    BY <1>2, <2>2, HereFacts
  <2> QED BY <2>2, <2>3, <2>6, <2>7, CallsKeeps
<1> QED BY <1>3, <1>4

LEMMA CloseAdditionKeeps ==
    ASSUME DecoderInv, CloseAddition
    PROVE  DecoderInv' /\ Advances
<1>1. /\ Calls(calls, Size) /\ Size \in Nat /\ C.call = "addition"
      /\ C = Top(calls) /\ status = "run"
  BY CallFacts DEF DecoderInv, CloseAddition, Going
<1>2. Len(calls) > 1
  <2> DEFINE m == Len(calls)
  <2>1. m \in Nat /\ m > 0 /\ m # 1
    BY <1>1, CallFacts
  <2> HIDE DEF m
  <2>2. m > 1
    BY <2>1
  <2> QED BY <2>2 DEF m
<1>3. Calls(Front(calls), Size) /\ Within(C, Top(Front(calls)))
  BY <1>1, <1>2, Ends
<1>6. C.pos <= Top(Front(calls)).pos
  <2>1. C.own /\ Top(Front(calls)).pos \in Nat
    BY <1>1, <1>3, CallFacts, TopFacts DEF CallOK, Fixed
  <2> QED BY <1>3, <2>1, CallFacts DEF Within
<1>4. Returns(C.got[1], 0, Front(calls), TRUE)
  BY DEF CloseAddition
<1> DEFINE v == C.got[1]
<1>5. Returns(v, 0, Front(calls), TRUE)
  BY <1>4
<1> HIDE DEF v
<1> QED BY <1>1, <1>2, <1>3, <1>5, <1>6, ReturnsKeeps

LEMMA DecodeListKeeps ==
    ASSUME DecoderInv, DecodeList
    PROVE  DecoderInv' /\ Advances
<1> DEFINE n == Count(goal, C.pos, C.end)
           p == n.next
           x == n.count
           d == [CallOf("list", goal, p, C.end, C.depth - 1, FALSE) EXCEPT !.left = x]
<1>1. /\ Calls(calls, Size) /\ Size \in Nat /\ C = Top(calls) /\ MaxDepth \in Nat
      /\ goal \in Type /\ Kind[goal] = "list"
  BY CallFacts, Limit DEF DecoderInv, DecodeList, Starting
<1>2. CASE Exceeds(C.depth)
  BY <1>2, FailKeeps DEF DecodeList
<1>3. CASE ~Exceeds(C.depth) /\ ~n.ok
  BY <1>3, FailKeeps DEF DecodeList
<1>4. CASE ~Exceeds(C.depth) /\ n.ok
  <2>1. Place(C.pos, C.end)
    BY CallFacts DEF Place
  <2>2. Place(p, C.end) /\ C.pos <= p
    BY <1>1, <1>4, <2>1, CountFacts
  <2>3. calls' = Append(calls, d) /\ goal' = Absent /\ UNCHANGED <<aligned, input>> /\ status' # "ok"
    BY <1>4 DEF DecodeList, Starting
  <2>4. calls' = Pushed(calls, d)
    BY <2>3 DEF Pushed
  <2> HIDE DEF p, x
  <2>5. p \in Nat /\ C.pos <= p /\ p <= C.end + 1
    BY <2>2 DEF Place
  <2>6. NewCall(d, "list", goal, p, C.end, C.depth - 1, FALSE)
    <3> DEFINE own == FALSE
    <3>1. d = Counted(CallOf("list", goal, p, C.end, C.depth - 1, own), x)
      BY DEF Counted
    <3> HIDE DEF own, d
    <3>2. NewCall(d, "list", goal, p, C.end, C.depth - 1, own)
      BY <3>1, NewCounted
    <3> QED BY <3>2 DEF own
  <2> HIDE DEF d
  <2>7. "list" \in CallName \ {"root", "addition"} /\ "list" \notin Constructed
    BY DEF CallName, Constructed
  <2>8. Calls(Pushed(calls, d), Size) /\ Proceeds(calls, Pushed(calls, d))
    BY <1>1, <1>4, <2>5, <2>6, <2>7, BeginsOnRest
  <2> QED BY <2>3, <2>4, <2>8, CallsKeeps
<1> QED BY <1>2, <1>3, <1>4

LEMMA DecodeItemKeeps ==
    ASSUME DecoderInv, DecodeItem
    PROVE  DecoderInv' /\ Advances
<1>1. C.type \in Type /\ Kind[C.type] = "list"
  BY CallFacts DEF CallOK, Fixed, DecodeItem, Going
<1>2. Fields[C.type][1].type \in Type
  BY <1>1, TypeFacts
<1>3. goal' \in Type \cup {Absent} /\ UNCHANGED <<aligned, input, calls>> /\ status' # "ok"
  BY <1>2 DEF DecodeItem, Going
<1> QED BY <1>3, OtherKeeps

\* An alternative of the extension root goes on in the caller's slice, one behind the
\* extension bit has octets of its own.
LEMMA DecodeChoiceKeeps ==
    ASSUME DecoderInv, DecodeChoice
    PROVE  DecoderInv' /\ Advances
<1> DEFINE marked == Has(C.pos, Marked(goal), C.end)
           ext == marked /\ Extensible[goal] /\ input[C.pos] = 1
           n == IF ext THEN ExtIndex(goal, C.pos + 1, C.end)
                ELSE RootIndex(goal, C.pos + Marked(goal), C.end)
           i == CHOOSE k \in n.alts : TRUE
           s == Octets(n.next, C.end)
           from == IF ext THEN s.from ELSE n.next
           to == IF ext THEN s.to ELSE C.end
           d == [CallOf("choice", goal, from, to, C.depth - 1, ext) EXCEPT !.alt = i]
<1>1. /\ Calls(calls, Size) /\ Size \in Nat /\ C = Top(calls) /\ MaxDepth \in Nat
      /\ goal \in Type
  BY CallFacts, Limit DEF DecoderInv, DecodeChoice, Starting
<1>2. CASE Exceeds(C.depth) \/ ~marked \/ ~n.ok \/ n.alts = {} \/ (ext /\ ~s.ok)
  <2>1. \E e : e # "ok" /\ Fail(e)
    BY <1>2 DEF DecodeChoice
  <2> QED BY <2>1, FailKeeps
<1>3. CASE ~(Exceeds(C.depth) \/ ~marked \/ ~n.ok \/ n.alts = {} \/ (ext /\ ~s.ok))
  <2>1. /\ calls' = Append(IF ext THEN [calls EXCEPT ![Len(calls)].pos = s.to + 1] ELSE calls, d)
        /\ goal' = Fields[goal][i].type /\ aligned' = aligned /\ input' = input /\ status' # "ok"
    BY <1>3 DEF DecodeChoice, Starting
  <2>2. Place(C.pos, C.end) /\ Marked(goal) \in Nat /\ (Extensible[goal] => Marked(goal) = 1)
    BY <1>1, CallFacts, MarkedType DEF Place
  <2>3. /\ Place(n.next, C.end) /\ C.pos <= n.next
        /\ n.alts \subseteq 1..Len(Fields[goal])
    <3> DEFINE q == C.pos + 1
               r == C.pos + Marked(goal)
    <3>1. Place(r, C.end) /\ C.pos <= r /\ r \in Nat
      BY <1>3, <2>2 DEF Place, Has
    <3>2. CASE ext
      <4>1. q = r
        BY <2>2, <3>2
      <4> HIDE DEF q, r
      <4>2. n = ExtIndex(goal, q, C.end)
        BY <3>2 DEF q
      <4>3. ExtIndex(goal, q, C.end).ok /\ Place(q, C.end)
        BY <1>3, <3>1, <4>1, <4>2
      <4>4. Place(n.next, C.end) /\ q <= n.next /\ n.alts \subseteq 1..Len(Fields[goal])
        BY <1>1, <4>2, <4>3, ExtIndexFacts
      <4> HIDE DEF n
      <4>5. C.pos <= n.next
        BY <2>2, <3>1, <4>1, <4>4 DEF Place
      <4> QED BY <4>4, <4>5
    <3>3. CASE ~ext
      <4> HIDE DEF r
      <4>2. n = RootIndex(goal, r, C.end)
        BY <3>3 DEF r
      <4>3. RootIndex(goal, r, C.end).ok
        BY <1>3, <4>2
      <4>4. Place(n.next, C.end) /\ r <= n.next /\ n.alts \subseteq 1..Len(Fields[goal])
        BY <1>1, <3>1, <4>2, <4>3, RootIndexFacts
      <4> HIDE DEF n
      <4>5. C.pos <= n.next
        BY <2>2, <3>1, <4>4 DEF Place
      <4> QED BY <4>4, <4>5
    <3> QED BY <3>2, <3>3
  <2>4. i \in 1..Len(Fields[goal])
    <3>1. i \in n.alts
      BY <1>3
    <3> HIDE DEF i
    <3> QED BY <2>3, <3>1
  <2>5. ext \in BOOLEAN
    OBVIOUS
  <2>6. d = Chosen(CallOf("choice", goal, from, to, C.depth - 1, ext), i)
    BY DEF Chosen
  <2> HIDE DEF d, from, to, ext, i, s, n
  <2>7. NewCall(d, "choice", goal, from, to, C.depth - 1, ext)
    BY <2>6, NewChosen
  <2>8. goal' \in Type \cup {Absent}
    BY <1>1, <2>1, <2>4, FieldFacts
  <2> DEFINE z == Size
             x == C.depth - 1
  <2>9. CASE ext
    <3> DEFINE b == Moved(Top(calls), to + 1)
    <3>1. from = s.from /\ to = s.to
      BY <2>9 DEF from, to
    <3>2. /\ s.from \in Nat /\ s.to \in Int /\ n.next < s.from /\ s.from <= s.to + 1 /\ s.to <= C.end
      <4>1. s.ok
        BY <1>3, <2>9
      <4> DEFINE q == n.next
      <4>2. Place(q, C.end) /\ s = Octets(q, C.end)
        BY <2>3 DEF s
      <4> HIDE DEF q
      <4>3. s.from \in Nat /\ s.to \in Int /\ q < s.from /\ s.from <= s.to + 1 /\ s.to <= C.end
        BY <4>1, <4>2, OctetsFacts
      <4> QED BY <4>3 DEF q
    <3>3. CutOut(Top(calls), "choice", from, to, x) /\ from \in Nat /\ to \in Int
      <4>1. C.pos < s.from
        BY <2>2, <2>3, <3>2 DEF Place
      <4> QED BY <1>1, <1>3, <3>1, <3>2, <4>1 DEF CutOut
    <3>4. calls' = Pushed(Replaced(calls, b), d)
      BY <2>1, <2>9, <3>1 DEF Pushed, Replaced, Moved, Top
    <3>5. b = Moved(Top(calls), to + 1) /\ ext = TRUE /\ NewCall(d, "choice", goal, from, to, x, ext)
      BY <2>5, <2>7, <2>9
    <3>6. z \in Nat /\ Calls(calls, z)
      BY <1>1
    <3> HIDE DEF b, z, x
    <3>7. Calls(Pushed(Replaced(calls, b), d), z) /\ Proceeds(calls, Pushed(Replaced(calls, b), d))
      BY ONLY <1>1, <3>3, <3>5, <3>6, BeginsOnOwn
    <3> QED BY <2>1, <2>8, <3>4, <3>7, CallsKeeps DEF z
  <2>10. CASE ~ext
    <3>1. from = n.next /\ to = C.end
      BY <2>10 DEF from, to
    <3>2. from \in Nat /\ Top(calls).pos <= from /\ from <= Top(calls).end + 1
      BY <1>1, <2>3, <3>1 DEF Place
    <3>3. NewCall(d, "choice", goal, from, Top(calls).end, Top(calls).depth - 1, FALSE)
      BY <1>1, <2>5, <2>7, <2>10, <3>1
    <3>4. "choice" \in CallName \ {"root", "addition"} /\ "choice" \notin Constructed
      BY DEF CallName, Constructed
    <3>5. Calls(Pushed(calls, d), Size) /\ Proceeds(calls, Pushed(calls, d))
      BY <1>1, <1>3, <3>2, <3>3, <3>4, BeginsOnRest
    <3>6. calls' = Pushed(calls, d)
      BY <2>1, <2>10 DEF Pushed
    <3> QED BY <2>1, <2>8, <3>5, <3>6, CallsKeeps
  <2> QED BY <2>5, <2>9, <2>10
<1> QED BY <1>2, <1>3

LEMMA CloseKeeps ==
    ASSUME DecoderInv, Close
    PROVE  DecoderInv' /\ Advances
<1> DEFINE v == Decoded(C.type, C.alt, Placed(C))
<1>1. /\ Calls(calls, Size) /\ Size \in Nat /\ C = Top(calls)
      /\ C.call \in Constructed \cup {"list", "choice"}
      /\ Returns(v, C.pos, Front(calls), C.own) /\ status = "run"
  BY CallFacts DEF DecoderInv, Close, Going
<1> HIDE DEF v
<1>2. Len(calls) > 1
  <2> DEFINE m == Len(calls)
  <2>1. m \in Nat /\ m > 0 /\ m # 1
    BY <1>1, CallFacts DEF Constructed
  <2> HIDE DEF m
  <2>2. m > 1
    BY <2>1
  <2> QED BY <2>2 DEF m
<1>3. Calls(Front(calls), Size) /\ Within(C, Top(Front(calls)))
  BY <1>1, <1>2, Ends
<1>4. C.own \in BOOLEAN
  BY CallFacts DEF CallOK, Fixed
<1>5. ~C.own => C.pos \in Nat /\ Top(Front(calls)).pos <= C.pos /\ C.pos <= Top(Front(calls)).end + 1
  BY <1>3, CallFacts DEF Within
<1>6. C.pos <= IF C.own THEN Top(Front(calls)).pos ELSE C.pos
  <2>1. Top(Front(calls)).pos \in Nat
    BY <1>1, <1>3, TopFacts
  <2> QED BY <1>3, <1>4, <2>1, CallFacts DEF Within
<1> QED BY <1>1, <1>2, <1>3, <1>4, <1>5, <1>6, ReturnsKeeps

-----------------------------------------------------------------------------

LEMMA InitKeeps == Init => DecoderInv
<1> SUFFICES ASSUME Init PROVE DecoderInv
  OBVIOUS
<1>1. aligned \in BOOLEAN /\ input \in Inputs /\ goal \in Type /\ calls = Outermost(goal, Size)
  BY DEF Init, Size
<1>2. Size \in Nat /\ MaxDepth \in Nat
  BY <1>1, InputFacts, Limit
<1>3. Calls(calls, Size)
  BY <1>1, <1>2, Starts
<1> QED BY <1>1, <1>3 DEF DecoderInv

LEMMA StepKeeps ==
    ASSUME DecoderInv, Step
    PROVE  DecoderInv' /\ Advances
BY DecodePrimitiveKeeps, DecodeConstructedKeeps, DecodeFieldKeeps, DecodeAbsentKeeps,
   ReadHeaderKeeps, DecodeAdditionKeeps, DecodeNoAdditionKeeps, CloseAdditionKeeps,
   DecodeListKeeps, DecodeItemKeeps, DecodeChoiceKeeps, CloseKeeps DEF Step

LEMMA NextKeeps == DecoderInv /\ [Next]_vars => DecoderInv'
<1> SUFFICES ASSUME DecoderInv, [Next]_vars PROVE DecoderInv'
  OBVIOUS
<1>1. CASE Stop \/ UNCHANGED vars
  BY <1>1 DEF Stop, vars, DecoderInv, Size
<1>2. CASE Step
  BY <1>2, StepKeeps
<1> QED BY <1>1, <1>2 DEF Next

\* aper::decode and uper::decode of any bits as any type never read outside the slice
\* of the call under way, padding included, the slices nest, and the depth limit
\* bounds how many there are.
THEOREM ReadsCorrect == Spec => []ReadsNest
<1>1. DecoderInv => ReadsNest
  <2> SUFFICES ASSUME DecoderInv PROVE ReadsNest
    OBVIOUS
  <2>1. Nests(calls, Size)
    BY CallFacts, Limit, CallsNest DEF DecoderInv
  <2> QED BY <2>1 DEF ReadsNest, Size
<1> QED BY <1>1, InitKeeps, NextKeeps, PTL DEF Spec

\* aper::decode and uper::decode of any bits as any type go forwards: what a call has read is read
\* again neither by the call it begins nor by its caller, the calls that go on keep
\* their slices and what they have decoded, and only the outermost reports success.
THEOREM ForwardCorrect == Spec => ReadsForward
<1>1. ASSUME DecoderInv, [Next]_vars
      PROVE  [status = "run" => Proceeds(calls, calls') /\ (status' = "ok" => Len(calls') = 1)]_vars
  <2>1. CASE UNCHANGED vars
    BY <2>1
  <2>2. CASE Stop
    BY <2>2 DEF Stop
  <2>3. CASE Step
    BY <1>1, <2>3, StepKeeps DEF Advances
  <2> QED BY <1>1, <2>1, <2>2, <2>3 DEF Next
<1> QED BY <1>1, InitKeeps, NextKeeps, PTL DEF Spec, ReadsForward
=============================================================================
