-------------------------- MODULE BerEncoder_proofs --------------------------
(***************************************************************************)
(* What the BER, CER and DER encoders hold are values, one behind the      *)
(* other and one in the other, whatever the type and whatever its value,   *)
(* and where an order is prescribed they are in that order.                *)
(***************************************************************************)
EXTENDS BerEncoder, FiniteSetTheorems, SequenceTheorems, WellFoundedInduction, TLAPS

\* The predecessor relation on natural numbers
Below == {p \in Nat \X Nat : p[1] < p[2]}

\* Every set of natural numbers has a least one.
LEMMA LeastElement ==
    ASSUME NEW S, S \subseteq Nat, S # {}
    PROVE  \E x \in S : \A y \in S : x <= y
<1>1. IsWellFoundedOn(Below, Nat)
  BY NatLessThanWellFounded DEF OpToRel, Below
<1>2. PICK x \in S : \A y \in S : ~(<<y, x>> \in Below)
  BY <1>1, WFMin
<1>3. \A y \in S : x <= y
  <2> TAKE y \in S
  <2>1. x \in Nat /\ y \in Nat /\ ~(<<y, x>> \in Below)
    BY <1>2
  <2>2. ~(y < x)
    BY <2>1 DEF Below
  <2> QED BY <2>1, <2>2
<1> QED BY <1>3

\* What holds of 0 and of the next of each number holds of every number.
LEMMA InductionOnNat ==
    ASSUME NEW S, 0 \in S, \A n \in Nat : n \in S => n + 1 \in S
    PROVE  Nat \subseteq S
<1> DEFINE T == Nat \ S
<1>1. SUFFICES ASSUME T # {} PROVE FALSE
  OBVIOUS
<1>2. T \subseteq Nat
  OBVIOUS
<1> HIDE DEF T
<1>3. PICK x \in T : \A y \in T : x <= y
  BY <1>1, <1>2, LeastElement
<1>4. x \in Nat /\ x # 0 /\ x - 1 \in Nat /\ x \notin S
  BY <1>3 DEF T
<1>5. x - 1 \notin T
  BY <1>3, <1>4
<1>6. x - 1 \in S
  BY <1>4, <1>5 DEF T
<1> QED BY <1>4, <1>6

-----------------------------------------------------------------------------

\* Open values

Openers(s, k) == {i \in 1..k : s[i].len = -1}
Closers(s, k) == {i \in 1..k : s[i].kind = "eoc"}

\* Open counts the values that are begun and not ended.
LEMMA OpenInt ==
    ASSUME NEW s, NEW k \in Nat
    PROVE  /\ IsFiniteSet(Openers(s, k)) /\ IsFiniteSet(Closers(s, k))
           /\ Open(s, k) = Cardinality(Openers(s, k)) - Cardinality(Closers(s, k))
           /\ Open(s, k) \in Int
<1>1. IsFiniteSet(1..k)
  BY FS_Interval
<1>2. IsFiniteSet(Openers(s, k)) /\ IsFiniteSet(Closers(s, k))
  BY <1>1, FS_Subset DEF Openers, Closers
<1>3. Cardinality(Openers(s, k)) \in Nat /\ Cardinality(Closers(s, k)) \in Nat
  BY <1>2, FS_CardinalityType
<1>4. Open(s, k) = Cardinality(Openers(s, k)) - Cardinality(Closers(s, k))
  BY DEF Open, Openers, Closers
<1> QED BY <1>2, <1>3, <1>4

LEMMA OpenNone ==
    ASSUME NEW s
    PROVE  Open(s, 0) = 0
<1>1. Openers(s, 0) = {} /\ Closers(s, 0) = {}
  BY DEF Openers, Closers
<1> QED BY <1>1, OpenInt, FS_EmptySet

\* What the token x does to the number of open values
Opened(x) == IF x.len = -1 THEN 1 ELSE 0
Ended(x) == IF x.kind = "eoc" THEN 1 ELSE 0

\* One token more opens a value, ends one, or does neither.
LEMMA OpenNext ==
    ASSUME NEW s, NEW k \in Nat
    PROVE  Open(s, k + 1) = Open(s, k) + Opened(s[k + 1]) - Ended(s[k + 1])
<1>1. k + 1 \in Nat /\ 1..(k + 1) = 1..k \cup {k + 1} /\ k + 1 \notin 1..k
  OBVIOUS
<1>2. Openers(s, k + 1) = Openers(s, k) \cup (IF s[k + 1].len = -1 THEN {k + 1} ELSE {})
  BY <1>1 DEF Openers
<1>3. Closers(s, k + 1) = Closers(s, k) \cup (IF s[k + 1].kind = "eoc" THEN {k + 1} ELSE {})
  BY <1>1 DEF Closers
<1>4. k + 1 \notin Openers(s, k) /\ k + 1 \notin Closers(s, k)
  BY <1>1 DEF Openers, Closers
<1>5. /\ IsFiniteSet(Openers(s, k)) /\ Cardinality(Openers(s, k)) \in Nat
      /\ IsFiniteSet(Closers(s, k)) /\ Cardinality(Closers(s, k)) \in Nat
  BY OpenInt, FS_CardinalityType
<1>6. Cardinality(Openers(s, k + 1)) = Cardinality(Openers(s, k)) + Opened(s[k + 1])
  <2>1. CASE s[k + 1].len = -1
    <3>1. Openers(s, k + 1) = Openers(s, k) \cup {k + 1}
      BY <1>2, <2>1
    <3>2. Cardinality(Openers(s, k) \cup {k + 1}) = Cardinality(Openers(s, k)) + 1
      BY <1>4, <1>5, FS_AddElement
    <3> QED BY <2>1, <3>1, <3>2 DEF Opened
  <2>2. CASE s[k + 1].len # -1
    <3>1. Openers(s, k + 1) = Openers(s, k)
      BY <1>2, <2>2
    <3>2. Opened(s[k + 1]) = 0
      BY <2>2 DEF Opened
    <3> QED BY <1>5, <3>1, <3>2
  <2> QED BY <2>1, <2>2
<1>7. Cardinality(Closers(s, k + 1)) = Cardinality(Closers(s, k)) + Ended(s[k + 1])
  <2>1. CASE s[k + 1].kind = "eoc"
    <3>1. Closers(s, k + 1) = Closers(s, k) \cup {k + 1}
      BY <1>3, <2>1
    <3>2. Cardinality(Closers(s, k) \cup {k + 1}) = Cardinality(Closers(s, k)) + 1
      BY <1>4, <1>5, FS_AddElement
    <3> QED BY <2>1, <3>1, <3>2 DEF Ended
  <2>2. CASE s[k + 1].kind # "eoc"
    <3>1. Closers(s, k + 1) = Closers(s, k)
      BY <1>3, <2>2
    <3>2. Ended(s[k + 1]) = 0
      BY <2>2 DEF Ended
    <3> QED BY <1>5, <3>1, <3>2
  <2> QED BY <2>1, <2>2
<1>8. Opened(s[k + 1]) \in Int /\ Ended(s[k + 1]) \in Int
  BY DEF Opened, Ended
<1> DEFINE o == Cardinality(Openers(s, k))
           c == Cardinality(Closers(s, k))
           a == Opened(s[k + 1])
           b == Ended(s[k + 1])
<1>9. Open(s, k + 1) = (o + a) - (c + b) /\ Open(s, k) = o - c
  BY <1>1, <1>6, <1>7, OpenInt
<1>10. o \in Nat /\ c \in Nat /\ a \in Int /\ b \in Int
  BY <1>5, <1>8
<1> HIDE DEF o, c, a, b
<1>11. Open(s, k + 1) = Open(s, k) + a - b
  BY <1>9, <1>10
<1> QED BY <1>11 DEF a, b

\* The tokens of s lie in t, behind the first m.
Lies(s, t, m) ==
    /\ m + Len(s) <= Len(t)
    /\ \A k \in 1..Len(s) : t[m + k].len = s[k].len /\ t[m + k].kind = s[k].kind

\* Tokens that lie behind others count on from what is open there.
LEMMA OpenBehind ==
    ASSUME NEW s, NEW t, NEW m \in Nat, Len(s) \in Nat, Lies(s, t, m)
    PROVE  \A k \in 0..Len(s) : Open(t, m + k) = Open(t, m) + Open(s, k)
<1> DEFINE S == {k \in Nat : k <= Len(s) => Open(t, m + k) = Open(t, m) + Open(s, k)}
<1>1. 0 \in S
  <2>1. Open(t, m) \in Int /\ m + 0 = m
    BY OpenInt
  <2> QED BY <2>1, OpenNone
<1>2. ASSUME NEW k \in Nat, k \in S PROVE k + 1 \in S
  <2> SUFFICES ASSUME k + 1 <= Len(s)
               PROVE  Open(t, m + (k + 1)) = Open(t, m) + Open(s, k + 1)
    OBVIOUS
  <2>1. k <= Len(s) /\ k + 1 \in 1..Len(s) /\ m + k \in Nat /\ m + (k + 1) = (m + k) + 1
    OBVIOUS
  <2>2. Open(t, m + k) = Open(t, m) + Open(s, k)
    BY <1>2, <2>1
  <2>3. t[(m + k) + 1].len = s[k + 1].len /\ t[(m + k) + 1].kind = s[k + 1].kind
    BY <2>1 DEF Lies
  <2> DEFINE a == Opened(s[k + 1])
             b == Ended(s[k + 1])
             x == Open(t, m)
             y == Open(s, k)
  <2>4. Open(t, (m + k) + 1) = Open(t, m + k) + a - b
    BY <2>1, <2>3, OpenNext DEF Opened, Ended
  <2>5. Open(s, k + 1) = y + a - b
    BY OpenNext
  <2>6. a \in Int /\ b \in Int /\ x \in Int /\ y \in Int
    BY OpenInt DEF Opened, Ended
  <2>7. Open(t, m + (k + 1)) = (x + y) + a - b
    BY <2>1, <2>2, <2>4
  <2> HIDE DEF a, b, x, y
  <2>8. Open(t, m + (k + 1)) = x + Open(s, k + 1)
    BY <2>5, <2>6, <2>7
  <2> QED BY <2>8 DEF x
<1>3. Nat \subseteq S
  <2> HIDE DEF S
  <2> QED BY <1>1, <1>2, InductionOnNat
<1>4. ASSUME NEW k \in 0..Len(s) PROVE Open(t, m + k) = Open(t, m) + Open(s, k)
  <2>1. k \in S
    BY <1>3
  <2> QED BY <2>1
<1> QED BY <1>4

\* A length stays that of values that lie in the value, wherever the value is put.
LEMMA ClosedBehind ==
    ASSUME NEW s, NEW t, NEW m \in Nat, Len(s) \in Nat, Len(t) \in Nat, Lies(s, t, m),
           \A k \in 1..Len(s) : s[k].len \in Int,
           NEW i \in 1..Len(s), s[i].len >= 0, Closed(s, i)
    PROVE  Closed(t, m + i)
<1> DEFINE l == s[i].len
           end == i + l
           x == Open(t, m)
<1>1. l \in Nat /\ t[m + i].len = l /\ end \in i..Len(s) /\ end \in 0..Len(s)
      /\ Open(s, end) = Open(s, i)
  BY DEF Lies, Closed
<1>2. \A k \in 0..Len(s) : Open(t, m + k) = x + Open(s, k) /\ Open(s, k) \in Int
  BY OpenBehind, OpenInt
<1>3. x \in Int
  BY OpenInt
<1>4. m + Len(s) <= Len(t)
  BY DEF Lies
<1>5. ASSUME NEW j \in (m + i)..((m + i) + l)
      PROVE  Open(t, j) >= Open(t, m + i) /\ j + t[j].len <= (m + i) + l
  <2>1. j - m \in i..end /\ j - m \in 1..Len(s) /\ j - m \in 0..Len(s) /\ i \in 0..Len(s)
        /\ m + (j - m) = j
    BY <1>1
  <2>2. Open(s, j - m) >= Open(s, i) /\ (j - m) + s[j - m].len <= end
    BY <1>1, <2>1 DEF Closed
  <2>3. t[j].len = s[j - m].len /\ s[j - m].len \in Int
    BY <2>1 DEF Lies
  <2>4. Open(t, j) = x + Open(s, j - m) /\ Open(t, m + i) = x + Open(s, i)
        /\ Open(s, j - m) \in Int /\ Open(s, i) \in Int
    BY <1>2, <2>1
  <2>5. Open(t, j) >= Open(t, m + i)
    BY <1>3, <2>2, <2>4
  <2> DEFINE q == s[j - m].len
  <2>6. (j - m) + q <= i + l /\ q \in Int /\ t[j].len = q
    BY <2>2, <2>3
  <2> HIDE DEF q, l, end, x
  <2>7. j + q <= (m + i) + l
    BY <1>1, <2>6
  <2> QED BY <2>5, <2>6, <2>7
<1>6. (m + i) + l = m + end
  BY <1>1
<1>7. Open(t, m + end) = Open(t, m + i)
  BY <1>1, <1>2
<1>8. m + end <= Len(t)
  BY <1>1, <1>4
<1> HIDE DEF l, end, x
<1> QED BY <1>1, <1>5, <1>6, <1>7, <1>8 DEF Closed

-----------------------------------------------------------------------------

\* Tokens and sequences of them
Token == [kind : {"tlv", "eoc"}, tag : Nat, constructed : BOOLEAN, len : Int, label : Label]
Text == Seq(Token)

Values == {s \in Text : Whole(s)}
Single == {p \in Nat \X Text : OneValue(p[2]) /\ p[2][1].tag = p[1]}

LEMMA TextFacts ==
    ASSUME NEW s \in Text
    PROVE  /\ Len(s) \in Nat
           /\ \A k \in 1..Len(s) : s[k] \in Token /\ s[k].len \in Int
<1>1. Len(s) \in Nat /\ \A k \in 1..Len(s) : s[k] \in Token
  BY DEF Text
<1>2. \A x \in Token : x.len \in Int
  BY DEF Token
<1> QED BY <1>1, <1>2

LEMMA LiesBefore ==
    ASSUME NEW s \in Text, NEW t \in Text
    PROVE  /\ s \o t \in Text /\ Len(s \o t) = Len(s) + Len(t)
           /\ Lies(s, s \o t, 0) /\ Lies(t, s \o t, Len(s))
<1>1. s \o t \in Text /\ Len(s \o t) = Len(s) + Len(t) /\ Len(s) \in Nat /\ Len(t) \in Nat
  BY TextFacts DEF Text
<1>2. \A k \in 1..Len(s) : (s \o t)[0 + k] = s[k]
  BY DEF Text
<1>3. \A k \in 1..Len(t) : (s \o t)[Len(s) + k] = t[k]
  BY DEF Text
<1> QED BY <1>1, <1>2, <1>3 DEF Lies

\* Output appended to output: values one behind the other (append_byte_or_bytes, extend).
LEMMA JoinWhole ==
    ASSUME NEW s \in Values, NEW t \in Values
    PROVE  s \o t \in Values
<1> DEFINE w == s \o t
           m == Len(s)
           n == Len(t)
<1>1. s \in Text /\ t \in Text /\ Whole(s) /\ Whole(t)
  BY DEF Values
<1>2. /\ w \in Text /\ Len(w) = m + n /\ Lies(s, w, 0) /\ Lies(t, w, m)
      /\ m \in Nat /\ n \in Nat
  BY <1>1, LiesBefore, TextFacts
<1>3. /\ \A k \in 1..m : s[k].len \in Int
      /\ \A k \in 1..n : t[k].len \in Int
  BY <1>1, TextFacts
<1>4. Open(s, m) = 0 /\ Open(t, n) = 0
  BY <1>1 DEF Whole
<1> HIDE DEF w
<1>5. \A k \in 0..m : Open(w, k) = Open(s, k)
  <2>1. \A k \in 0..m : Open(w, 0 + k) = Open(w, 0) + Open(s, k)
    BY <1>2, OpenBehind
  <2>2. \A k \in 0..m : 0 + k = k /\ Open(s, k) \in Int
    BY <1>2, OpenInt
  <2> QED BY <2>1, <2>2, OpenNone
<1>6. \A k \in 0..n : Open(w, m + k) = Open(t, k)
  <2>1. \A k \in 0..n : Open(w, m + k) = Open(w, m) + Open(t, k)
    BY <1>2, OpenBehind
  <2>2. m \in 0..m
    BY <1>2
  <2>3. \A k \in 0..n : Open(t, k) \in Int
    BY <1>2, OpenInt
  <2> QED BY <1>4, <1>5, <2>1, <2>2, <2>3
<1> DEFINE Fine(k) == Open(w, k) >= 0 /\ w[k].len >= -1 /\ (w[k].len >= 0 => Closed(w, k))
<1>7. ASSUME NEW k \in 1..m PROVE Fine(k)
  <2>1. Open(s, k) >= 0 /\ s[k].len >= -1 /\ (s[k].len >= 0 => Closed(s, k))
    BY <1>1 DEF Whole
  <2>2. w[k].len = s[k].len /\ 0 + k = k /\ k \in 0..m
    BY <1>2 DEF Lies
  <2>3. ASSUME s[k].len >= 0 PROVE Closed(w, 0 + k)
    <3>1. Closed(s, k) /\ Len(w) \in Nat /\ 0 \in Nat
      BY <1>2, <2>1, <2>3
    <3> HIDE DEF n
    <3> QED BY <1>2, <1>3, <2>3, <3>1, ClosedBehind
  <2> QED BY <1>5, <2>1, <2>2, <2>3
<1>8. ASSUME NEW k \in 1..n PROVE Fine(m + k)
  <2>1. Open(t, k) >= 0 /\ t[k].len >= -1 /\ (t[k].len >= 0 => Closed(t, k))
    BY <1>1 DEF Whole
  <2>2. w[m + k].len = t[k].len /\ k \in 0..n
    BY <1>2 DEF Lies
  <2>3. ASSUME t[k].len >= 0 PROVE Closed(w, m + k)
    <3>1. Closed(t, k) /\ Len(w) \in Nat
      BY <1>2, <2>1, <2>3
    <3> HIDE DEF m
    <3> QED BY <1>2, <1>3, <2>3, <3>1, ClosedBehind
  <2> QED BY <1>6, <2>1, <2>2, <2>3
<1>9. \A k \in 1..(m + n) : Fine(k)
  <2> TAKE k \in 1..(m + n)
  <2>1. CASE k <= m
    BY <1>2, <1>7, <2>1
  <2>2. CASE ~(k <= m)
    <3>1. k - m \in 1..n /\ m + (k - m) = k
      BY <1>2, <2>2
    <3> HIDE DEF Fine
    <3> QED BY <1>8, <3>1
  <2> QED BY <2>1, <2>2
<1>10. Open(w, m + n) = 0
  <2>1. n \in 0..n
    BY <1>2
  <2> QED BY <1>4, <1>6, <2>1
<1>11. Whole(w)
  BY <1>2, <1>9, <1>10 DEF Whole
<1> QED BY <1>2, <1>11 DEF Values, w

LEMMA EmptyWhole == << >> \in Values
<1>1. << >> \in Text /\ Len(<< >>) = 0
  BY DEF Text
<1>2. Whole(<< >>)
  BY <1>1, OpenNone DEF Whole
<1> QED BY <1>1, <1>2 DEF Values

\* A token in front of a sequence
Headed(x, s) == << x >> \o s

\* Behind a token in front, the sequence lies as it was.
LEMMA HeadFacts ==
    ASSUME NEW x \in Token, NEW s \in Text
    PROVE  /\ Headed(x, s) \in Text /\ Len(Headed(x, s)) = Len(s) + 1
           /\ Headed(x, s) # << >> /\ Headed(x, s)[1] = x
           /\ Lies(s, Headed(x, s), 1)
<1> DEFINE w == << x >> \o s
<1>1. << x >> \in Text /\ Len(<< x >>) = 1 /\ << x >>[1] = x
  BY DEF Text
<1>2. w \in Text /\ Len(w) = 1 + Len(s) /\ Lies(s, w, 1) /\ Len(s) \in Nat
  BY <1>1, LiesBefore, TextFacts
<1>3. w[1] = x
  BY <1>1 DEF Text
<1>4. Len(w) # 0 /\ Len(<< >>) = 0
  BY <1>2
<1>5. w # << >>
  BY <1>4
<1> HIDE DEF w
<1>6. Headed(x, s) = w
  BY DEF Headed, w
<1> QED BY <1>2, <1>3, <1>5, <1>6

\* A value of definite length
LEMMA WrapDefinite ==
    ASSUME NEW x \in Token, x.kind = "tlv", NEW s \in Values, x.len = Len(s)
    PROVE  <<x.tag, Headed(x, s)>> \in Single
<1> DEFINE w == Headed(x, s)
           n == Len(s)
<1>1. s \in Text /\ Whole(s) /\ n \in Nat /\ \A k \in 1..n : s[k].len \in Int
  BY TextFacts DEF Values
<1>2. w \in Text /\ Len(w) = n + 1 /\ w # << >> /\ w[1] = x /\ Lies(s, w, 1)
  BY <1>1, HeadFacts
<1> HIDE DEF w
<1>3. x.len = n /\ Open(w, 0) = 0
  BY OpenNone
<1> HIDE DEF n
<1>4. Open(w, 1) = 0
  <2>1. Open(w, 0 + 1) = Open(w, 0) + Opened(w[0 + 1]) - Ended(w[0 + 1])
    BY OpenNext
  <2>2. Opened(x) = 0 /\ Ended(x) = 0
    BY <1>1, <1>3 DEF Opened, Ended
  <2> QED BY <1>2, <1>3, <2>1, <2>2
<1>5. \A k \in 0..n : Open(w, 1 + k) = Open(s, k) /\ Open(s, k) \in Int
  <2>1. \A k \in 0..n : Open(w, 1 + k) = Open(w, 1) + Open(s, k) /\ Open(s, k) \in Int
    BY <1>1, <1>2, OpenBehind, OpenInt DEF n
  <2> QED BY <1>4, <2>1
<1>6. Open(s, n) = 0
  BY <1>1 DEF Whole, n
<1>7. \A k \in 1..n :
         /\ Open(s, k) >= 0 /\ s[k].len \in Int /\ s[k].len >= -1
         /\ s[k].len >= 0 => Closed(s, k) /\ k + s[k].len <= n
  BY <1>1 DEF Whole, Closed, n
<1>8. \A k \in 1..n : w[1 + k].len = s[k].len
  BY <1>2 DEF Lies, n
<1>9. ASSUME NEW k \in 1..n, s[k].len >= 0 PROVE Closed(w, 1 + k)
  <2>1. Len(w) \in Nat /\ Len(s) \in Nat /\ Lies(s, w, 1) /\ k \in 1..Len(s)
    BY <1>1, <1>2 DEF n
  <2>2. \A i \in 1..Len(s) : s[i].len \in Int
    BY <1>1 DEF n
  <2>3. Closed(s, k)
    BY <1>7, <1>9
  <2> QED BY <1>9, <2>1, <2>2, <2>3, ClosedBehind
<1>10. \A j \in 1..(n + 1) : j = 1 \/ (j - 1 \in 1..n /\ 1 + (j - 1) = j /\ j - 1 \in 0..n)
  BY <1>1
<1>11. Closed(w, 1)
  <2>1. 1 + w[1].len = n + 1 /\ n \in 0..n
    BY <1>1, <1>2, <1>3
  <2>2. Open(w, n + 1) = 0
    BY <1>1, <1>5, <1>6, <2>1
  <2>3. ASSUME NEW j \in 1..(n + 1) PROVE Open(w, j) >= 0 /\ j + w[j].len <= n + 1
    <3>1. CASE j = 1
      BY <1>1, <1>2, <1>3, <1>4, <3>1
    <3>2. CASE j # 1
      <4>1. PICK i \in 1..n : j = 1 + i /\ i \in 0..n
        BY <1>10, <3>2
      <4> DEFINE q == s[i].len
      <4>2. q \in Int /\ q >= -1 /\ (q >= 0 => i + q <= n) /\ w[j].len = q
        BY <1>7, <1>8, <4>1
      <4>3. Open(w, j) >= 0
        BY <1>5, <1>7, <4>1
      <4> HIDE DEF q
      <4>4. j + q <= n + 1
        BY <1>1, <4>1, <4>2
      <4> QED BY <4>2, <4>3, <4>4
    <3> QED BY <3>1, <3>2
  <2> QED BY <1>2, <1>4, <2>1, <2>2, <2>3 DEF Closed
<1>12. Whole(w)
  <2>1. ASSUME NEW k \in 1..(n + 1)
        PROVE  Open(w, k) >= 0 /\ w[k].len >= -1 /\ (w[k].len >= 0 => Closed(w, k))
    <3>1. CASE k = 1
      BY <1>1, <1>2, <1>3, <1>4, <1>11, <3>1
    <3>2. CASE k # 1
      <4>1. PICK i \in 1..n : k = 1 + i /\ i \in 0..n
        BY <1>10, <3>2
      <4> QED BY <1>5, <1>7, <1>8, <1>9, <4>1
    <3> QED BY <3>1, <3>2
  <2>2. Open(w, n + 1) = 0
    <3>1. n \in 0..n /\ 1 + n = n + 1
      BY <1>1
    <3> QED BY <1>5, <1>6, <3>1
  <2> QED BY <1>2, <2>1, <2>2 DEF Whole
<1>13. OneValue(w)
  BY <1>1, <1>2, <1>3, <1>12 DEF OneValue
<1>14. x.tag \in Nat
  BY DEF Token
<1> QED BY <1>2, <1>13, <1>14 DEF Single, w

\* End-of-contents octets are a token of no contents.
LEMMA EndFacts == EndOfContents \in Token /\ EndOfContents.kind = "eoc" /\ EndOfContents.len = 0
BY EncoderAssumption DEF EndOfContents, Item, NoLabel, Token, Label

\* So it does between a token in front and one behind.
LEMMA EnclosedFacts ==
    ASSUME NEW x \in Token, NEW s \in Text, NEW e \in Token
    PROVE  LET w == Headed(x, s) \o << e >>
               n == Len(s)
           IN  /\ w \in Text /\ Len(w) = n + 2 /\ w # << >>
               /\ w[1] = x /\ w[n + 2] = e /\ Lies(s, w, 1)
<1> DEFINE h == Headed(x, s)
           w == h \o << e >>
           n == Len(s)
<1>1. h \in Text /\ Len(h) = n + 1 /\ h[1] = x /\ Lies(s, h, 1) /\ n \in Nat
  BY HeadFacts, TextFacts
<1>2. << e >> \in Text /\ Len(<< e >>) = 1 /\ << e >>[1] = e
  BY DEF Text
<1> HIDE DEF h
<1>3. w \in Text /\ Len(w) = n + 2
  BY <1>1, <1>2, LiesBefore
<1>4. \A i \in 1..(n + 1) : w[i] = h[i]
  BY <1>1, <1>2 DEF Text
<1>5. w[n + 2] = e
  BY <1>1, <1>2 DEF Text
<1>6. Len(w) # 0 /\ Len(<< >>) = 0 /\ 1 \in 1..(n + 1)
  BY <1>1, <1>3
<1>7. w # << >>
  BY <1>6
<1>8. \A k \in 1..n : 1 + k \in 1..(n + 1)
  BY <1>1
<1> HIDE DEF w
<1>9. Lies(s, w, 1)
  <2>1. 1 + n <= Len(w)
    BY <1>1, <1>3
  <2>2. ASSUME NEW k \in 1..n PROVE w[1 + k].len = s[k].len /\ w[1 + k].kind = s[k].kind
    BY <1>1, <1>4, <1>8 DEF Lies
  <2> QED BY <2>1, <2>2 DEF Lies
<1> QED BY <1>1, <1>3, <1>4, <1>5, <1>6, <1>7, <1>9 DEF w, h

\* A value of indefinite length
LEMMA WrapIndefinite ==
    ASSUME NEW x \in Token, x.kind = "tlv", x.len = -1, NEW s \in Values
    PROVE  <<x.tag, Headed(x, s) \o << EndOfContents >> >> \in Single
<1> DEFINE e == EndOfContents
           w == Headed(x, s) \o << e >>
           n == Len(s)
<1>1. s \in Text /\ Whole(s) /\ n \in Nat /\ \A k \in 1..n : s[k].len \in Int
  BY TextFacts DEF Values
<1>2. e \in Token /\ e.kind = "eoc" /\ e.len = 0
  BY EndFacts
<1> HIDE DEF e
<1>3. /\ w \in Text /\ Len(w) = n + 2 /\ w # << >>
      /\ w[1] = x /\ w[n + 2] = e /\ Lies(s, w, 1)
  BY <1>1, <1>2, EnclosedFacts
<1> HIDE DEF w
<1>4. Open(w, 1) = 1
  <2>1. Open(w, 0 + 1) = Open(w, 0) + Opened(w[0 + 1]) - Ended(w[0 + 1]) /\ Open(w, 0) = 0
    BY OpenNext, OpenNone
  <2>2. Opened(x) = 1 /\ Ended(x) = 0
    BY DEF Opened, Ended
  <2> QED BY <1>3, <2>1, <2>2
<1>5. \A k \in 0..n : Open(w, 1 + k) = 1 + Open(s, k) /\ Open(s, k) \in Int
  <2>1. \A k \in 0..n : Open(w, 1 + k) = Open(w, 1) + Open(s, k) /\ Open(s, k) \in Int
    BY <1>1, <1>3, OpenBehind, OpenInt
  <2> QED BY <1>4, <2>1
<1>6. Open(s, n) = 0
  BY <1>1 DEF Whole
<1>7. \A k \in 1..n :
         /\ Open(s, k) >= 0 /\ s[k].len \in Int /\ s[k].len >= -1
         /\ s[k].len >= 0 => Closed(s, k)
  BY <1>1 DEF Whole
<1>8. \A k \in 1..n : w[1 + k].len = s[k].len
  BY <1>3 DEF Lies
<1>9. ASSUME NEW k \in 1..n, s[k].len >= 0 PROVE Closed(w, 1 + k)
  <2>1. Len(w) \in Nat
    BY <1>1, <1>3
  <2>2. Closed(s, k)
    BY <1>7, <1>9
  <2> QED BY <1>1, <1>3, <1>9, <2>1, <2>2, ClosedBehind
<1> HIDE DEF n
<1>10. Open(w, n + 2) = 0
  <2>1. n \in 0..n /\ 1 + n \in Nat /\ (1 + n) + 1 = n + 2
    BY <1>1
  <2>2. Open(w, 1 + n) = 1
    BY <1>5, <1>6, <2>1
  <2>3. Open(w, (1 + n) + 1) = Open(w, 1 + n) + Opened(w[(1 + n) + 1]) - Ended(w[(1 + n) + 1])
    BY <2>1, OpenNext
  <2>4. Opened(e) = 0 /\ Ended(e) = 1
    BY <1>2 DEF Opened, Ended
  <2>5. Open(w, n + 2) = Open(w, 1 + n) + Opened(e) - Ended(e)
    BY <1>3, <2>1, <2>3
  <2> QED BY <2>2, <2>4, <2>5
<1>11. \A j \in 1..(n + 1) : j = 1 \/ \E i \in 1..n : j = 1 + i /\ i \in 0..n
  <2> TAKE j \in 1..(n + 1)
  <2>1. j = 1 \/ (j - 1 \in 1..n /\ j = 1 + (j - 1) /\ j - 1 \in 0..n)
    BY <1>1
  <2> QED BY <2>1
<1>12. ASSUME NEW j \in 1..(n + 1)
       PROVE  Open(w, j) > 0 /\ w[j].len >= -1 /\ (w[j].len >= 0 => Closed(w, j))
  <2>1. CASE j = 1
    BY <1>3, <1>4, <2>1
  <2>2. CASE j # 1
    <3>1. PICK i \in 1..n : j = 1 + i /\ i \in 0..n
      BY <1>11, <2>2
    <3> QED BY <1>5, <1>7, <1>8, <1>9, <3>1
  <2> QED BY <2>1, <2>2
<1>13. w[n + 2].len = 0 /\ Closed(w, n + 2)
  <2>1. w[n + 2].len = 0 /\ (n + 2) + 0 = n + 2 /\ n + 2 \in Nat
    BY <1>1, <1>2, <1>3
  <2>2. \A j \in (n + 2)..(n + 2) : j = n + 2
    BY <1>1
  <2> QED BY <1>3, <1>10, <2>1, <2>2 DEF Closed
<1>14. Whole(w)
  <2>1. ASSUME NEW k \in 1..(n + 2)
        PROVE  Open(w, k) >= 0 /\ w[k].len >= -1 /\ (w[k].len >= 0 => Closed(w, k))
    <3>1. k \in 1..(n + 1) \/ k = n + 2
      BY <1>1
    <3>2. CASE k \in 1..(n + 1)
      <4>1. Open(w, k) \in Int
        BY OpenInt
      <4> QED BY <1>12, <3>2, <4>1
    <3> QED BY <1>10, <1>13, <3>1, <3>2
  <2> QED BY <1>3, <1>10, <2>1 DEF Whole
<1>15. OneValue(w)
  <2>1. Len(w) - 1 = n + 1
    BY <1>1, <1>3
  <2> QED BY <1>3, <1>12, <1>14, <2>1 DEF OneValue
<1>16. x.tag \in Nat
  BY DEF Token
<1> QED BY <1>3, <1>15, <1>16 DEF Single, w, e

\* Contents that are there already
LEMMA LabelledValue ==
    ASSUME NEW v \in AnyTokens, NEW l \in Label
    PROVE  <<v[1].tag, Labelled(v, l)>> \in Single
<1> DEFINE w == Labelled(v, l)
           Bare == [kind : {"tlv", "eoc"}, tag : Nat, constructed : BOOLEAN, len : Int]
           n == Len(v)
<1>1. v \in Seq(Bare) /\ OneValue(v)
  BY EncoderAssumption
<1>2. Whole(v) /\ v # << >>
  BY <1>1 DEF OneValue
<1>3. n \in Nat /\ n # 0
  BY <1>1, <1>2
<1> HIDE DEF Bare
<1>4. \A k \in 1..n : v[k] \in Bare
  BY <1>1
<1> HIDE DEF n
<1>5. \A k \in 1..n : v[k].kind \in {"tlv", "eoc"} /\ v[k].tag \in Nat
                       /\ v[k].constructed \in BOOLEAN /\ v[k].len \in Int
  BY <1>4 DEF Bare
<1>6. NoLabel \in Label
  BY DEF NoLabel, Label
<1>7. w = [k \in 1..n |-> Item(v[k].kind, v[k].tag, v[k].constructed, v[k].len,
                               IF k = 1 THEN l ELSE NoLabel)]
  BY DEF Labelled, n
<1> HIDE DEF w
<1>8. ASSUME NEW k \in 1..n
      PROVE  w[k] \in Token /\ w[k].len = v[k].len /\ w[k].kind = v[k].kind /\ w[k].tag = v[k].tag
  <2> DEFINE m == IF k = 1 THEN l ELSE NoLabel
  <2>1. m \in Label
    BY <1>6
  <2> HIDE DEF m
  <2>2. w[k] = Item(v[k].kind, v[k].tag, v[k].constructed, v[k].len, m)
    BY <1>7 DEF m
  <2> QED BY <1>5, <2>1, <2>2 DEF Item, Token
<1>9. w \in Text /\ Len(w) = n
  <2>1. w \in [1..n -> Token]
    BY <1>7, <1>8
  <2> QED BY <1>3, <2>1 DEF Text
<1>10. w # << >> /\ 1 \in 1..n
  <2>1. Len(<< >>) = 0
    OBVIOUS
  <2> QED BY <1>3, <1>9, <2>1
<1>11. Lies(v, w, 0)
  <2>1. \A k \in 1..n : 0 + k = k
    BY <1>3
  <2> QED BY <1>3, <1>8, <1>9, <2>1 DEF Lies, n
<1>12. \A k \in 0..n : Open(w, k) = Open(v, k)
  <2>1. \A k \in 0..n : Open(w, 0 + k) = Open(w, 0) + Open(v, k)
    BY <1>3, <1>11, OpenBehind DEF n
  <2>2. \A k \in 0..n : 0 + k = k /\ Open(v, k) \in Int
    BY <1>3, OpenInt
  <2> QED BY <2>1, <2>2, OpenNone
<1>13. \A k \in 1..n : Open(v, k) >= 0 /\ v[k].len >= -1 /\ (v[k].len >= 0 => Closed(v, k))
  BY <1>2 DEF Whole, n
<1>14. Open(v, n) = 0
  BY <1>2 DEF Whole, n
<1>15. Whole(w)
  <2>1. ASSUME NEW k \in 1..n
        PROVE  Open(w, k) >= 0 /\ w[k].len >= -1 /\ (w[k].len >= 0 => Closed(w, k))
    <3>1. ASSUME v[k].len >= 0 PROVE Closed(w, k)
      <4>1. Len(v) = n /\ 0 + k = k
        BY <1>3 DEF n
      <4>2. Closed(w, 0 + k)
        BY <1>3, <1>5, <1>9, <1>11, <1>13, <3>1, <4>1, ClosedBehind
      <4> QED BY <4>1, <4>2
    <3>2. k \in 0..n
      BY <1>3
    <3> QED BY <1>8, <1>12, <1>13, <3>1, <3>2
  <2>2. n \in 0..n
    BY <1>3
  <2> QED BY <1>9, <1>12, <1>14, <2>1, <2>2 DEF Whole
<1>16. OneValue(w)
  <2>1. IF v[1].len = -1 THEN \A k \in 1..(n - 1) : Open(v, k) > 0 ELSE n = 1 + v[1].len
    BY <1>1 DEF OneValue, n
  <2>2. \A k \in 1..(n - 1) : k \in 0..n
    BY <1>3
  <2>3. w[1].len = v[1].len
    BY <1>8, <1>10
  <2> QED BY <1>9, <1>10, <1>12, <1>15, <2>1, <2>2, <2>3 DEF OneValue
<1>17. w[1].tag = v[1].tag /\ v[1].tag \in Nat
  BY <1>5, <1>8, <1>10
<1> QED BY <1>9, <1>16, <1>17 DEF Single, w

-----------------------------------------------------------------------------

\* The function in FlattenSeq, up to the k-th sequence
Joins(f, k, c) == f = [i \in 1..k |-> IF i = 1 THEN c[i] ELSE f[i - 1] \o c[i]]

LEMMA JoinsOne ==
    ASSUME NEW c, NEW k \in Nat, NEW f, Joins(f, k, c)
    PROVE  \E g : Joins(g, k + 1, c)
<1> DEFINE last == IF k + 1 = 1 THEN c[k + 1] ELSE f[k] \o c[k + 1]
           g == [i \in 1..(k + 1) |-> IF i <= k THEN f[i] ELSE last]
<1>1. \A i \in 1..k : f[i] = IF i = 1 THEN c[i] ELSE f[i - 1] \o c[i]
  BY DEF Joins
<1>2. \A i \in 1..k : g[i] = f[i] /\ i \in 1..(k + 1)
  OBVIOUS
<1>3. g[k + 1] = last
  OBVIOUS
<1>4. g = [i \in 1..(k + 1) |-> g[i]]
  OBVIOUS
<1> HIDE DEF g
<1>5. ASSUME NEW i \in 1..(k + 1) PROVE g[i] = IF i = 1 THEN c[i] ELSE g[i - 1] \o c[i]
  <2>1. CASE i \in 1..k
    <3>1. i = 1 \/ i - 1 \in 1..k
      BY <2>1
    <3> QED BY <1>1, <1>2, <2>1, <3>1
  <2>2. CASE i = k + 1
    <3>1. i = 1 \/ (i - 1 \in 1..k /\ i - 1 = k)
      BY <2>2
    <3>2. CASE i = 1
      BY <1>3, <2>2, <3>2
    <3>3. CASE i # 1
      <4>1. g[i - 1] = f[k]
        BY <1>2, <3>1, <3>3
      <4> QED BY <1>3, <2>2, <3>3, <4>1
    <3> QED BY <3>2, <3>3
  <2> QED BY <2>1, <2>2
<1>6. g = [i \in 1..(k + 1) |-> IF i = 1 THEN c[i] ELSE g[i - 1] \o c[i]]
  BY <1>4, <1>5
<1> QED BY <1>6 DEF Joins

\* The running sums that FlattenSeq folds exist for every length.
LEMMA JoinsExist ==
    ASSUME NEW c, NEW n \in Nat
    PROVE  \E f : Joins(f, n, c)
<1> DEFINE S == {k \in Nat : \E f : Joins(f, k, c)}
<1>1. 0 \in S
  <2> DEFINE f == [i \in 1..0 |-> c[i]]
  <2>1. f = [i \in 1..0 |-> IF i = 1 THEN c[i] ELSE f[i - 1] \o c[i]]
    OBVIOUS
  <2> HIDE DEF f
  <2>2. Joins(f, 0, c)
    BY <2>1 DEF Joins
  <2> QED BY <2>2
<1>2. ASSUME NEW k \in Nat, k \in S PROVE k + 1 \in S
  BY <1>2, JoinsOne
<1>3. n \in S
  <2> HIDE DEF S
  <2> QED BY <1>1, <1>2, InductionOnNat
<1> QED BY <1>3

\* Putting the entries of a buffer, or the elements of a SET OF, one behind the other.
LEMMA FlattenHeld ==
    ASSUME NEW V, << >> \in V, \A s, t \in V : s \o t \in V,
           NEW c \in Seq(V)
    PROVE  FlattenSeq(c) \in V
<1> DEFINE n == Len(c)
           f == CHOOSE f : Joins(f, n, c)
           S == {k \in Nat : k + 1 <= n => f[k + 1] \in V}
<1>1. n \in Nat /\ \A i \in 1..n : c[i] \in V
  OBVIOUS
<1>2. CASE n = 0
  <2>1. c = << >>
    BY <1>2
  <2>2. FlattenSeq(c) = c
    BY <1>2 DEF FlattenSeq
  <2> QED BY <2>1, <2>2
<1>3. CASE n # 0
  <2>1. FlattenSeq(c) = f[n]
    BY <1>3 DEF FlattenSeq, Joins
  <2>2. Joins(f, n, c)
    BY <1>1, JoinsExist
  <2> HIDE DEF n, f
  <2>3. \A i \in 1..n : f[i] = IF i = 1 THEN c[i] ELSE f[i - 1] \o c[i]
    BY <2>2 DEF Joins
  <2>4. 0 \in S
    BY <1>1, <1>3, <2>3
  <2>5. ASSUME NEW k \in Nat, k \in S PROVE k + 1 \in S
    <3>1. ASSUME (k + 1) + 1 <= n PROVE f[(k + 1) + 1] \in V
      <4>1. k + 1 <= n /\ (k + 1) + 1 \in 1..n /\ (k + 1) + 1 # 1 /\ ((k + 1) + 1) - 1 = k + 1
        BY <1>1, <3>1
      <4>2. f[k + 1] \in V
        BY <2>5, <4>1
      <4>3. f[(k + 1) + 1] = f[k + 1] \o c[(k + 1) + 1]
        BY <2>3, <4>1
      <4> QED BY <1>1, <4>1, <4>2, <4>3
    <3> QED BY <3>1
  <2>6. n - 1 \in Nat
    BY <1>1, <1>3
  <2>7. n - 1 \in S
    <3> HIDE DEF S
    <3> QED BY <2>4, <2>5, <2>6, InductionOnNat
  <2>8. (n - 1) + 1 = n /\ (n - 1) + 1 <= n
    BY <1>1
  <2> QED BY <2>1, <2>7, <2>8
<1> QED BY <1>2, <1>3

-----------------------------------------------------------------------------

\* The numbers up to n are n.
LEMMA UpTo ==
    ASSUME NEW n \in Nat
    PROVE  IsFiniteSet(1..n) /\ Cardinality(1..n) = n
<1>1. IsFiniteSet(1..n) /\ Cardinality(1..n) = IF 1 > n THEN 0 ELSE n - 1 + 1
  BY FS_Interval
<1>2. (IF 1 > n THEN 0 ELSE n - 1 + 1) = n
  OBVIOUS
<1> QED BY <1>1, <1>2

\* The elements of a finite set in the order R
Before(S, R, x) == {y \in S : <<y, x>> \in R}

\* There is an element for every place in the order.
LEMMA PlaceTaken ==
    ASSUME NEW S, IsFiniteSet(S), NEW R,
           \A x \in S : <<x, x>> \notin R,
           \A x, y, z \in S : <<x, y>> \in R /\ <<y, z>> \in R => <<x, z>> \in R,
           \A x, y \in S : x = y \/ <<x, y>> \in R \/ <<y, x>> \in R,
           NEW k \in 1..Cardinality(S)
    PROVE  \E x \in S : Cardinality(Before(S, R, x)) = k - 1
<1> DEFINE n == Cardinality(S)
           T == 0..(n - 1)
           f == [x \in S |-> Cardinality(Before(S, R, x))]
<1>1. n \in Nat
  BY FS_CardinalityType
<1>2. ASSUME NEW x \in S
      PROVE  IsFiniteSet(Before(S, R, x)) /\ Cardinality(Before(S, R, x)) \in T
  <2>1. Before(S, R, x) \subseteq S /\ x \notin Before(S, R, x)
    BY DEF Before
  <2>2. /\ IsFiniteSet(Before(S, R, x)) /\ Cardinality(Before(S, R, x)) <= n
        /\ n = Cardinality(Before(S, R, x)) => S = Before(S, R, x)
    BY <2>1, FS_Subset
  <2>3. Cardinality(Before(S, R, x)) \in Nat /\ Cardinality(Before(S, R, x)) # n
    BY <2>1, <2>2, FS_CardinalityType
  <2> DEFINE b == Cardinality(Before(S, R, x))
  <2>4. b \in Nat /\ b <= n /\ b # n
    BY <2>2, <2>3
  <2> HIDE DEF b, n
  <2>5. b \in T
    BY <1>1, <2>4
  <2> QED BY <2>2, <2>5 DEF b
<1>3. ASSUME NEW x \in S, NEW y \in S, <<x, y>> \in R PROVE f[x] # f[y]
  <2>1. Before(S, R, x) \subseteq Before(S, R, y) /\ x \in Before(S, R, y) /\ x \notin Before(S, R, x)
    BY <1>3 DEF Before
  <2>2. Cardinality(Before(S, R, y)) = Cardinality(Before(S, R, x))
          => Before(S, R, y) = Before(S, R, x)
    BY <1>2, <2>1, FS_Subset
  <2> QED BY <2>1, <2>2
<1>4. \A x, y \in S : f[x] = f[y] => x = y
  BY <1>3
<1>5. f \in Injection(S, T)
  <2>1. f \in [S -> T]
    BY <1>2
  <2> HIDE DEF f, T
  <2> QED BY <1>4, <2>1 DEF Injection, IsInjective
<1>6. IsFiniteSet(T) /\ Cardinality(T) = n
  <2> HIDE DEF n
  <2>1. n - 1 \in Int /\ 0 \in Int
    BY <1>1
  <2>2. IsFiniteSet(T) /\ Cardinality(T) = IF 0 > n - 1 THEN 0 ELSE (n - 1) - 0 + 1
    BY <2>1, FS_Interval
  <2> HIDE DEF T
  <2>3. (IF 0 > n - 1 THEN 0 ELSE (n - 1) - 0 + 1) = n
    BY <1>1
  <2> QED BY <2>2, <2>3
<1>7. f \in Surjection(S, T)
  <2> HIDE DEF f, T
  <2> QED BY <1>5, <1>6, FS_Injection
<1>8. k - 1 \in T
  <2> HIDE DEF n
  <2>1. k \in 1..n
    BY DEF n
  <2> QED BY <1>1, <2>1
<1>9. PICK x \in S : f[x] = k - 1
  <2> HIDE DEF f, T
  <2> QED BY <1>7, <1>8 DEF Surjection
<1> QED BY <1>9

\* The buffer of a SET is read out by its own tags: every rank is taken by one of them.
LEMMA InOrderFacts ==
    ASSUME NEW tags \in SUBSET Nat, IsFiniteSet(tags)
    PROVE  InOrder(tags) \in [1..Cardinality(tags) -> tags]
<1> DEFINE R == {p \in Nat \X Nat : p[1] < p[2]}
<1>1. ASSUME NEW k \in 1..Cardinality(tags)
      PROVE  \E t \in tags : Cardinality({u \in tags : u < t}) = k - 1
  <2>1. /\ \A x \in tags : <<x, x>> \notin R
        /\ \A x, y, z \in tags : <<x, y>> \in R /\ <<y, z>> \in R => <<x, z>> \in R
        /\ \A x, y \in tags : x = y \/ <<x, y>> \in R \/ <<y, x>> \in R
    OBVIOUS
  <2>2. \A t \in tags : Before(tags, R, t) = {u \in tags : u < t}
    BY DEF Before
  <2> HIDE DEF R
  <2>3. PICK t \in tags : Cardinality(Before(tags, R, t)) = k - 1
    BY <2>1, PlaceTaken
  <2> QED BY <2>2, <2>3
<1>2. ASSUME NEW k \in 1..Cardinality(tags)
      PROVE  (CHOOSE t \in tags : Cardinality({u \in tags : u < t}) = k - 1) \in tags
  BY <1>1
<1> QED BY <1>2 DEF InOrder

LEMMA FirstOctetFacts ==
    ASSUME NEW a \in Text
    PROVE  FirstOctet(a) \in Int
<1>1. CASE a = << >>
  BY <1>1 DEF FirstOctet
<1>2. CASE a # << >>
  <2>1. a[1] \in Token
    BY <1>2 DEF Text
  <2> DEFINE tag == a[1].tag
             c == a[1].constructed
  <2>2. tag \in Nat
    BY <2>1 DEF Token
  <2> HIDE DEF tag, c
  <2>3. Class(tag) \in Int /\ Value(tag) \in Int
    BY <2>2 DEF Class, Value, ClassSpan
  <2>4. IdentifierOctet(tag, c) \in Int
    BY <2>3 DEF IdentifierOctet
  <2> QED BY <1>2, <2>4 DEF FirstOctet, tag, c
<1> QED BY <1>1, <1>2

\* Sorting a SET OF keeps its elements: every place is taken by one of them.
LEMMA SortedFacts ==
    ASSUME NEW U, U \subseteq Text, NEW s \in Seq(U)
    PROVE  Sorted(s) \in Seq(U)
<1> DEFINE n == Len(s)
           D == 1..n
           F == [i \in D |-> FirstOctet(s[i])]
           R == {p \in D \X D : F[p[1]] < F[p[2]] \/ (~(F[p[2]] < F[p[1]]) /\ p[1] < p[2])}
           B(i) == {j \in D : \/ Ascending(s[j], s[i])
                              \/ ~Ascending(s[i], s[j]) /\ j < i}
<1>1. n \in Nat /\ \A i \in D : s[i] \in U
  OBVIOUS
<1>2. IsFiniteSet(D) /\ Cardinality(D) = n
  <2> HIDE DEF n
  <2> QED BY <1>1, UpTo
<1> HIDE DEF n
<1>3. \A i \in D : F[i] \in Int /\ i \in Int
  BY <1>1, FirstOctetFacts
<1>4. \A i \in D : Before(D, R, i) = B(i)
  BY DEF Before, Ascending
<1> HIDE DEF F
<1>5. /\ \A x \in D : <<x, x>> \notin R
      /\ \A x, y, z \in D : <<x, y>> \in R /\ <<y, z>> \in R => <<x, z>> \in R
      /\ \A x, y \in D : x = y \/ <<x, y>> \in R \/ <<y, x>> \in R
  BY <1>3
<1>6. ASSUME NEW k \in D PROVE \E i \in D : Cardinality(B(i)) = k - 1
  <2> HIDE DEF D, R, B
  <2>1. k \in 1..Cardinality(D)
    BY <1>2 DEF D
  <2>2. PICK i \in D : Cardinality(Before(D, R, i)) = k - 1
    BY <1>2, <1>5, <2>1, PlaceTaken
  <2> QED BY <1>4, <2>2
<1>7. ASSUME NEW k \in D PROVE s[CHOOSE i \in D : Cardinality(B(i)) = k - 1] \in U
  <2> HIDE DEF B
  <2> QED BY <1>1, <1>6
<1>8. Sorted(s) = [k \in D |-> s[CHOOSE i \in D : Cardinality(B(i)) = k - 1]]
  BY DEF Sorted, n
<1>9. Sorted(s) \in [D -> U]
  <2> HIDE DEF B
  <2> QED BY <1>7, <1>8
<1> QED BY <1>1, <1>9

\* The sequences that are kept with a tag
Under(E) == {p[2] : p \in E}

LEMMA UnderTag ==
    ASSUME NEW E, NEW t, NEW s, <<t, s>> \in E
    PROVE  s \in Under(E)
<1>1. <<t, s>>[2] = s
  OBVIOUS
<1> QED BY <1>1 DEF Under

Buffer(E) == {b \in UNION {[tags -> Under(E)] : tags \in {s \in SUBSET Nat : IsFiniteSet(s)}} :
                 \A tag \in DOMAIN b : <<tag, b[tag]>> \in E}

-----------------------------------------------------------------------------

\* Where a value may be written: in the encoder of a type, or in the caller's
Places == Types \cup {NoType}

\* What the buffer of a SET hands on
Together(b) == FlattenSeq([k \in 1..Cardinality(DOMAIN b) |-> b[InOrder(DOMAIN b)[k]]])

\* A value of an encoder's own around what it has written
Wrapped(x, s, p) ==
    \/ x.len = Len(s) /\ p = <<x.tag, Headed(x, s)>>
    \/ x.len = -1 /\ p = <<x.tag, Headed(x, s) \o << EndOfContents >> >>

\* For every place t, sequences V[t] and values with their tags E[t] that the encoder
\* does not lead out of: joining, reading a SET out, sorting a SET OF, framing, Any
Keeps(V, E) ==
    \A t \in Places :
        /\ V[t] \subseteq Text /\ << >> \in V[t]
        /\ \A p \in E[t] : p[1] \in Nat /\ p[2] \in V[t] /\ p[2] # << >>
        /\ Kind(t) \notin {"set", "setOf"} => \A r, s \in V[t] : r \o s \in V[t]
        /\ Kind(t) = "set" => \A b \in Buffer(E[t]) : Together(b) \in V[t]
        /\ Kind(t) = "setOf" => \A c \in Seq(Under(E[t])) : FlattenSeq(Sorted(c)) \in V[t]
        /\ \A u \in Places, x \in Token : \A s \in V[u] : \A p :
              x.kind = "tlv" /\ x.label.within \in {t, NoType} /\ Wrapped(x, s, p) => p \in E[t]
        /\ \A v \in AnyTokens, l \in Label :
              l.within \in {t, NoType} => <<v[1].tag, Labelled(v, l)>> \in E[t]

\* The same sequences W, and values G, in every place
KeepsAll(W, G) ==
    /\ W \subseteq Text /\ << >> \in W
    /\ \A p \in G : p[1] \in Nat /\ p[2] \in W /\ p[2] # << >>
    /\ \A r, s \in W : r \o s \in W
    /\ \A x \in Token : \A s \in W : \A p : x.kind = "tlv" /\ Wrapped(x, s, p) => p \in G
    /\ \A v \in AnyTokens, l \in Label : <<v[1].tag, Labelled(v, l)>> \in G

Everywhere(W) == [t \in Places |-> W]

\* A SET's buffer, put together, is among what is held at every place.
LEMMA TogetherHeld ==
    ASSUME NEW W, NEW G, KeepsAll(W, G), NEW b \in Buffer(G)
    PROVE  Together(b) \in W
<1> DEFINE tags == DOMAIN b
           n == Cardinality(tags)
           c == [k \in 1..n |-> b[InOrder(tags)[k]]]
<1>1. tags \in SUBSET Nat /\ IsFiniteSet(tags) /\ \A t \in tags : b[t] \in Under(G)
  BY DEF Buffer
<1>2. Under(G) \subseteq W
  BY DEF KeepsAll, Under
<1>3. InOrder(tags) \in [1..n -> tags] /\ n \in Nat
  BY <1>1, InOrderFacts, FS_CardinalityType
<1> HIDE DEF tags, n
<1>4. c \in [1..n -> W]
  BY <1>1, <1>2, <1>3
<1>5. c \in Seq(W)
  BY <1>3, <1>4
<1> HIDE DEF c
<1>6. FlattenSeq(c) \in W
  BY <1>5, FlattenHeld DEF KeepsAll
<1> QED BY <1>6 DEF Together, c, n, tags

\* So are the elements of a SET OF, sorted.
LEMMA SortedHeld ==
    ASSUME NEW W, NEW G, KeepsAll(W, G), NEW c \in Seq(Under(G))
    PROVE  FlattenSeq(Sorted(c)) \in W
<1>1. Under(G) \subseteq W /\ Under(G) \subseteq Text
  BY DEF KeepsAll, Under
<1>2. Sorted(c) \in Seq(Under(G))
  BY <1>1, SortedFacts
<1>3. Sorted(c) \in Seq(W)
  BY <1>1, <1>2
<1> QED BY <1>3, FlattenHeld DEF KeepsAll

\* What is kept whatever the place gives families that are kept.
LEMMA KeptEverywhere ==
    ASSUME NEW W, NEW G, KeepsAll(W, G)
    PROVE  Keeps(Everywhere(W), Everywhere(G))
<1> DEFINE V == Everywhere(W)
           E == Everywhere(G)
<1>1. \A t \in Places : V[t] = W /\ E[t] = G
  BY DEF Everywhere
<1> HIDE DEF V, E
<1>2. \A b \in Buffer(G) : Together(b) \in W
  BY TogetherHeld
<1>3. \A c \in Seq(Under(G)) : FlattenSeq(Sorted(c)) \in W
  BY SortedHeld
<1> SUFFICES ASSUME NEW t \in Places
             PROVE  /\ V[t] \subseteq Text /\ << >> \in V[t]
                    /\ \A p \in E[t] : p[1] \in Nat /\ p[2] \in V[t] /\ p[2] # << >>
                    /\ \A r, s \in V[t] : r \o s \in V[t]
                    /\ \A b \in Buffer(E[t]) : Together(b) \in V[t]
                    /\ \A c \in Seq(Under(E[t])) : FlattenSeq(Sorted(c)) \in V[t]
                    /\ \A u \in Places, x \in Token : \A s \in V[u] : \A p :
                          x.kind = "tlv" /\ Wrapped(x, s, p) => p \in E[t]
                    /\ \A v \in AnyTokens, l \in Label : <<v[1].tag, Labelled(v, l)>> \in E[t]
  BY DEF Keeps, V, E
<1>4. V[t] = W /\ E[t] = G
  BY <1>1
<1>5. \A u \in Places, x \in Token : \A s \in V[u] : \A p :
         x.kind = "tlv" /\ Wrapped(x, s, p) => p \in E[t]
  BY <1>1 DEF KeepsAll
<1> QED BY <1>2, <1>3, <1>4, <1>5 DEF KeepsAll

\* Values are closed under what the encoder does: joining, framing, labelling, Any.
LEMMA ValuesKept == Keeps(Everywhere(Values), Everywhere(Single))
<1>1. \A p \in Single : p[1] \in Nat /\ p[2] \in Values /\ p[2] # << >>
  BY DEF Single, Values, OneValue
<1>2. Values \subseteq Text
  BY DEF Values
<1>3. ASSUME NEW x \in Token, NEW s \in Values, NEW p, x.kind = "tlv", Wrapped(x, s, p)
      PROVE  p \in Single
  BY <1>3, WrapDefinite, WrapIndefinite DEF Wrapped
<1>4. KeepsAll(Values, Single)
  BY <1>1, <1>2, <1>3, EmptyWhole, JoinWhole, LabelledValue DEF KeepsAll
<1> QED BY <1>4, KeptEverywhere

Written1 == {p \in Nat \X Text : p[2] # << >>}

\* So are sequences of tokens, and those under any tag.
LEMMA TextKept == Keeps(Everywhere(Text), Everywhere(Written1))
<1>1. << >> \in Text /\ \A s, t \in Text : s \o t \in Text
  BY DEF Text
<1>2. \A p \in Written1 : p[1] \in Nat /\ p[2] \in Text /\ p[2] # << >>
  BY DEF Written1
<1>3. ASSUME NEW x \in Token, NEW s \in Text, NEW p, Wrapped(x, s, p)
      PROVE  p \in Written1
  <2>1. Headed(x, s) \in Text /\ Headed(x, s) # << >>
    BY HeadFacts
  <2>2. Headed(x, s) \o << EndOfContents >> \in Text /\ Headed(x, s) \o << EndOfContents >> # << >>
    BY EndFacts, EnclosedFacts
  <2>3. x.tag \in Nat
    BY DEF Token
  <2>4. <<x.tag, Headed(x, s)>> \in Written1 /\ <<x.tag, Headed(x, s) \o << EndOfContents >> >> \in Written1
    BY <2>1, <2>2, <2>3 DEF Written1
  <2> QED BY <1>3, <2>4 DEF Wrapped
<1>4. ASSUME NEW v \in AnyTokens, NEW l \in Label
      PROVE  <<v[1].tag, Labelled(v, l)>> \in Written1
  BY LabelledValue DEF Single, OneValue, Written1
<1>5. KeepsAll(Text, Written1)
  BY <1>1, <1>2, <1>3, <1>4 DEF KeepsAll
<1> QED BY <1>5, KeptEverywhere

-----------------------------------------------------------------------------

\* The order within what is written

\* The tokens of s are those of t behind the first m.
Part(s, t, m) ==
    /\ m + Len(s) <= Len(t)
    /\ \A k \in 1..Len(s) : t[m + k] = s[k]

\* Where s is a part of t, what it opens and ends lies there too.
LEMMA PartLies ==
    ASSUME NEW s, NEW t, NEW m, Part(s, t, m)
    PROVE  Lies(s, t, m)
BY DEF Part, Lies

\* Both of two sequences are parts of the one put together from them.
LEMMA PartsOfJoin ==
    ASSUME NEW s \in Text, NEW t \in Text
    PROVE  /\ s \o t \in Text /\ Len(s \o t) = Len(s) + Len(t)
           /\ Part(s, s \o t, 0) /\ Part(t, s \o t, Len(s))
<1>1. s \o t \in Text /\ Len(s \o t) = Len(s) + Len(t) /\ Len(s) \in Nat /\ Len(t) \in Nat
  BY TextFacts DEF Text
<1>2. \A k \in 1..Len(s) : (s \o t)[0 + k] = s[k]
  BY DEF Text
<1>3. \A k \in 1..Len(t) : (s \o t)[Len(s) + k] = t[k]
  BY DEF Text
<1> QED BY <1>1, <1>2, <1>3 DEF Part

\* What follows in the whole follows in the part.
LEMMA FollowsInside ==
    ASSUME NEW s \in Text, NEW t \in Text, NEW m \in Nat, Part(s, t, m),
           NEW i \in 1..Len(s), NEW j \in 1..Len(s), Follows(t, m + i, m + j)
    PROVE  Follows(s, i, j)
<1> DEFINE n == Len(s)
           x == Open(t, m)
<1>1. n \in Nat /\ Lies(s, t, m) /\ \A k \in 1..n : s[k].len \in Int /\ t[m + k] = s[k]
  BY TextFacts, PartLies DEF Part
<1>2. \A k \in 0..n : Open(t, m + k) = x + Open(s, k) /\ Open(s, k) \in Int
  BY <1>1, OpenBehind, OpenInt
<1>3. x \in Int
  BY OpenInt
<1>4. t[m + i] = s[i] /\ t[m + j] = s[j] /\ i \in 1..n /\ j \in 1..n /\ s[i].len \in Int
  BY <1>1
<1>5. /\ s[i].kind = "tlv" /\ s[j].kind = "tlv" /\ EndsWith(t, m + i, (m + j) - 1)
      /\ \A k \in 1..((m + i) - 1) : k + t[k].len >= m + i => k + t[k].len >= m + j
  BY <1>4 DEF Follows
<1> HIDE DEF n, x
<1>6. EndsWith(s, i, j - 1)
  <2>1. CASE s[i].len >= 0
    <3> DEFINE l == s[i].len
    <3>1. (m + j) - 1 = (m + i) + l /\ l \in Int
      BY <1>4, <1>5, <2>1 DEF EndsWith
    <3> HIDE DEF l
    <3>2. j - 1 = i + l
      BY <1>4, <3>1
    <3> QED BY <2>1, <3>2 DEF EndsWith, l
  <2>2. CASE ~(s[i].len >= 0)
    <3>1. /\ (m + j) - 1 > m + i /\ Open(t, (m + j) - 1) = Open(t, (m + i) - 1)
          /\ \A k \in (m + i)..(((m + j) - 1) - 1) : Open(t, k) > Open(t, (m + i) - 1)
      BY <1>4, <1>5, <2>2 DEF EndsWith
    <3>2. j - 1 > i /\ j - 1 \in 0..n /\ i - 1 \in 0..n
          /\ (m + j) - 1 = m + (j - 1) /\ (m + i) - 1 = m + (i - 1)
      BY <1>1, <1>4, <3>1
    <3>3. Open(s, j - 1) = Open(s, i - 1)
      BY <1>2, <1>3, <3>1, <3>2
    <3>4. ASSUME NEW k \in i..((j - 1) - 1) PROVE Open(s, k) > Open(s, i - 1)
      <4>1. k \in 0..n /\ m + k \in (m + i)..(((m + j) - 1) - 1)
        BY <1>1, <1>4
      <4>2. Open(t, m + k) > Open(t, m + (i - 1))
        BY <3>1, <3>2, <4>1
      <4>3. /\ Open(t, m + k) = x + Open(s, k) /\ Open(s, k) \in Int
            /\ Open(t, m + (i - 1)) = x + Open(s, i - 1) /\ Open(s, i - 1) \in Int
        BY <1>2, <3>2, <4>1
      <4> DEFINE a == Open(s, k)
                 b == Open(s, i - 1)
      <4>4. x + a > x + b /\ a \in Int /\ b \in Int
        BY <4>2, <4>3
      <4> HIDE DEF a, b
      <4>5. a > b
        BY <1>3, <4>4
      <4> QED BY <4>5 DEF a, b
    <3> QED BY <2>2, <3>2, <3>3, <3>4 DEF EndsWith
  <2> QED BY <2>1, <2>2
<1>7. ASSUME NEW k \in 1..(i - 1), k + s[k].len >= i PROVE k + s[k].len >= j
  <2> DEFINE l == s[k].len
  <2>1. k \in 1..n /\ m + k \in 1..((m + i) - 1) /\ t[m + k].len = l /\ l \in Int
    BY <1>1, <1>4
  <2>2. (m + k) + l >= m + i => (m + k) + l >= m + j
    BY <1>5, <2>1
  <2>3. k + l >= i
    BY <1>7
  <2> HIDE DEF l
  <2>4. k + l >= j
    BY <1>4, <2>1, <2>2, <2>3
  <2> QED BY <2>4 DEF l
<1> QED BY <1>5, <1>6, <1>7 DEF Follows

\* A value that is in no other
AtTop(s, i) ==
    /\ s[i].kind = "tlv" /\ Open(s, i - 1) = 0
    /\ \A k \in 1..(i - 1) : k + s[k].len < i

\* It is in no other of the part either.
LEMMA TopInside ==
    ASSUME NEW s \in Text, NEW t \in Text, NEW m \in Nat, Part(s, t, m), Open(t, m) = 0,
           NEW i \in 1..Len(s), AtTop(t, m + i)
    PROVE  AtTop(s, i)
<1> DEFINE n == Len(s)
<1>1. n \in Nat /\ Lies(s, t, m) /\ \A k \in 1..n : s[k].len \in Int /\ t[m + k] = s[k]
  BY TextFacts, PartLies DEF Part
<1>2. \A k \in 0..n : Open(t, m + k) = Open(s, k) /\ Open(s, k) \in Int
  <2>1. \A k \in 0..n : Open(t, m + k) = Open(t, m) + Open(s, k) /\ Open(s, k) \in Int
    BY <1>1, OpenBehind, OpenInt
  <2> TAKE k \in 0..n
  <2> DEFINE a == Open(s, k)
  <2>2. Open(t, m + k) = 0 + a /\ a \in Int
    BY <2>1
  <2> HIDE DEF a
  <2>3. Open(t, m + k) = a /\ a \in Int
    BY <2>2
  <2> QED BY <2>3 DEF a
<1>3. i - 1 \in 0..n /\ (m + i) - 1 = m + (i - 1) /\ t[m + i] = s[i] /\ i \in 1..n
  BY <1>1
<1>4. Open(s, i - 1) = 0 /\ s[i].kind = "tlv"
  BY <1>2, <1>3 DEF AtTop
<1> HIDE DEF n
<1>5. ASSUME NEW k \in 1..(i - 1) PROVE k + s[k].len < i
  <2> DEFINE l == s[k].len
  <2>1. k \in 1..n /\ m + k \in 1..((m + i) - 1)
    BY <1>1, <1>3
  <2>2. t[m + k].len = l /\ l \in Int
    BY <1>1, <2>1
  <2>3. (m + k) + l < m + i
    BY <2>1, <2>2 DEF AtTop
  <2> HIDE DEF l
  <2>4. k + l < i
    BY <1>3, <2>1, <2>2, <2>3
  <2> QED BY <2>4 DEF l
<1> QED BY <1>4, <1>5 DEF AtTop

\* In one value there is one such, at its start, and nothing follows it.
LEMMA OneAtTop ==
    ASSUME NEW s \in Text, OneValue(s), NEW i \in 1..Len(s)
    PROVE  /\ AtTop(s, i) => i = 1
           /\ \A j \in 1..Len(s) : ~Follows(s, 1, j)
<1> DEFINE n == Len(s)
           l == s[1].len
<1>1. n \in Nat /\ n >= 1 /\ 1 \in 1..n /\ l \in Int /\ l >= -1 /\ i \in 1..n
  BY TextFacts DEF OneValue, Whole
<1>2. IF l = -1 THEN \A k \in 1..(n - 1) : Open(s, k) > 0 ELSE n = 1 + l
  BY DEF OneValue
<1>3. Open(s, 0) = 0
  BY OpenNone
<1> HIDE DEF n
<1>4. ASSUME AtTop(s, i), i # 1 PROVE FALSE
  <2>1. Open(s, i - 1) = 0 /\ 1 + l < i /\ i - 1 \in 1..(n - 1)
    BY <1>1, <1>4 DEF AtTop
  <2> HIDE DEF l
  <2> QED BY <1>1, <1>2, <2>1
<1>5. ASSUME NEW j \in 1..n, Follows(s, 1, j) PROVE FALSE
  <2>1. EndsWith(s, 1, j - 1)
    BY <1>5 DEF Follows
  <2>2. CASE l >= 0
    <3>1. j - 1 = 1 + l
      BY <2>1, <2>2 DEF EndsWith
    <3> HIDE DEF l
    <3> QED BY <1>1, <1>2, <2>2, <3>1
  <2>3. CASE l = -1
    <3>1. j - 1 > 1 /\ Open(s, j - 1) = Open(s, 1 - 1) /\ 1 - 1 = 0
      BY <2>1, <2>3 DEF EndsWith
    <3>2. j - 1 \in 1..(n - 1)
      BY <1>1, <3>1
    <3> QED BY <1>2, <1>3, <2>3, <3>1, <3>2
  <2> HIDE DEF l
  <2> QED BY <1>1, <2>2, <2>3
<1> QED BY <1>4, <1>5 DEF n

\* A value follows only what stands before it.
LEMMA FollowsBehind ==
    ASSUME NEW s \in Text, NEW i \in 1..Len(s), NEW j \in 1..Len(s), Follows(s, i, j)
    PROVE  i < j
<1> DEFINE l == s[i].len
<1>1. l \in Int /\ i \in Nat /\ j \in Nat
  BY TextFacts
<1>2. EndsWith(s, i, j - 1)
  BY DEF Follows
<1>3. CASE l >= 0
  <2>1. j - 1 = i + l
    BY <1>2, <1>3 DEF EndsWith
  <2> HIDE DEF l
  <2> QED BY <1>1, <1>3, <2>1
<1>4. CASE ~(l >= 0)
  <2>1. j - 1 > i
    BY <1>2, <1>4 DEF EndsWith
  <2> QED BY <1>1, <2>1
<1> QED BY <1>3, <1>4

\* Where values are put behind values, what follows across the join is the first of
\* them, and it follows one that is in no other.
LEMMA FollowsAcross ==
    ASSUME NEW s \in Values, NEW t \in Values,
           NEW i \in 1..Len(s), NEW j \in (Len(s) + 1)..(Len(s) + Len(t)), Follows(s \o t, i, j)
    PROVE  j = Len(s) + 1 /\ AtTop(s, i)
<1> DEFINE w == s \o t
           m == Len(s)
           n == Len(t)
           l == s[i].len
<1>1. s \in Text /\ t \in Text /\ Whole(s)
  BY DEF Values
<1>2. /\ w \in Text /\ Len(w) = m + n /\ Part(s, w, 0) /\ Lies(s, w, 0)
      /\ m \in Nat /\ n \in Nat /\ i \in 1..m /\ j \in (m + 1)..(m + n)
  BY <1>1, PartsOfJoin, PartLies, TextFacts
<1> HIDE DEF w
<1>3. \A k \in 1..m : w[k] = s[k] /\ s[k].len \in Int
  <2>1. \A k \in 1..m : 0 + k = k
    BY <1>2
  <2> QED BY <1>1, <1>2, <2>1, TextFacts DEF Part
<1>4. \A k \in 0..m : Open(w, k) = Open(s, k) /\ Open(s, k) \in Int
  <2>1. \A k \in 0..m : Open(w, 0 + k) = Open(w, 0) + Open(s, k) /\ Open(s, k) \in Int
    BY <1>2, OpenBehind, OpenInt
  <2>2. \A k \in 0..m : 0 + k = k
    BY <1>2
  <2> QED BY <2>1, <2>2, OpenNone
<1>5. /\ Open(s, m) = 0 /\ Open(s, 0) = 0
      /\ \A k \in 1..m : Open(s, k) >= 0 /\ s[k].len >= -1 /\ (s[k].len >= 0 => Closed(s, k))
  BY <1>1, OpenNone DEF Whole
<1>6. s[i].kind = "tlv" /\ EndsWith(w, i, j - 1) /\ w[i].len = l /\ l \in Int
  BY <1>2, <1>3 DEF Follows, w
<1>7. \A k \in 1..(i - 1) : k + s[k].len >= i => k + s[k].len >= j
  <2>1. \A k \in 1..(i - 1) : k \in 1..m
    BY <1>2
  <2>2. \A k \in 1..(i - 1) : k + w[k].len >= i => k + w[k].len >= j
    BY DEF Follows, w
  <2> QED BY <1>3, <2>1, <2>2
<1>8. \A k \in 1..m : s[k].len >= 0 => k + s[k].len <= m /\ Open(s, k + s[k].len) = Open(s, k)
  BY <1>5 DEF Closed, m
<1> HIDE DEF m, n
<1>9. j = m + 1 /\ Open(s, i - 1) = 0
  <2>1. CASE l >= 0
    <3>1. j - 1 = i + l
      BY <1>6, <2>1 DEF EndsWith
    <3>2. i + l <= m /\ Open(s, i + l) = Open(s, i)
      BY <1>2, <1>8, <2>1
    <3>3. j = m + 1 /\ i + l = m
      <4>1. m \in Nat /\ i \in Int /\ j \in Int /\ j > m /\ l \in Int /\ i + l <= m
        BY <1>2, <1>6, <3>2
      <4> HIDE DEF l
      <4> QED BY <3>1, <4>1
    <3>4. Open(s, i) = 0
      BY <1>5, <3>2, <3>3
    <3>5. Open(s, (i - 1) + 1) = Open(s, i - 1) + Opened(s[(i - 1) + 1]) - Ended(s[(i - 1) + 1])
      BY <1>2, OpenNext
    <3>6. (i - 1) + 1 = i /\ Opened(s[i]) = 0 /\ Ended(s[i]) = 0 /\ i - 1 \in 0..m
      BY <1>2, <1>6, <2>1 DEF Opened, Ended
    <3> QED BY <1>4, <3>3, <3>4, <3>5, <3>6
  <2>2. CASE ~(l >= 0)
    <3>1. /\ j - 1 > i /\ Open(w, j - 1) = Open(w, i - 1)
          /\ \A k \in i..((j - 1) - 1) : Open(w, k) > Open(w, i - 1)
      BY <1>6, <2>2 DEF EndsWith
    <3>2. i - 1 \in 0..m /\ Open(s, i - 1) >= 0 /\ Open(w, i - 1) = Open(s, i - 1)
      <4>1. i - 1 \in 0..m /\ (i - 1 = 0 \/ i - 1 \in 1..m)
        BY <1>2
      <4> QED BY <1>4, <1>5, <4>1
    <3>3. m \in 0..m /\ Open(w, m) = 0
      BY <1>2, <1>4, <1>5
    <3>4. j = m + 1
      <4>1. SUFFICES ASSUME j # m + 1 PROVE FALSE
        OBVIOUS
      <4>2. m \in i..((j - 1) - 1)
        BY <1>2, <4>1
      <4>3. Open(w, m) > Open(w, i - 1)
        BY <3>1, <4>2
      <4> QED BY <1>4, <3>2, <3>3, <4>3
    <3>5. j - 1 = m
      BY <1>2, <3>4
    <3> QED BY <3>1, <3>2, <3>3, <3>4, <3>5
  <2> QED BY <2>1, <2>2
<1>10. ASSUME NEW k \in 1..(i - 1) PROVE k + s[k].len < i
  <2> DEFINE h == s[k].len
  <2>1. k \in 1..m /\ h \in Int /\ h >= -1 /\ (h >= 0 => k + h <= m)
    BY <1>2, <1>3, <1>5, <1>8
  <2>2. k + h >= i => k + h >= j
    BY <1>7
  <2> HIDE DEF h
  <2>3. k + h < i
    BY <1>2, <1>9, <2>1, <2>2
  <2> QED BY <2>3 DEF h
<1>11. AtTop(s, i)
  BY <1>6, <1>9, <1>10 DEF AtTop
<1> QED BY <1>9, <1>11 DEF m

\* Canonical values behind canonical values are canonical, if what is at the top of
\* the former is in place before the first of the latter.
LEMMA JoinCanonical ==
    ASSUME NEW s \in Values, NEW r \in Values, Canonical(s), Canonical(r),
           r # << >> => \A i \in 1..Len(s) : AtTop(s, i) => InPlace(s[i], r[1])
    PROVE  LET w == s \o r
               m == Len(s)
           IN  /\ Canonical(w)
               /\ \A i \in 1..Len(w) : AtTop(w, i) =>
                     \/ i \in 1..m /\ AtTop(s, i) /\ w[i] = s[i]
                     \/ i - m \in 1..Len(r) /\ AtTop(r, i - m) /\ w[i] = r[i - m]
<1> DEFINE w == s \o r
           m == Len(s)
           n == Len(r)
<1>1. s \in Text /\ r \in Text /\ Whole(s)
  BY DEF Values
<1>2. /\ w \in Text /\ Len(w) = m + n /\ Part(s, w, 0) /\ Part(r, w, m)
      /\ m \in Nat /\ n \in Nat
  BY <1>1, PartsOfJoin, TextFacts
<1>3. ASSUME NEW i \in 1..m, NEW j \in (m + 1)..(m + n), Follows(w, i, j)
      PROVE  j = m + 1 /\ AtTop(s, i)
  BY <1>3, FollowsAcross
<1>4. Open(s, m) = 0
  BY <1>1 DEF Whole
<1> HIDE DEF w
<1>5. /\ \A k \in 1..m : w[k] = s[k] /\ 0 + k = k
      /\ \A k \in 1..n : w[m + k] = r[k]
  <2>1. \A k \in 1..m : 0 + k = k
    BY <1>2
  <2> QED BY <1>2, <2>1 DEF Part
<1>6. Open(w, m) = 0 /\ Open(w, 0) = 0
  <2>1. \A k \in 0..m : Open(w, 0 + k) = Open(w, 0) + Open(s, k)
    BY <1>2, PartLies, OpenBehind
  <2>2. m \in 0..m /\ 0 + m = m /\ Open(s, m) \in Int
    BY <1>2, OpenInt
  <2> QED BY <1>4, <2>1, <2>2, OpenNone
<1>7. \A k \in 1..(m + n) : k \in 1..m \/ (k - m \in 1..n /\ m + (k - m) = k /\ k \in (m + 1)..(m + n))
  BY <1>2
<1>8. ASSUME NEW i \in 1..(m + n), NEW j \in 1..(m + n), Follows(w, i, j)
      PROVE  InPlace(w[i], w[j])
  <2>1. i < j
    BY <1>2, <1>8, FollowsBehind
  <2>2. CASE i \in 1..m /\ j \in 1..m
    <3>1. Follows(w, 0 + i, 0 + j)
      BY <1>5, <1>8, <2>2
    <3>2. Follows(s, i, j)
      BY <1>1, <1>2, <2>2, <3>1, FollowsInside
    <3>3. InPlace(s[i], s[j])
      BY <2>2, <3>2 DEF Canonical
    <3> QED BY <1>5, <2>2, <3>3
  <2>3. CASE i \in 1..m /\ j \notin 1..m
    <3>1. j = m + 1 /\ AtTop(s, i)
      BY <1>3, <1>7, <1>8, <2>3
    <3>2. n # 0 /\ 1 \in 1..n /\ w[m + 1] = r[1]
      BY <1>2, <1>5, <3>1
    <3>3. r # << >>
      <4>1. Len(<< >>) = 0
        OBVIOUS
      <4> QED BY <3>2, <4>1
    <3>4. InPlace(s[i], r[1])
      BY <2>3, <3>1, <3>3
    <3> QED BY <1>5, <2>3, <3>1, <3>2, <3>4
  <2>4. CASE i \notin 1..m
    <3>1. i - m \in 1..n /\ j - m \in 1..n /\ m + (i - m) = i /\ m + (j - m) = j
      BY <1>2, <2>1, <2>4
    <3>2. Follows(w, m + (i - m), m + (j - m))
      BY <1>8, <3>1
    <3> DEFINE a == i - m
               b == j - m
    <3> HIDE DEF a, b, m, n
    <3>3. Follows(r, a, b)
      <4>1. a \in 1..Len(r) /\ b \in 1..Len(r) /\ Follows(w, m + a, m + b)
        BY <3>1, <3>2 DEF a, b, n
      <4> QED BY <1>1, <1>2, <4>1, FollowsInside
    <3>4. InPlace(r[a], r[b])
      BY <3>1, <3>3 DEF Canonical, a, b, n
    <3>5. w[i] = r[a] /\ w[j] = r[b]
      BY <1>5, <3>1 DEF a, b
    <3> QED BY <3>4, <3>5
  <2> QED BY <2>2, <2>3, <2>4
<1>9. ASSUME NEW i \in 1..(m + n), AtTop(w, i)
      PROVE  \/ i \in 1..m /\ AtTop(s, i) /\ w[i] = s[i]
             \/ i - m \in 1..n /\ AtTop(r, i - m) /\ w[i] = r[i - m]
  <2>1. CASE i \in 1..m
    <3>1. AtTop(w, 0 + i)
      BY <1>5, <1>9, <2>1
    <3>2. AtTop(s, i)
      BY <1>1, <1>2, <1>6, <2>1, <3>1, TopInside
    <3> QED BY <1>5, <2>1, <3>2
  <2>2. CASE i \notin 1..m
    <3> DEFINE a == i - m
    <3>1. a \in 1..n /\ m + a = i
      BY <1>7, <2>2
    <3>2. AtTop(w, m + a)
      BY <1>9, <3>1
    <3> HIDE DEF a, m, n
    <3>3. AtTop(r, a)
      <4>1. a \in 1..Len(r)
        BY <3>1 DEF n
      <4> QED BY <1>1, <1>2, <1>6, <3>2, <4>1, TopInside
    <3>4. w[i] = r[a]
      BY <1>5, <3>1
    <3> QED BY <3>1, <3>3, <3>4 DEF a
  <2> QED BY <2>1, <2>2
<1>10. Canonical(w)
  BY <1>2, <1>8 DEF Canonical
<1> QED BY <1>2, <1>9, <1>10 DEF w

-----------------------------------------------------------------------------

\* What is at the top was written for the place t.
Heads(s, t) == \A i \in 1..Len(s) : AtTop(s, i) => s[i].label.within \in {t, NoType}

Ordered(t) == {s \in Values : Canonical(s) /\ Heads(s, t)}
OrderedText == [t \in Places |-> Ordered(t)]
OrderedValues == [t \in Places |-> {p \in Single : p[2] \in Ordered(t)}]

\* The families at one place
LEMMA PlaceFacts ==
    /\ NoType \in Places /\ Kind(NoType) = "root"
    /\ \A t \in Places : OrderedText[t] = Ordered(t)
    /\ \A t \in Places : OrderedValues[t] = {p \in Single : p[2] \in Ordered(t)}
BY DEF Places, Kind, OrderedText, OrderedValues

\* Nothing written yet is in order at every place.
LEMMA NoneOrdered ==
    ASSUME NEW t
    PROVE  << >> \in Ordered(t)
<1> DEFINE none == << >>
<1>1. none \in Values /\ Len(none) = 0
  BY EmptyWhole
<1> HIDE DEF none
<1>2. \A i \in 1..Len(none) : FALSE
  BY <1>1
<1>3. Canonical(none) /\ Heads(none, t)
  BY <1>2 DEF Canonical, Heads
<1> QED BY <1>1, <1>3 DEF Ordered, none

\* Where nothing is ordered, values are put one behind the other as they come.
LEMMA JoinOrdered ==
    ASSUME NEW t, Kind(t) \notin {"set", "setOf"}, NEW s \in Ordered(t), NEW r \in Ordered(t)
    PROVE  s \o r \in Ordered(t)
<1> DEFINE w == s \o r
           m == Len(s)
           n == Len(r)
<1>1. s \in Values /\ r \in Values /\ Canonical(s) /\ Canonical(r) /\ Heads(s, t) /\ Heads(r, t)
  BY DEF Ordered
<1>2. w \in Values
  BY <1>1, JoinWhole
<1>3. \A i \in 1..Len(s) : AtTop(s, i) => InPlace(s[i], r[1])
  <2>1. \A a, b : Kind(a.label.within) \notin {"set", "setOf"} => InPlace(a, b)
    BY DEF InPlace
  <2>2. \A i \in 1..Len(s) : AtTop(s, i) => Kind(s[i].label.within) \notin {"set", "setOf"}
    BY <1>1, PlaceFacts DEF Heads
  <2> QED BY <2>1, <2>2
<1> HIDE DEF w
<1>4. /\ Canonical(w)
      /\ \A i \in 1..Len(w) : AtTop(w, i) =>
            \/ i \in 1..m /\ AtTop(s, i) /\ w[i] = s[i]
            \/ i - m \in 1..n /\ AtTop(r, i - m) /\ w[i] = r[i - m]
  BY <1>1, <1>3, JoinCanonical DEF w
<1>5. Heads(w, t)
  BY <1>1, <1>4 DEF Heads
<1> QED BY <1>2, <1>4, <1>5 DEF Ordered, w

\* A value of its own around what is canonical
LEMMA WrapOrdered ==
    ASSUME NEW t, NEW u, NEW x \in Token, x.kind = "tlv", x.label.within \in {t, NoType},
           NEW s \in Ordered(u), NEW p, Wrapped(x, s, p)
    PROVE  p \in Single /\ p[2] \in Ordered(t)
<1> DEFINE w == p[2]
           n == Len(s)
<1>1. s \in Values /\ s \in Text /\ Canonical(s) /\ n \in Nat
  BY TextFacts DEF Ordered, Values
<1>2. p \in Single
  BY <1>1, WrapDefinite, WrapIndefinite DEF Wrapped
<1>3. w \in Text /\ OneValue(w)
  BY <1>2 DEF Single
<1>4. w \in Values
  BY <1>3 DEF Values, OneValue
<1>5. /\ w[1] = x /\ Part(s, w, 1)
      /\ Len(w) = n + 1 \/ (Len(w) = n + 2 /\ w[n + 2].kind = "eoc")
  <2>1. Headed(x, s) \in Text /\ Len(Headed(x, s)) = n + 1 /\ Headed(x, s)[1] = x /\ Part(s, Headed(x, s), 1)
    <3>1. << x >> \in Text /\ Len(<< x >>) = 1 /\ << x >>[1] = x
      BY DEF Text
    <3>2. Headed(x, s) = << x >> \o s
      BY DEF Headed
    <3> QED BY <1>1, <3>1, <3>2, HeadFacts, PartsOfJoin
  <2>2. CASE p = <<x.tag, Headed(x, s)>>
    BY <2>1, <2>2
  <2>3. CASE p = <<x.tag, Headed(x, s) \o << EndOfContents >> >>
    <3> DEFINE h == Headed(x, s)
               e == << EndOfContents >>
    <3>1. w = h \o e
      BY <2>3
    <3>2. e \in Text /\ Len(e) = 1
      BY EndFacts DEF Text
    <3> HIDE DEF h, w
    <3>3. h \in Text /\ Len(h) = n + 1 /\ h[1] = x /\ Part(s, h, 1)
      BY <2>1 DEF h
    <3>4. Len(w) = Len(h) + Len(e) /\ Part(h, w, 0)
      BY <3>1, <3>2, <3>3, PartsOfJoin
    <3>5. \A k \in 1..(n + 1) : w[k] = h[k] /\ 0 + k = k
      <4>1. \A k \in 1..(n + 1) : 0 + k = k
        BY <1>1
      <4> QED BY <3>3, <3>4, <4>1 DEF Part
    <3>6. Part(s, w, 1) /\ w[1] = x
      <4>1. \A k \in 1..n : 1 + k \in 1..(n + 1) /\ h[1 + k] = s[k]
        BY <1>1, <3>3 DEF Part
      <4>2. 1 + n <= Len(w) /\ 1 \in 1..(n + 1)
        BY <1>1, <3>2, <3>3, <3>4
      <4> QED BY <3>3, <3>5, <4>1, <4>2 DEF Part
    <3>7. Len(w) = n + 2 /\ w[n + 2].kind = "eoc"
      <4>1. Len(w) = n + 2
        BY <1>1, <3>2, <3>3, <3>4
      <4>2. Headed(x, s) \o << EndOfContents >> = w
        BY <3>1 DEF h
      <4>3. EndOfContents \in Token /\ EndOfContents.kind = "eoc"
        BY EndFacts
      <4>4. w[n + 2] = EndOfContents
        BY <1>1, <4>2, <4>3, EnclosedFacts
      <4> QED BY <4>1, <4>3, <4>4
    <3> QED BY <3>6, <3>7
  <2> QED BY <2>2, <2>3 DEF Wrapped
<1> HIDE DEF w
<1>6. Heads(w, t)
  <2>1. \A i \in 1..Len(w) : AtTop(w, i) => i = 1
    BY <1>3, OneAtTop
  <2> QED BY <1>5, <2>1 DEF Heads
<1>7. ASSUME NEW i \in 1..Len(w), NEW j \in 1..Len(w), Follows(w, i, j)
      PROVE  InPlace(w[i], w[j])
  <2>1. i < j /\ i # 1
    BY <1>3, <1>7, OneAtTop, FollowsBehind
  <2>2. w[i].kind = "tlv" /\ w[j].kind = "tlv"
    BY <1>7 DEF Follows
  <2>3. w[n + 2].kind = "eoc" \/ Len(w) = n + 1
    BY <1>5
  <2>4. j # n + 2
    BY <1>1, <2>2, <2>3
  <2> DEFINE a == i - 1
             b == j - 1
  <2>5. a \in 1..n /\ b \in 1..n /\ 1 + a = i /\ 1 + b = j
    BY <1>1, <1>5, <2>1, <2>4
  <2> HIDE DEF a, b
  <2>6. Follows(w, 1 + a, 1 + b)
    BY <1>7, <2>5
  <2>7. Follows(s, a, b)
    <3>1. a \in 1..Len(s) /\ b \in 1..Len(s) /\ 1 \in Nat /\ Part(s, w, 1)
      BY <1>5, <2>5
    <3> HIDE DEF n
    <3> QED BY <1>1, <1>3, <2>6, <3>1, FollowsInside
  <2>8. InPlace(s[a], s[b])
    BY <1>1, <2>5, <2>7 DEF Canonical
  <2>9. w[i] = s[a] /\ w[j] = s[b]
    BY <1>5, <2>5 DEF Part
  <2> QED BY <2>8, <2>9
<1>8. Canonical(w)
  BY <1>7 DEF Canonical
<1>9. w \in Ordered(t)
  BY <1>4, <1>6, <1>8 DEF Ordered
<1> QED BY <1>2, <1>9 DEF w

\* Contents that are there already
LEMMA LabelledOrdered ==
    ASSUME NEW t, NEW v \in AnyTokens, NEW l \in Label, l.within \in {t, NoType}
    PROVE  <<v[1].tag, Labelled(v, l)>> \in Single /\ Labelled(v, l) \in Ordered(t)
<1> DEFINE w == Labelled(v, l)
           p == <<v[1].tag, w>>
<1>1. p \in Single
  BY LabelledValue
<1>2. w \in Text /\ OneValue(w)
  <2>1. p[2] = w
    OBVIOUS
  <2> HIDE DEF p, w
  <2> QED BY <1>1, <2>1 DEF Single
<1>3. w \in Values
  BY <1>2 DEF Values, OneValue
<1>4. \A i \in 1..Len(w) : w[i].label = IF i = 1 THEN l ELSE NoLabel
  <2>1. w = [k \in 1..Len(v) |-> Item(v[k].kind, v[k].tag, v[k].constructed, v[k].len,
                                       IF k = 1 THEN l ELSE NoLabel)]
    BY DEF Labelled
  <2>2. Len(v) \in Nat
    BY EncoderAssumption
  <2> HIDE DEF w
  <2>3. Len(w) = Len(v)
    BY <2>1, <2>2
  <2> QED BY <2>1, <2>3 DEF Item
<1> HIDE DEF w
<1>5. Heads(w, t)
  <2>1. \A i \in 1..Len(w) : AtTop(w, i) => i = 1
    BY <1>2, OneAtTop
  <2> QED BY <1>4, <2>1 DEF Heads
<1>6. ASSUME NEW i \in 1..Len(w), NEW j \in 1..Len(w), Follows(w, i, j)
      PROVE  InPlace(w[i], w[j])
  <2>1. i # 1
    BY <1>2, <1>6, OneAtTop
  <2>2. w[i].label.within = NoType
    BY <1>4, <2>1 DEF NoLabel
  <2> QED BY <2>2, PlaceFacts DEF InPlace
<1>7. Canonical(w)
  BY <1>6 DEF Canonical
<1> QED BY <1>1, <1>3, <1>5, <1>7 DEF Ordered, w

\* Single values in place one before the other, put one behind the other
LEMMA FlattenOrdered ==
    ASSUME NEW t \in Places, NEW c \in Seq(Under(OrderedValues[t])),
           \A a, b \in 1..Len(c) : a < b /\ AtTop(c[a], 1) => InPlace(c[a][1], c[b][1])
    PROVE  FlattenSeq(c) \in Ordered(t)
<1> DEFINE n == Len(c)
           f == CHOOSE f : Joins(f, n, c)
           Tops(s, k) == \A i \in 1..Len(s) : AtTop(s, i) =>
                            \E a \in 1..k : s[i] = c[a][1] /\ AtTop(c[a], 1)
           S == {k \in Nat : k + 1 <= n => f[k + 1] \in Ordered(t) /\ Tops(f[k + 1], k + 1)}
<1>1. n \in Nat /\ \A k \in 1..n : c[k] \in Under(OrderedValues[t])
  OBVIOUS
<1>2. ASSUME NEW k \in 1..n
      PROVE  /\ c[k] \in Ordered(t) /\ c[k] \in Values /\ c[k] # << >> /\ Canonical(c[k]) /\ Heads(c[k], t)
             /\ \A i \in 1..Len(c[k]) : AtTop(c[k], i) => i = 1
  <2>1. PICK p \in OrderedValues[t] : c[k] = p[2]
    BY <1>1 DEF Under
  <2>2. p \in Single /\ p[2] \in Ordered(t)
    BY <2>1, PlaceFacts
  <2>3. p[2] \in Text /\ OneValue(p[2])
    BY <2>2 DEF Single
  <2>4. p[2] # << >> /\ \A i \in 1..Len(p[2]) : AtTop(p[2], i) => i = 1
    BY <2>3, OneAtTop DEF OneValue
  <2> QED BY <2>1, <2>2, <2>4 DEF Ordered
<1>3. CASE n = 0
  <2>1. c = << >>
    BY <1>3
  <2>2. FlattenSeq(c) = c
    BY <1>3 DEF FlattenSeq
  <2> QED BY <2>1, <2>2, NoneOrdered
<1>4. CASE n # 0
  <2>1. FlattenSeq(c) = f[n]
    BY <1>4 DEF FlattenSeq, Joins
  <2>2. Joins(f, n, c)
    BY <1>1, JoinsExist
  <2> HIDE DEF n, f
  <2>3. \A k \in 1..n : f[k] = IF k = 1 THEN c[k] ELSE f[k - 1] \o c[k]
    BY <2>2 DEF Joins
  <2>4. 0 \in S
    <3>1. 1 \in 1..n /\ f[1] = c[1] /\ 0 + 1 = 1
      BY <1>1, <1>4, <2>3
    <3>2. c[1] \in Ordered(t) /\ \A i \in 1..Len(c[1]) : AtTop(c[1], i) => i = 1
      BY <1>2, <3>1
    <3>3. Tops(c[1], 1)
      BY <3>2
    <3> HIDE DEF Tops
    <3> QED BY <3>1, <3>2, <3>3
  <2>5. ASSUME NEW k \in Nat, k \in S PROVE k + 1 \in S
    <3>1. SUFFICES ASSUME (k + 1) + 1 <= n
                   PROVE  f[(k + 1) + 1] \in Ordered(t) /\ Tops(f[(k + 1) + 1], (k + 1) + 1)
      OBVIOUS
    <3> DEFINE s == f[k + 1]
               q == (k + 1) + 1
               r == c[q]
               w == s \o r
    <3>2. /\ q \in 1..n /\ q # 1 /\ q - 1 = k + 1 /\ k + 1 <= n
          /\ \A a \in 1..(k + 1) : a \in 1..n /\ a < q /\ a \in 1..q
      BY <1>1, <3>1
    <3>3. f[q] = w
      BY <2>3, <3>2
    <3>4. s \in Ordered(t) /\ Tops(s, k + 1)
      BY <2>5, <3>2
    <3>5. /\ r \in Ordered(t) /\ r \in Values /\ Canonical(r) /\ Heads(r, t)
          /\ \A i \in 1..Len(r) : AtTop(r, i) => i = 1
      BY <1>2, <3>2
    <3>6. s \in Values /\ Canonical(s) /\ Heads(s, t)
      BY <3>4 DEF Ordered
    <3>7. \A i \in 1..Len(s) : AtTop(s, i) => InPlace(s[i], r[1])
      <4> TAKE i \in 1..Len(s)
      <4> HAVE AtTop(s, i)
      <4>1. PICK a \in 1..(k + 1) : s[i] = c[a][1] /\ AtTop(c[a], 1)
        BY <3>4
      <4>2. a \in 1..n /\ q \in 1..n /\ a < q
        BY <3>2
      <4>3. InPlace(c[a][1], c[q][1])
        BY <4>1, <4>2 DEF n
      <4> QED BY <4>1, <4>3
    <3> HIDE DEF s, q, r, Tops
    <3>8. w \in Values
      BY <3>5, <3>6, JoinWhole
    <3>9. /\ Canonical(w)
          /\ \A i \in 1..Len(w) : AtTop(w, i) =>
                \/ i \in 1..Len(s) /\ AtTop(s, i) /\ w[i] = s[i]
                \/ i - Len(s) \in 1..Len(r) /\ AtTop(r, i - Len(s)) /\ w[i] = r[i - Len(s)]
      BY <3>5, <3>6, <3>7, JoinCanonical
    <3> HIDE DEF w
    <3>10. Heads(w, t)
      BY <3>5, <3>6, <3>9 DEF Heads
    <3>11. Tops(w, q)
      <4> SUFFICES ASSUME NEW i \in 1..Len(w), AtTop(w, i)
                   PROVE  \E a \in 1..q : w[i] = c[a][1] /\ AtTop(c[a], 1)
        BY DEF Tops
      <4>1. CASE i \in 1..Len(s) /\ AtTop(s, i) /\ w[i] = s[i]
        <5>1. PICK a \in 1..(k + 1) : s[i] = c[a][1] /\ AtTop(c[a], 1)
          BY <3>4, <4>1 DEF Tops
        <5> QED BY <3>2, <4>1, <5>1
      <4>2. CASE i - Len(s) \in 1..Len(r) /\ AtTop(r, i - Len(s)) /\ w[i] = r[i - Len(s)]
        <5>1. i - Len(s) = 1
          BY <3>5, <4>2
        <5>2. q \in 1..q /\ w[i] = c[q][1] /\ AtTop(c[q], 1)
          BY <3>2, <4>2, <5>1 DEF r
        <5> QED BY <5>2
      <4> QED BY <3>9, <4>1, <4>2
    <3>12. w \in Ordered(t)
      BY <3>8, <3>9, <3>10 DEF Ordered
    <3> QED BY <3>3, <3>11, <3>12 DEF q
  <2>6. n - 1 \in Nat
    BY <1>1, <1>4
  <2>7. n - 1 \in S
    <3> HIDE DEF S
    <3> QED BY <2>4, <2>5, <2>6, InductionOnNat
  <2>8. (n - 1) + 1 = n /\ (n - 1) + 1 <= n
    BY <1>1
  <2> QED BY <2>1, <2>7, <2>8
<1> QED BY <1>3, <1>4

\* The buffer of a SET is read out in ascending order.
LEMMA InOrderAscends ==
    ASSUME NEW tags \in SUBSET Nat, IsFiniteSet(tags),
           NEW i \in 1..Cardinality(tags), NEW j \in 1..Cardinality(tags), i < j
    PROVE  InOrder(tags)[i] < InOrder(tags)[j]
<1> DEFINE n == Cardinality(tags)
           R == {p \in Nat \X Nat : p[1] < p[2]}
           Rank(x) == {u \in tags : u < x}
           a == InOrder(tags)[i]
           b == InOrder(tags)[j]
<1>1. ASSUME NEW k \in 1..n PROVE \E x \in tags : Cardinality(Rank(x)) = k - 1
  <2>1. /\ \A x \in tags : <<x, x>> \notin R
        /\ \A x, y, z \in tags : <<x, y>> \in R /\ <<y, z>> \in R => <<x, z>> \in R
        /\ \A x, y \in tags : x = y \/ <<x, y>> \in R \/ <<y, x>> \in R
    OBVIOUS
  <2>2. \A x \in tags : Before(tags, R, x) = Rank(x)
    BY DEF Before
  <2> HIDE DEF R, Rank
  <2>3. PICK x \in tags : Cardinality(Before(tags, R, x)) = k - 1
    BY <2>1, PlaceTaken
  <2> QED BY <2>2, <2>3
<1>2. ASSUME NEW k \in 1..n
      PROVE  InOrder(tags)[k] \in tags /\ Cardinality(Rank(InOrder(tags)[k])) = k - 1
  <2>1. InOrder(tags)[k] = CHOOSE x \in tags : Cardinality(Rank(x)) = k - 1
    BY DEF InOrder
  <2> HIDE DEF Rank
  <2> QED BY <1>1, <2>1
<1>3. a \in tags /\ b \in tags /\ Cardinality(Rank(a)) = i - 1 /\ Cardinality(Rank(b)) = j - 1
  <2> HIDE DEF Rank
  <2> QED BY <1>2
<1>4. ASSUME b <= a PROVE FALSE
  <2> HIDE DEF a, b
  <2>1. Rank(b) \subseteq Rank(a)
    <3> SUFFICES ASSUME NEW u \in tags, u < b PROVE u < a
      OBVIOUS
    <3>1. u \in Nat /\ a \in Nat /\ b \in Nat
      BY <1>3
    <3> QED BY <1>4, <3>1
  <2>2. IsFiniteSet(Rank(a))
    BY FS_Subset
  <2> HIDE DEF Rank
  <2>3. Cardinality(Rank(b)) <= Cardinality(Rank(a))
    BY <2>1, <2>2, FS_Subset
  <2> QED BY <1>3, <2>3
<1> HIDE DEF a, b
<1>5. a < b
  BY <1>3, <1>4
<1> QED BY <1>5 DEF a, b

\* The elements of a SET OF are sorted by their first octet.
LEMMA SortedAscends ==
    ASSUME NEW U, U \subseteq Text, NEW s \in Seq(U),
           NEW k \in 1..Len(s), NEW h \in 1..Len(s), k < h
    PROVE  FirstOctet(Sorted(s)[k]) <= FirstOctet(Sorted(s)[h])
<1> DEFINE n == Len(s)
           D == 1..n
           F == [i \in D |-> FirstOctet(s[i])]
           R == {p \in D \X D : F[p[1]] < F[p[2]] \/ (~(F[p[2]] < F[p[1]]) /\ p[1] < p[2])}
           B(i) == {j \in D : \/ Ascending(s[j], s[i])
                              \/ ~Ascending(s[i], s[j]) /\ j < i}
           Nth(q) == CHOOSE i \in D : Cardinality(B(i)) = q - 1
<1>1. n \in Nat /\ \A i \in D : s[i] \in U
  OBVIOUS
<1>2. IsFiniteSet(D) /\ Cardinality(D) = n
  <2> HIDE DEF n, F, R, B, Nth
  <2> QED BY <1>1, UpTo
<1> HIDE DEF n
<1>3. \A i \in D : F[i] \in Int /\ i \in Int /\ F[i] = FirstOctet(s[i])
  BY <1>1, FirstOctetFacts
<1>4. \A i \in D : Before(D, R, i) = B(i)
  BY DEF Before, Ascending
<1> HIDE DEF F
<1>5. /\ \A x \in D : <<x, x>> \notin R
      /\ \A x, y, z \in D : <<x, y>> \in R /\ <<y, z>> \in R => <<x, z>> \in R
      /\ \A x, y \in D : x = y \/ <<x, y>> \in R \/ <<y, x>> \in R
  <2>1. \A x, y \in D : <<x, y>> \in R <=> F[x] < F[y] \/ (~(F[y] < F[x]) /\ x < y)
    OBVIOUS
  <2> HIDE DEF D, R
  <2>2. ASSUME NEW x \in D PROVE <<x, x>> \notin R
    <3> DEFINE f == F[x]
    <3>1. f \in Int /\ x \in Int /\ (<<x, x>> \in R <=> f < f \/ (~(f < f) /\ x < x))
      BY <1>3, <2>1
    <3> HIDE DEF f
    <3>2. ~(f < f) /\ ~(x < x)
      BY <3>1
    <3> QED BY <3>1, <3>2
  <2>3. ASSUME NEW x \in D, NEW y \in D, NEW z \in D, <<x, y>> \in R, <<y, z>> \in R
        PROVE  <<x, z>> \in R
    <3> DEFINE f == F[x]
               g == F[y]
               d == F[z]
    <3>1. /\ f \in Int /\ g \in Int /\ d \in Int /\ x \in Int /\ y \in Int /\ z \in Int
          /\ f < g \/ (~(g < f) /\ x < y)
          /\ g < d \/ (~(d < g) /\ y < z)
      BY <1>3, <2>1, <2>3
    <3> HIDE DEF f, g, d
    <3>2. f < d \/ (~(d < f) /\ x < z)
      BY <3>1
    <3> QED BY <2>1, <3>2 DEF f, d
  <2>4. ASSUME NEW x \in D, NEW y \in D PROVE x = y \/ <<x, y>> \in R \/ <<y, x>> \in R
    <3> DEFINE f == F[x]
               g == F[y]
    <3>1. f \in Int /\ g \in Int /\ x \in Int /\ y \in Int
      BY <1>3
    <3> HIDE DEF f, g
    <3>2. x = y \/ (f < g \/ (~(g < f) /\ x < y)) \/ (g < f \/ (~(f < g) /\ y < x))
      BY <3>1
    <3> QED BY <2>1, <3>2 DEF f, g
  <2> QED BY <2>2, <2>3, <2>4
<1>6. ASSUME NEW q \in D PROVE \E i \in D : Cardinality(B(i)) = q - 1
  <2> HIDE DEF D, R, B
  <2>1. q \in 1..Cardinality(D)
    BY <1>2 DEF D
  <2>2. PICK i \in D : Cardinality(Before(D, R, i)) = q - 1
    BY <1>2, <1>5, <2>1, PlaceTaken
  <2> QED BY <1>4, <2>2
<1>7. ASSUME NEW q \in D PROVE Nth(q) \in D /\ Cardinality(B(Nth(q))) = q - 1
  <2> HIDE DEF B
  <2> QED BY <1>6
<1>8. Sorted(s) = [q \in D |-> s[Nth(q)]]
  BY DEF Sorted, n
<1> DEFINE x == Nth(k)
           y == Nth(h)
<1>9. /\ x \in D /\ Cardinality(B(x)) = k - 1
      /\ y \in D /\ Cardinality(B(y)) = h - 1
      /\ k \in Int /\ h \in Int /\ k < h
  <2>1. k \in D /\ h \in D
    BY DEF n
  <2> HIDE DEF B, D, Nth
  <2>2. /\ x \in D /\ Cardinality(B(x)) = k - 1
        /\ y \in D /\ Cardinality(B(y)) = h - 1
    BY <1>7, <2>1
  <2> QED BY <2>2
<1>10. Sorted(s)[k] = s[x] /\ Sorted(s)[h] = s[y]
  <2>1. k \in D /\ h \in D
    BY DEF n
  <2> HIDE DEF D, Nth
  <2> QED BY <1>8, <2>1
<1> HIDE DEF Nth, x, y
<1>11. ASSUME F[y] < F[x] PROVE FALSE
  <2>1. B(y) \subseteq B(x)
    <3>1. ASSUME NEW j \in D, <<j, y>> \in R PROVE <<j, x>> \in R
      BY <1>3, <1>9, <1>11, <3>1
    <3> HIDE DEF B, D, R
    <3>2. Before(D, R, y) \subseteq Before(D, R, x)
      BY <3>1 DEF Before
    <3> QED BY <1>4, <1>9, <3>2
  <2>2. IsFiniteSet(B(x))
    <3>1. B(x) \subseteq D
      OBVIOUS
    <3> HIDE DEF B
    <3> QED BY <1>2, <3>1, FS_Subset
  <2> HIDE DEF B
  <2>3. Cardinality(B(y)) <= Cardinality(B(x))
    BY <2>1, <2>2, FS_Subset
  <2> QED BY <1>9, <2>3
<1>12. F[x] <= F[y]
  BY <1>3, <1>9, <1>11
<1> QED BY <1>3, <1>9, <1>10, <1>12

\* The octet by which an element is sorted is the one its first token stands for.
LEMMA OctetFacts ==
    ASSUME NEW s \in Text, s # << >>
    PROVE  /\ FirstOctet(s) = 1 + IdentifierOctet(s[1].tag, s[1].constructed)
           /\ IdentifierOctet(s[1].tag, s[1].constructed) \in Int
<1> DEFINE tag == s[1].tag
           c == s[1].constructed
<1>1. s[1] \in Token
  BY DEF Text
<1>2. tag \in Nat
  BY <1>1 DEF Token
<1> HIDE DEF tag, c
<1>3. Class(tag) \in Int /\ Value(tag) \in Int
  BY <1>2 DEF Class, Value, ClassSpan
<1>4. IdentifierOctet(tag, c) \in Int
  BY <1>3 DEF IdentifierOctet
<1> QED BY <1>4 DEF FirstOctet, tag, c

\* What OrderedValues says of a value
LEMMA OrderedFacts ==
    ASSUME NEW t \in Places, NEW p \in OrderedValues[t]
    PROVE  /\ p[1] \in Nat /\ p[2] \in Ordered(t) /\ p[2] \in Text /\ p[2] # << >> /\ p[2][1].tag = p[1]
           /\ AtTop(p[2], 1) => p[2][1].label.within \in {t, NoType}
<1>1. p \in Single /\ p[2] \in Ordered(t)
  BY PlaceFacts
<1>2. p[1] \in Nat /\ p[2] \in Text /\ OneValue(p[2]) /\ p[2][1].tag = p[1]
  BY <1>1 DEF Single
<1>3. p[2] # << >> /\ Heads(p[2], t)
  BY <1>1, <1>2 DEF OneValue, Ordered
<1>4. 1 \in 1..Len(p[2])
  <2> DEFINE s == p[2]
  <2>1. s \in Seq(Token) /\ s # << >>
    BY <1>2, <1>3 DEF Text
  <2> HIDE DEF s
  <2>2. 1 \in 1..Len(s)
    BY <2>1
  <2> QED BY <2>2 DEF s
<1> QED BY <1>1, <1>2, <1>3, <1>4 DEF Heads

\* The buffer of a SET, read out by its tags
LEMMA TogetherOrdered ==
    ASSUME NEW t \in Places, Kind(t) = "set", NEW b \in Buffer(OrderedValues[t])
    PROVE  Together(b) \in Ordered(t)
<1> DEFINE tags == DOMAIN b
           n == Cardinality(tags)
           E == OrderedValues[t]
           c == [k \in 1..n |-> b[InOrder(tags)[k]]]
<1>1. tags \in SUBSET Nat /\ IsFiniteSet(tags) /\ \A u \in tags : b[u] \in Under(E) /\ <<u, b[u]>> \in E
  BY DEF Buffer
<1>2. InOrder(tags) \in [1..n -> tags] /\ n \in Nat
  BY <1>1, InOrderFacts, FS_CardinalityType
<1> HIDE DEF E
<1>3. \A i, j \in 1..n : i < j => InOrder(tags)[i] < InOrder(tags)[j]
  BY <1>1, InOrderAscends
<1> HIDE DEF tags, n
<1>4. c \in [1..n -> Under(E)] /\ \A k \in 1..n : c[k] = b[InOrder(tags)[k]]
  BY <1>1, <1>2
<1>5. ASSUME NEW k \in 1..n
      PROVE  /\ c[k][1].tag = InOrder(tags)[k]
             /\ AtTop(c[k], 1) => c[k][1].label.within \in {t, NoType}
  <2> DEFINE u == InOrder(tags)[k]
             p == <<u, b[u]>>
  <2>1. u \in tags /\ p \in E /\ p[1] = u /\ p[2] = b[u]
    BY <1>1, <1>2
  <2>2. c[k] = b[u]
    BY <1>4
  <2> HIDE DEF p, c, u
  <2>3. p[2][1].tag = p[1] /\ (AtTop(p[2], 1) => p[2][1].label.within \in {t, NoType})
    BY <2>1, OrderedFacts DEF E
  <2> QED BY <2>1, <2>2, <2>3 DEF u
<1>6. c \in Seq(Under(E)) /\ Len(c) = n
  BY <1>2, <1>4
<1> HIDE DEF c
<1>7. ASSUME NEW i \in 1..n, NEW j \in 1..n, i < j, AtTop(c[i], 1)
      PROVE  InPlace(c[i][1], c[j][1])
  <2>1. c[i][1].tag < c[j][1].tag
    BY <1>3, <1>5, <1>7
  <2>2. Kind(c[i][1].label.within) # "setOf"
    BY <1>5, <1>7, PlaceFacts
  <2> QED BY <2>1, <2>2 DEF InPlace
<1>8. FlattenSeq(c) \in Ordered(t)
  <2>1. c \in Seq(Under(OrderedValues[t]))
    BY <1>6 DEF E
  <2>2. \A i, j \in 1..Len(c) : i < j /\ AtTop(c[i], 1) => InPlace(c[i][1], c[j][1])
    BY <1>6, <1>7
  <2> QED BY <2>1, <2>2, FlattenOrdered
<1> QED BY <1>8 DEF Together, c, n, tags

\* The elements of a SET OF, sorted by their octets
LEMMA SortedOrdered ==
    ASSUME NEW t \in Places, Kind(t) = "setOf", NEW s \in Seq(Under(OrderedValues[t]))
    PROVE  FlattenSeq(Sorted(s)) \in Ordered(t)
<1> DEFINE U == Under(OrderedValues[t])
           c == Sorted(s)
           n == Len(s)
<1>1. ASSUME NEW x \in U
      PROVE  /\ x \in Text /\ x # << >>
             /\ AtTop(x, 1) => x[1].label.within \in {t, NoType}
  <2>1. PICK p \in OrderedValues[t] : x = p[2]
    BY DEF Under
  <2> QED BY <2>1, OrderedFacts
<1>2. s \in Seq(U) /\ U \subseteq Text
  BY <1>1
<1> HIDE DEF U
<1>3. c \in Seq(U)
  BY <1>2, SortedFacts
<1>4. Len(c) = n
  <2>1. n \in Nat
    BY <1>2
  <2>2. DOMAIN c = 1..n
    BY DEF Sorted
  <2> HIDE DEF c, n
  <2> QED BY <1>3, <2>1, <2>2
<1>5. \A i, j \in 1..n : i < j => FirstOctet(c[i]) <= FirstOctet(c[j])
  BY <1>2, SortedAscends
<1> HIDE DEF c, n
<1>6. ASSUME NEW i \in 1..n, NEW j \in 1..n, i < j, AtTop(c[i], 1)
      PROVE  InPlace(c[i][1], c[j][1])
  <2>1. c[i] \in U /\ c[j] \in U
    BY <1>3, <1>4
  <2>2. /\ c[i] \in Text /\ c[i] # << >> /\ c[j] \in Text /\ c[j] # << >>
        /\ c[i][1].label.within \in {t, NoType}
    BY <1>1, <1>6, <2>1
  <2>3. Kind(c[i][1].label.within) # "set"
    BY <2>2, PlaceFacts
  <2> DEFINE a == IdentifierOctet(c[i][1].tag, c[i][1].constructed)
             b == IdentifierOctet(c[j][1].tag, c[j][1].constructed)
  <2>4. FirstOctet(c[i]) = 1 + a /\ a \in Int /\ FirstOctet(c[j]) = 1 + b /\ b \in Int
    BY <2>2, OctetFacts
  <2>5. FirstOctet(c[i]) <= FirstOctet(c[j])
    BY <1>5, <1>6
  <2> HIDE DEF a, b
  <2>6. a <= b
    BY <2>4, <2>5
  <2> QED BY <2>3, <2>6 DEF InPlace, a, b
<1>7. c \in Seq(Under(OrderedValues[t]))
  BY <1>3 DEF U
<1>8. \A i, j \in 1..Len(c) : i < j /\ AtTop(c[i], 1) => InPlace(c[i][1], c[j][1])
  BY <1>4, <1>6
<1> QED BY <1>7, <1>8, FlattenOrdered DEF c

\* Canonical values are closed under what the encoder does, each in its place.
LEMMA OrderedKept == Keeps(OrderedText, OrderedValues)
<1> DEFINE V == OrderedText
           E == OrderedValues
<1> SUFFICES ASSUME NEW t \in Places
             PROVE  /\ V[t] \subseteq Text /\ << >> \in V[t]
                    /\ \A p \in E[t] : p[1] \in Nat /\ p[2] \in V[t] /\ p[2] # << >>
                    /\ Kind(t) \notin {"set", "setOf"} => \A r, s \in V[t] : r \o s \in V[t]
                    /\ Kind(t) = "set" => \A b \in Buffer(E[t]) : Together(b) \in V[t]
                    /\ Kind(t) = "setOf" => \A c \in Seq(Under(E[t])) : FlattenSeq(Sorted(c)) \in V[t]
                    /\ \A u \in Places, x \in Token : \A s \in V[u] : \A p :
                          x.kind = "tlv" /\ x.label.within \in {t, NoType} /\ Wrapped(x, s, p) => p \in E[t]
                    /\ \A v \in AnyTokens, l \in Label :
                          l.within \in {t, NoType} => <<v[1].tag, Labelled(v, l)>> \in E[t]
  BY DEF Keeps
<1>1. V[t] = Ordered(t) /\ E[t] = {p \in Single : p[2] \in Ordered(t)}
      /\ \A u \in Places : V[u] = Ordered(u)
  BY PlaceFacts
<1> HIDE DEF V
<1>2. V[t] \subseteq Text /\ << >> \in V[t]
  BY <1>1, NoneOrdered DEF Ordered, Values
<1>3. \A p \in E[t] : p[1] \in Nat /\ p[2] \in V[t] /\ p[2] # << >>
  BY <1>1, OrderedFacts
<1>4. Kind(t) \notin {"set", "setOf"} => \A r, s \in V[t] : r \o s \in V[t]
  BY <1>1, JoinOrdered
<1>5. Kind(t) = "set" => \A b \in Buffer(E[t]) : Together(b) \in V[t]
  BY <1>1, TogetherOrdered
<1>6. Kind(t) = "setOf" => \A c \in Seq(Under(E[t])) : FlattenSeq(Sorted(c)) \in V[t]
  BY <1>1, SortedOrdered
<1> HIDE DEF E
<1>7. ASSUME NEW u \in Places, NEW x \in Token, NEW s \in V[u], NEW p,
             x.kind = "tlv", x.label.within \in {t, NoType}, Wrapped(x, s, p)
      PROVE  p \in E[t]
  <2>1. s \in Ordered(u)
    BY <1>1
  <2>2. p \in Single /\ p[2] \in Ordered(t)
    BY <1>7, <2>1, WrapOrdered
  <2> QED BY <1>1, <2>2
<1>8. ASSUME NEW v \in AnyTokens, NEW l \in Label, l.within \in {t, NoType}
      PROVE  <<v[1].tag, Labelled(v, l)>> \in E[t]
  <2> DEFINE w == Labelled(v, l)
             p == <<v[1].tag, w>>
  <2>1. p \in Single /\ w \in Ordered(t) /\ p[2] = w
    BY <1>8, LabelledOrdered
  <2> HIDE DEF p, w
  <2>2. p \in E[t]
    BY <1>1, <2>1
  <2> QED BY <2>2 DEF p, w
<1> QED BY <1>2, <1>3, <1>4, <1>5, <1>6, <1>7, <1>8

-----------------------------------------------------------------------------

\* The encoder of type t, with only W in its output, and in its buffer and its
\* elements only G
FrameAt(t, W, G) ==
    [type : {t}, field : Nat, out : W, isSet : BOOLEAN, buffer : Buffer(G), elements : Seq(Under(G))]
Frame(V, E) == UNION {FrameAt(t, V[t], E[t]) : t \in Places}

\* What an encoder holds is what is held at its place.
LEMMA FrameFacts ==
    ASSUME NEW V, NEW E, NEW f \in Frame(V, E)
    PROVE  /\ f.type \in Places /\ f.type \in Types \cup {NoType}
           /\ f \in FrameAt(f.type, V[f.type], E[f.type])
           /\ f.field \in Nat /\ f.isSet \in BOOLEAN /\ f.out \in V[f.type]
           /\ f.buffer \in Buffer(E[f.type]) /\ f.elements \in Seq(Under(E[f.type]))
<1>1. PICK t \in Places : f \in FrameAt(t, V[t], E[t])
  BY DEF Frame
<1>2. f.type = t
  BY <1>1 DEF FrameAt
<1>3. f \in FrameAt(f.type, V[f.type], E[f.type]) /\ f.type \in Places
  BY <1>1, <1>2
<1> QED BY <1>3 DEF FrameAt, Places

\* An encoder of a place
LEMMA FrameIs ==
    ASSUME NEW V, NEW E, NEW t \in Places, NEW f \in FrameAt(t, V[t], E[t])
    PROVE  f \in Frame(V, E) /\ f.type = t
BY DEF Frame, FrameAt

-----------------------------------------------------------------------------

\* The inductive invariant, for encoders that hold only V, and E

\* The first encoder is the caller's; the encoder of a SET has its values in the
\* buffer.
Fits(f, first) ==
    /\ f.type = NoType <=> first
    /\ f.isSet <=> Kind(f.type) = "set"
    /\ f.isSet => f.out = << >>

AtField(f) == Kind(f.type) \in {"sequence", "set"} => f.field \in 1..Len(Fields(f))
PastField(f) == Kind(f.type) \in {"sequence", "set"} => f.field \in 1..(Len(Fields(f)) + 1)
Cleared(f) == Kind(f.type) \in {"setOf", "explicit"} => f.out = << >>
Filled(f, E) == Kind(f.type) \in {"setOf", "explicit"} => f.out \in Under(E[f.type])

\* An encoder that waits for a value
Waits(f) == AtField(f) /\ Cleared(f)

\* The innermost encoder, when the next thing is s
Ready(f, s, E) ==
    /\ s \in {"write", "failed"} => Waits(f)
    /\ s = "next" => PastField(f) /\ Cleared(f)
    /\ s = "written" => AtField(f) /\ Filled(f, E)
    /\ s = "done" => Kind(f.type) = "root"

Stack(e, s, V, E) ==
    /\ e \in Seq(Frame(V, E)) /\ e # << >>
    /\ \A i \in 1..Len(e) : Fits(e[i], i = 1)
    /\ \A i \in 1..(Len(e) - 1) : Waits(e[i])
    /\ Ready(e[Len(e)], s, E)

EncoderInv(V, E) ==
    /\ rules \in Rules
    /\ todo \in Types
    /\ step \in {"write", "next", "written", "done", "failed"}
    /\ Stack(encoders, step, V, E)

\* Encoder::output: what a SET has in its buffer, or what has been written.
LEMMA OutputHeld ==
    ASSUME NEW V, NEW E, Keeps(V, E), NEW f \in Frame(V, E), f.isSet => Kind(f.type) = "set"
    PROVE  Output(f) \in V[f.type]
<1>1. f.type \in Places /\ f.out \in V[f.type] /\ f.buffer \in Buffer(E[f.type])
  BY FrameFacts
<1>2. Output(f) = IF f.isSet THEN Together(f.buffer) ELSE f.out
  BY DEF Output, Together
<1>3. f.isSet => Together(f.buffer) \in V[f.type]
  BY <1>1 DEF Keeps
<1> QED BY <1>1, <1>2, <1>3

\* What encode_sequence_of has written, or encode_set_of has sorted
LEMMA ElementsHeld ==
    ASSUME NEW V, NEW E, Keeps(V, E), NEW f \in Frame(V, E), Cleared(f),
           Kind(f.type) \in {"sequenceOf", "setOf"}
    PROVE  FlattenSeq(Sorted(f.elements)) \o f.out \in V[f.type]
<1> DEFINE t == f.type
           W == V[t]
           c == FlattenSeq(Sorted(f.elements))
<1>1. t \in Places /\ f.out \in W /\ f.elements \in Seq(Under(E[t]))
  BY FrameFacts
<1>2. Under(E[t]) \subseteq W /\ W \subseteq Text /\ << >> \in W
  BY <1>1 DEF Keeps, Under
<1>3. CASE Kind(t) = "setOf"
  <2>1. c \in W /\ f.out = << >>
    BY <1>1, <1>3 DEF Keeps, Cleared
  <2>2. c \in Seq(Token)
    BY <1>2, <2>1 DEF Text
  <2> HIDE DEF c
  <2>3. c \o << >> = c
    BY <2>2, ConcatEmptySeq
  <2> QED BY <2>1, <2>3 DEF c
<1>4. CASE Kind(t) = "sequenceOf"
  <2>1. \A r, s \in W : r \o s \in W
    BY <1>1, <1>4 DEF Keeps
  <2>2. Sorted(f.elements) \in Seq(Under(E[t]))
    <3> DEFINE U == Under(E[t])
    <3>1. U \subseteq Text /\ f.elements \in Seq(U)
      BY <1>1, <1>2
    <3> HIDE DEF U
    <3> QED BY <3>1, SortedFacts DEF U
  <2>3. Sorted(f.elements) \in Seq(W)
    BY <1>2, <2>2
  <2> HIDE DEF W
  <2>4. FlattenSeq(Sorted(f.elements)) \in W
    BY <1>2, <2>1, <2>3, FlattenHeld
  <2> QED BY <1>1, <2>1, <2>4 DEF W
<1> QED BY <1>3, <1>4

\* Only the root of the encoders has no type.
LEMMA KindFacts ==
    /\ \A t \in Types : Kind(t) \in Kinds /\ Kind(t) = Schema[t].kind
    /\ \A t \in Types \cup {NoType} : Kind(t) = "root" <=> t = NoType
    /\ \A t \in Types \cup {NoType} : t # NoType => t \in Types
<1>1. \A t \in Types : t # NoType /\ Schema[t].kind \in Kinds
  BY EncoderAssumption
<1>2. "root" \notin Kinds
  BY DEF Kinds
<1> QED BY <1>1, <1>2 DEF Kind

\* The innermost encoder is one of the encoders.
LEMMA InnerFacts ==
    ASSUME NEW V, NEW E, Stack(encoders, step, V, E)
    PROVE  /\ Len(encoders) \in Nat /\ Len(encoders) >= 1
           /\ inner \in Frame(V, E)
           /\ Fits(inner, Len(encoders) = 1)
           /\ Ready(inner, step, E)
<1>1. encoders \in Seq(Frame(V, E)) /\ encoders # << >>
  BY DEF Stack
<1>2. Len(encoders) \in Nat /\ Len(encoders) >= 1
  BY <1>1
<1>3. encoders[Len(encoders)] \in Frame(V, E)
  BY <1>1, <1>2
<1>4. Len(encoders) \in 1..Len(encoders)
  BY <1>2
<1> QED BY <1>2, <1>3, <1>4 DEF Stack, inner

\* The innermost encoder becomes f.
LEMMA Replace ==
    ASSUME NEW V, NEW E, Stack(encoders, step, V, E),
           NEW f \in Frame(V, E), Fits(f, Len(encoders) = 1), NEW s, Ready(f, s, E)
    PROVE  Stack(SetInner(f), s, V, E)
<1> DEFINE n == Len(encoders)
           e == [encoders EXCEPT ![n] = f]
<1>1. n \in Nat /\ n >= 1
  BY InnerFacts
<1>2. encoders \in Seq(Frame(V, E))
  BY DEF Stack
<1>3. e \in Seq(Frame(V, E)) /\ Len(e) = n /\ e[n] = f
  BY <1>1, <1>2
<1>4. \A i \in 1..(n - 1) : e[i] = encoders[i] /\ i \in 1..n /\ i # n
  BY <1>1, <1>2
<1>5. e # << >>
  <2>1. Len(e) # 0 /\ Len(<< >>) = 0
    BY <1>1, <1>3
  <2> QED BY <2>1
<1> HIDE DEF e
<1>6. \A i \in 1..(n - 1) : Fits(e[i], i = 1) /\ Waits(e[i])
  <2>1. /\ \A i \in 1..n : Fits(encoders[i], i = 1)
        /\ \A i \in 1..(n - 1) : Waits(encoders[i])
    BY DEF Stack
  <2> HIDE DEF n
  <2> TAKE i \in 1..(n - 1)
  <2>2. e[i] = encoders[i] /\ i \in 1..n
    BY <1>4
  <2>3. Fits(encoders[i], i = 1) /\ Waits(encoders[i])
    BY <2>1, <2>2
  <2> QED BY <2>2, <2>3
<1>7. \A i \in 1..n : i \in 1..(n - 1) \/ i = n
  BY <1>1
<1>8. \A i \in 1..n : Fits(e[i], i = 1)
  <2> HIDE DEF n
  <2> TAKE i \in 1..n
  <2>1. CASE i = n
    <3>1. Fits(f, n = 1)
      BY DEF n
    <3> QED BY <1>3, <2>1, <3>1
  <2>2. CASE i # n
    BY <1>6, <1>7, <2>2
  <2> QED BY <2>1, <2>2
<1>9. SetInner(f) = e
  BY DEF SetInner, e
<1> QED BY <1>3, <1>5, <1>6, <1>8, <1>9 DEF Stack

\* An encoder f is put on the stack.
LEMMA Push ==
    ASSUME NEW V, NEW E, Stack(encoders, step, V, E), Waits(inner),
           NEW f \in Frame(V, E), Fits(f, FALSE), NEW s, Ready(f, s, E)
    PROVE  Stack(Append(encoders, f), s, V, E)
<1> DEFINE n == Len(encoders)
           e == Append(encoders, f)
<1>1. n \in Nat /\ n >= 1
  BY InnerFacts
<1>2. encoders \in Seq(Frame(V, E))
  BY DEF Stack
<1>3. /\ e \in Seq(Frame(V, E)) /\ Len(e) = n + 1 /\ e[n + 1] = f
      /\ \A i \in 1..n : e[i] = encoders[i]
  BY <1>1, <1>2
<1> HIDE DEF e
<1>4. e # << >>
  <2>1. Len(e) # 0 /\ Len(<< >>) = 0
    BY <1>1, <1>3
  <2> QED BY <2>1
<1>5. \A i \in 1..n : Fits(e[i], i = 1)
  BY <1>3 DEF Stack
<1>6. \A i \in 1..n : Waits(e[i])
  <2> TAKE i \in 1..n
  <2>1. CASE i = n
    BY <1>3, <2>1 DEF inner
  <2>2. CASE i # n
    <3>1. i \in 1..(n - 1)
      BY <1>1, <2>2
    <3> QED BY <1>3, <3>1 DEF Stack
  <2> QED BY <2>1, <2>2
<1> HIDE DEF n
<1>7. \A i \in 1..(n + 1) : Fits(e[i], i = 1)
  <2> TAKE i \in 1..(n + 1)
  <2>1. CASE i = n + 1
    <3>1. (i = 1) = FALSE
      BY <1>1, <2>1
    <3>2. Fits(f, i = 1)
      BY <3>1
    <3> QED BY <1>3, <2>1, <3>2
  <2>2. CASE i # n + 1
    <3>1. i \in 1..n
      BY <1>1, <2>2
    <3> QED BY <1>5, <3>1
  <2> QED BY <2>1, <2>2
<1>8. (n + 1) - 1 = n
  BY <1>1
<1> QED BY <1>3, <1>4, <1>6, <1>7, <1>8 DEF Stack, e

\* The encoder around the innermost one
outer == encoders[Len(encoders) - 1]

\* Around a nested encoder there is another one, which waits.
LEMMA OuterFacts ==
    ASSUME NEW V, NEW E, Stack(encoders, step, V, E), inner.type # NoType
    PROVE  /\ Len(encoders) \in Nat /\ Len(encoders) >= 2
           /\ outer \in Frame(V, E)
           /\ Fits(outer, Len(encoders) - 1 = 1) /\ Waits(outer)
<1> DEFINE n == Len(encoders)
<1>1. n \in Nat /\ n >= 1 /\ Fits(inner, n = 1)
  BY InnerFacts
<1>2. n # 1
  BY <1>1 DEF Fits
<1>3. n >= 2 /\ n - 1 \in 1..n /\ n - 1 \in 1..(n - 1)
  BY <1>1, <1>2
<1>4. encoders \in Seq(Frame(V, E))
  BY DEF Stack
<1>5. encoders[n - 1] \in Frame(V, E)
  BY <1>3, <1>4
<1>6. Fits(encoders[n - 1], n - 1 = 1) /\ Waits(encoders[n - 1])
  BY <1>3 DEF Stack
<1> QED BY <1>1, <1>3, <1>5, <1>6 DEF outer

\* The innermost encoder is done, and the one around it becomes f.
LEMMA Pop ==
    ASSUME NEW V, NEW E, Stack(encoders, step, V, E), inner.type # NoType,
           NEW f \in Frame(V, E), Fits(f, Len(encoders) - 1 = 1), NEW s, Ready(f, s, E)
    PROVE  Stack([SubSeq(encoders, 1, Len(encoders) - 1) EXCEPT ![Len(encoders) - 1] = f], s, V, E)
<1> DEFINE n == Len(encoders)
           m == n - 1
           r == SubSeq(encoders, 1, m)
           e == [r EXCEPT ![m] = f]
<1>1. n \in Nat /\ n >= 2
  BY OuterFacts
<1>2. encoders \in Seq(Frame(V, E))
  BY DEF Stack
<1>3. m \in Nat /\ m >= 1 /\ m < n
  BY <1>1
<1>4. r \in Seq(Frame(V, E)) /\ Len(r) = m /\ \A i \in 1..m : r[i] = encoders[i]
  BY <1>1, <1>2, <1>3
<1> HIDE DEF r
<1>5. e \in Seq(Frame(V, E)) /\ Len(e) = m /\ e[m] = f
  BY <1>3, <1>4
<1>6. \A i \in 1..(m - 1) : e[i] = encoders[i] /\ i \in 1..(n - 1) /\ i \in 1..n
  BY <1>3, <1>4
<1> HIDE DEF e
<1>7. e # << >>
  <2>1. Len(e) # 0 /\ Len(<< >>) = 0
    BY <1>3, <1>5
  <2> QED BY <2>1
<1>8. \A i \in 1..(m - 1) : Fits(e[i], i = 1) /\ Waits(e[i])
  <2>1. /\ \A i \in 1..n : Fits(encoders[i], i = 1)
        /\ \A i \in 1..(n - 1) : Waits(encoders[i])
    BY DEF Stack
  <2> HIDE DEF n, m
  <2> TAKE i \in 1..(m - 1)
  <2>2. e[i] = encoders[i] /\ i \in 1..n /\ i \in 1..(n - 1)
    BY <1>6
  <2>3. Fits(encoders[i], i = 1) /\ Waits(encoders[i])
    BY <2>1, <2>2
  <2> QED BY <2>2, <2>3
<1>9. Fits(f, m = 1)
  OBVIOUS
<1> HIDE DEF m
<1>10. \A i \in 1..m : Fits(e[i], i = 1)
  <2> TAKE i \in 1..m
  <2>1. CASE i = m
    BY <1>5, <1>9, <2>1
  <2>2. CASE i # m
    <3>1. i \in 1..(m - 1)
      BY <1>3, <2>2
    <3> QED BY <1>8, <3>1
  <2> QED BY <2>1, <2>2
<1> QED BY <1>5, <1>7, <1>8, <1>10 DEF Stack, e, r, m

-----------------------------------------------------------------------------

\* What an encoder becomes when it writes items and takes them over under tag
Put(f, items, tag) == EncodeToSet(Write(f, items), tag)

\* What it has written then
Longer(f, items) == f.out \o items

\* What a value that is written does not change
Remains(f, g) == f.type = g.type /\ f.field = g.field /\ f.isSet = g.isSet

\* A value written into an encoder, and taken over where it is that of a SET.
LEMMA PutKept ==
    ASSUME NEW place, NEW V, << >> \in V, NEW E, NEW f \in FrameAt(place, V, E),
           NEW items, Longer(f, items) \in V,
           NEW tag \in Nat, f.isSet => <<tag, Longer(f, items)>> \in E
    PROVE  LET g == Put(f, items, tag)
           IN  /\ g \in FrameAt(place, V, E) /\ Remains(g, f) /\ (g.isSet => g.out = << >>)
               /\ ~f.isSet => g.out = Longer(f, items)
<1> DEFINE w == Write(f, items)
           b == f.buffer
           all == Longer(f, items)
           nb == [t \in DOMAIN b \cup {tag} |-> IF t = tag THEN all ELSE b[t]]
           g == Put(f, items, tag)
<1>1. /\ f.type = place /\ f.field \in Nat /\ f.out \in V /\ f.isSet \in BOOLEAN
      /\ b \in Buffer(E) /\ f.elements \in Seq(Under(E))
  BY DEF FrameAt
<1>2. << >> \in V
  OBVIOUS
<1>3. w = [f EXCEPT !.out = all]
  BY DEF Write, Longer
<1>4. CASE ~f.isSet
  <2>1. g = w
    BY <1>3, <1>4 DEF Put, EncodeToSet, FrameAt
  <2>2. g = [f EXCEPT !.out = all]
    BY <1>3, <2>1
  <2>3. g \in FrameAt(place, V, E) /\ Remains(g, f) /\ g.out = all
    BY <1>1, <1>2, <2>2 DEF FrameAt, Remains
  <2> QED BY <1>4, <2>3 DEF Remains
<1>5. CASE f.isSet
  <2>1. nb \in Buffer(E)
    <3>1. DOMAIN b \in SUBSET Nat /\ IsFiniteSet(DOMAIN b) /\ b \in [DOMAIN b -> Under(E)]
          /\ \A t \in DOMAIN b : <<t, b[t]>> \in E
      BY <1>1 DEF Buffer
    <3> DEFINE tags == DOMAIN b \cup {tag}
    <3>2. tags \in SUBSET Nat /\ IsFiniteSet(tags)
      BY <3>1, FS_AddElement
    <3>3. \A t \in tags : <<t, nb[t]>> \in E
      BY <1>5, <3>1
    <3>4. \A t \in tags : nb[t] \in Under(E)
      BY <3>3, UnderTag
    <3>5. nb \in [tags -> Under(E)] /\ DOMAIN nb = tags
      BY <3>4
    <3> HIDE DEF nb, tags
    <3> QED BY <3>2, <3>3, <3>5 DEF Buffer
  <2>2. g = [w EXCEPT !.buffer = [t \in DOMAIN w.buffer \cup {tag} |->
                                     IF t = tag THEN w.out ELSE w.buffer[t]],
                      !.out = << >>]
    BY <1>3, <1>5 DEF Put, EncodeToSet, FrameAt
  <2>3. w.buffer = b /\ w.out = all
    BY <1>3 DEF FrameAt
  <2>4. g = [w EXCEPT !.buffer = nb, !.out = << >>]
    BY <2>2, <2>3
  <2> HIDE DEF w, nb, g
  <2>5. g = [f EXCEPT !.buffer = nb, !.out = << >>]
    BY <1>3, <2>4 DEF FrameAt
  <2>6. g \in FrameAt(place, V, E) /\ Remains(g, f) /\ g.out = << >>
    BY <1>1, <1>2, <2>1, <2>5 DEF FrameAt, Remains
  <2> QED BY <1>5, <2>6 DEF g
<1> QED BY <1>4, <1>5

\* An encoder that waits for a value, and gets it
LEMMA PutWaits ==
    ASSUME NEW V, NEW E, Keeps(V, E), NEW f \in Frame(V, E), NEW first, Fits(f, first), Waits(f),
           NEW items, NEW tag, <<tag, items>> \in E[f.type]
    PROVE  LET g == Put(f, items, tag)
           IN  g \in Frame(V, E) /\ Fits(g, first) /\ Ready(g, "written", E)
<1> DEFINE g == Put(f, items, tag)
           W == V[f.type]
           G == E[f.type]
<1> USE FrameFacts
<1>1. tag \in Nat /\ items \in W /\ items \in Text /\ << >> \in W /\ f.out \in W /\ f.type \in Places
      /\ f.out \in Text
  <2>1. <<tag, items>>[1] = tag /\ <<tag, items>>[2] = items
    OBVIOUS
  <2> QED BY <2>1 DEF Keeps
<1>2. f.isSet => f.out = << >>
  BY DEF Fits
<1>3. /\ g \in Frame(V, E) /\ Remains(g, f) /\ (g.isSet => g.out = << >>)
      /\ ~f.isSet => g.out = Longer(f, items)
  <2>1. f.out = << >> => Longer(f, items) = items
    BY <1>1, ConcatEmptySeq DEF Text, Longer
  <2>2. Longer(f, items) \in W
    <3>1. CASE Kind(f.type) \in {"set", "setOf"}
      <4>1. f.out = << >>
        BY <3>1 DEF Fits, Waits, Cleared
      <4> QED BY <1>1, <2>1, <4>1
    <3>2. CASE Kind(f.type) \notin {"set", "setOf"}
      <4>1. \A r, s \in W : r \o s \in W
        BY <1>1, <3>2 DEF Keeps
      <4> QED BY <1>1, <4>1 DEF Longer
    <3> QED BY <3>1, <3>2
  <2>3. f.isSet => <<tag, Longer(f, items)>> \in G
    BY <1>2, <2>1
  <2>4. f \in FrameAt(f.type, W, G)
    OBVIOUS
  <2> DEFINE place == f.type
  <2>5. f \in FrameAt(place, W, G) /\ place \in Places
    BY <1>1, <2>4
  <2> HIDE DEF g, W, G, place
  <2>6. /\ g \in FrameAt(place, W, G) /\ Remains(g, f) /\ (g.isSet => g.out = << >>)
        /\ ~f.isSet => g.out = Longer(f, items)
    <3> DEFINE h == Put(f, items, tag)
    <3>1. << >> \in W /\ Longer(f, items) \in W /\ tag \in Nat
      BY <1>1, <2>2 DEF W
    <3>2. f.isSet => <<tag, Longer(f, items)>> \in G
      BY <2>3
    <3>3. f \in FrameAt(place, W, G)
      BY <2>5
    <3> HIDE DEF h
    <3>4. /\ h \in FrameAt(place, W, G) /\ Remains(h, f) /\ (h.isSet => h.out = << >>)
          /\ ~f.isSet => h.out = Longer(f, items)
      BY ONLY <3>1, <3>2, <3>3, PutKept DEF h
    <3> QED BY <3>4 DEF g, h
  <2>7. g \in Frame(V, E)
    BY <2>5, <2>6, FrameIs DEF W, G, place
  <2> QED BY <2>6, <2>7
<1> HIDE DEF g
<1>4. Fits(g, first)
  BY <1>3 DEF Fits, Remains
<1>5. AtField(g)
  BY <1>3 DEF Waits, AtField, Remains, Fields
<1>6. Filled(g, E)
  <2> SUFFICES ASSUME Kind(g.type) \in {"setOf", "explicit"} PROVE g.out \in Under(E[g.type])
    BY DEF Filled
  <2>1. Kind(f.type) \in {"setOf", "explicit"} /\ f.out = << >>
    BY <1>3 DEF Waits, Cleared, Remains
  <2>2. ~f.isSet
    BY <2>1 DEF Fits
  <2>4. Longer(f, items) = items
    BY <1>1, <2>1, ConcatEmptySeq DEF Text, Longer
  <2>5. items \in Under(G)
    BY UnderTag
  <2> QED BY <1>3, <2>2, <2>4, <2>5 DEF Remains
<1> QED BY <1>3, <1>4, <1>5, <1>6 DEF Ready, g

\* What EncoderAssumption says of a type
LEMMA TypeFacts ==
    ASSUME NEW t \in Types
    PROVE  /\ Schema[t].tag \in Nat
           /\ Kind(t) = "choice" => \A i \in 1..Len(Schema[t].alts) : Schema[t].alts[i].type \in Types
           /\ Kind(t) \in {"sequence", "set"}
                 => /\ Len(Schema[t].fields) \in Nat
                    /\ \A i \in 1..Len(Schema[t].fields) : Schema[t].fields[i].type \in Types
           /\ Kind(t) \in {"sequenceOf", "setOf", "explicit"} => Schema[t].elem \in Types
<1>1. Kind(t) = Schema[t].kind
  BY KindFacts
<1> QED BY <1>1, EncoderAssumption

LEMMA LabelFacts ==
    ASSUME NEW V, NEW E, NEW f \in Frame(V, E), NEW t \in Types
    PROVE  /\ [type |-> t, within |-> f.type, field |-> f.field] \in Label
           /\ NoLabel \in Label /\ NoLabel.within = NoType
BY FrameFacts DEF Label, NoLabel

\* encode_constructed puts values into one value, of definite or indefinite length.
LEMMA ConstructedKept ==
    ASSUME NEW V, NEW E, Keeps(V, E), NEW u \in Places, NEW s \in V[u], NEW tag \in Nat,
           NEW t \in Places, NEW l \in Label, l.within \in {t, NoType}
    PROVE  <<tag, Constructed(tag, s, l)>> \in E[t]
<1>1. Len(s) \in Int
  BY TextFacts DEF Keeps
<1>2. CASE rules = "CER"
  <2> DEFINE x == Item("tlv", tag, TRUE, -1, l)
  <2>1. x \in Token /\ x.kind = "tlv" /\ x.len = -1 /\ x.tag = tag /\ x.label = l
    BY DEF Item, Token
  <2>2. Constructed(tag, s, l) = Headed(x, s) \o << EndOfContents >>
    BY <1>2 DEF Constructed, Headed
  <2> HIDE DEF x
  <2>3. <<x.tag, Headed(x, s) \o << EndOfContents >> >> \in E[t]
    BY <2>1 DEF Keeps, Wrapped
  <2> QED BY <2>1, <2>2, <2>3
<1>3. CASE rules # "CER"
  <2> DEFINE x == Item("tlv", tag, TRUE, Len(s), l)
  <2>1. x \in Token /\ x.kind = "tlv" /\ x.len = Len(s) /\ x.tag = tag /\ x.label = l
    BY <1>1 DEF Item, Token
  <2>2. Constructed(tag, s, l) = Headed(x, s)
    BY <1>3 DEF Constructed, Headed
  <2> HIDE DEF x
  <2>3. <<x.tag, Headed(x, s)>> \in E[t]
    BY <2>1 DEF Keeps, Wrapped
  <2> QED BY <2>1, <2>2, <2>3
<1> QED BY <1>2, <1>3

\* encode_primitive writes one value.
LEMMA PrimitiveKept ==
    ASSUME NEW V, NEW E, Keeps(V, E), NEW tag \in Nat,
           NEW t \in Places, NEW l \in Label, l.within \in {t, NoType}
    PROVE  <<tag, << Item("tlv", tag, FALSE, 0, l) >> >> \in E[t]
<1> DEFINE x == Item("tlv", tag, FALSE, 0, l)
           none == << >>
<1>1. x \in Token /\ x.kind = "tlv" /\ x.len = 0 /\ x.tag = tag /\ x.label = l
  BY DEF Item, Token
<1>2. none \in V[t] /\ Len(none) = 0
  BY DEF Keeps
<1> HIDE DEF x, none
<1>3. <<x.tag, Headed(x, none)>> \in E[t]
  BY <1>1, <1>2 DEF Keeps, Wrapped
<1>4. Headed(x, << >>) = << x >>
  <2>1. << x >> \in Seq(Token)
    BY <1>1
  <2> QED BY <2>1, ConcatEmptySeq DEF Headed
<1> QED BY <1>1, <1>3, <1>4 DEF x, none

-----------------------------------------------------------------------------

\* Every action keeps the invariant.

\* Before a value is written the innermost encoder has nothing that is not taken over.
LEMMA WaitingInner ==
    ASSUME NEW V, NEW E, EncoderInv(V, E), step = "write"
    PROVE  /\ Stack(encoders, step, V, E) /\ todo \in Types
           /\ inner \in Frame(V, E) /\ Fits(inner, Len(encoders) = 1) /\ Waits(inner)
BY InnerFacts DEF EncoderInv, Ready

\* A value is written for the innermost encoder.
LEMMA PutKeeps ==
    ASSUME NEW V, NEW E, Keeps(V, E), EncoderInv(V, E), step = "write",
           NEW items, NEW tag, <<tag, items>> \in E[inner.type],
           encoders' = SetInner(Put(inner, items, tag)), step' = "written", UNCHANGED <<rules, todo>>
    PROVE  EncoderInv(V, E)'
<1> DEFINE g == Put(inner, items, tag)
<1>1. /\ Stack(encoders, step, V, E) /\ todo \in Types
      /\ inner \in Frame(V, E) /\ Fits(inner, Len(encoders) = 1) /\ Waits(inner)
  BY WaitingInner
<1>2. g \in Frame(V, E) /\ Fits(g, Len(encoders) = 1) /\ Ready(g, "written", E)
  BY <1>1, PutWaits
<1>3. encoders' = SetInner(g)
  OBVIOUS
<1> HIDE DEF g
<1>4. Stack(SetInner(g), "written", V, E)
  BY <1>1, <1>2, Replace
<1>5. Stack(encoders', step', V, E)
  BY <1>3, <1>4
<1> QED BY <1>5 DEF EncoderInv

\* The handler goes on to write a value of type t.
LEMMA WriteKeeps ==
    ASSUME NEW V, NEW E, EncoderInv(V, E), Waits(inner), NEW t \in Types,
           todo' = t, step' = "write", UNCHANGED <<rules, encoders>>
    PROVE  EncoderInv(V, E)'
<1>1. Ready(encoders[Len(encoders)], "write", E)
  BY DEF Ready, inner
<1>2. Stack(encoders, "write", V, E)
  BY <1>1 DEF EncoderInv, Stack
<1> QED BY <1>2 DEF EncoderInv

\* One lemma for each action of the encoder: it keeps the invariant.
LEMMA EncodePrimitiveKeeps ==
    ASSUME NEW V, NEW E, Keeps(V, E), EncoderInv(V, E), EncodePrimitive
    PROVE  EncoderInv(V, E)'
<1> DEFINE tag == Schema[todo].tag
           items == << Item("tlv", tag, FALSE, 0, Here(todo)) >>
<1>1. step = "write"
  BY DEF EncodePrimitive, Doing
<1>2. todo \in Types /\ inner \in Frame(V, E)
  BY <1>1, WaitingInner
<1>3. tag \in Nat
  BY <1>2, TypeFacts
<1>4. Here(todo) \in Label /\ Here(todo).within = inner.type /\ inner.type \in Places
  BY <1>2, LabelFacts, FrameFacts DEF Here
<1>5. <<tag, items>> \in E[inner.type]
  <2> HIDE DEF tag
  <2> QED BY <1>3, <1>4, PrimitiveKept
<1>6. /\ encoders' = SetInner(Put(inner, items, tag)) /\ step' = "written"
      /\ UNCHANGED <<rules, todo>>
  BY DEF EncodePrimitive, Written, Primitive, Put
<1> HIDE DEF tag, items
<1> QED BY <1>1, <1>5, <1>6, PutKeeps

LEMMA RefuseAnyKeeps ==
    ASSUME NEW V, NEW E, EncoderInv(V, E), RefuseAny
    PROVE  EncoderInv(V, E)'
<1>1. step = "write" /\ step' = "failed" /\ UNCHANGED <<rules, encoders, todo>>
  BY DEF RefuseAny, Doing
<1>2. Stack(encoders, "failed", V, E)
  BY <1>1 DEF EncoderInv, Stack, Ready
<1> QED BY <1>1, <1>2 DEF EncoderInv

LEMMA EncodeChoiceKeeps ==
    ASSUME NEW V, NEW E, EncoderInv(V, E), EncodeChoice
    PROVE  EncoderInv(V, E)'
<1>1. step = "write" /\ Kind(todo) = "choice" /\ UNCHANGED <<rules, encoders>>
  BY DEF EncodeChoice, Doing
<1>2. PICK i \in 1..Len(Schema[todo].alts) : WriteNext(Schema[todo].alts[i].type)
  BY DEF EncodeChoice
<1>3. todo \in Types /\ Waits(inner)
  BY <1>1, WaitingInner
<1>4. Schema[todo].alts[i].type \in Types
  BY <1>1, <1>3, TypeFacts
<1> QED BY <1>1, <1>2, <1>3, <1>4, WriteKeeps DEF WriteNext

\* Encoder::new: a new encoder has written nothing.
LEMMA NewFrame ==
    ASSUME NEW V, NEW E, Keeps(V, E), NEW t \in Places
    PROVE  LET f == NewEncoder(t, Kind(t) = "set")
           IN  /\ f \in Frame(V, E) /\ f.type = t /\ f.field = 1 /\ f.out = << >>
               /\ f.isSet <=> Kind(t) = "set"
<1> DEFINE f == NewEncoder(t, Kind(t) = "set")
<1>1. << >> \in V[t]
  BY DEF Keeps
<1>2. << >> \in Buffer(E[t])
  <2>1. << >> \in [{} -> Under(E[t])] /\ DOMAIN << >> = {}
    OBVIOUS
  <2>2. {} \in SUBSET Nat /\ IsFiniteSet({})
    BY FS_EmptySet
  <2> QED BY <2>1, <2>2 DEF Buffer
<1>3. << >> \in Seq(Under(E[t]))
  OBVIOUS
<1>4. (Kind(t) = "set") \in BOOLEAN
  OBVIOUS
<1>5. f \in FrameAt(t, V[t], E[t])
  BY <1>1, <1>2, <1>3, <1>4 DEF NewEncoder, FrameAt
<1>6. f.field = 1 /\ f.out = << >> /\ (f.isSet <=> Kind(t) = "set")
  BY <1>4 DEF NewEncoder
<1> HIDE DEF f
<1> QED BY <1>5, <1>6, FrameIs DEF f

LEMMA EnterConstructedKeeps ==
    ASSUME NEW V, NEW E, Keeps(V, E), EncoderInv(V, E), EnterConstructed
    PROVE  EncoderInv(V, E)'
<1> DEFINE f == NewEncoder(todo, Kind(todo) = "set")
<1>1. /\ step = "write" /\ step' = "next" /\ UNCHANGED <<rules, todo>>
      /\ encoders' = Append(encoders, f)
  BY DEF EnterConstructed, Doing
<1>2. todo \in Types /\ Waits(inner) /\ Stack(encoders, step, V, E) /\ todo # NoType
  BY <1>1, WaitingInner, EncoderAssumption
<1>3. /\ f \in Frame(V, E) /\ f.type = todo /\ f.field = 1 /\ f.out = << >>
      /\ f.isSet <=> Kind(todo) = "set"
  BY <1>2, NewFrame DEF Places
<1> HIDE DEF f
<1>4. Fits(f, FALSE)
  BY <1>2, <1>3 DEF Fits
<1>5. PastField(f)
  <2>1. Kind(todo) \in {"sequence", "set"} => Len(Schema[todo].fields) \in Nat
    BY <1>2, TypeFacts
  <2> QED BY <1>3, <2>1 DEF PastField, Fields
<1>6. Ready(f, "next", E)
  BY <1>3, <1>5 DEF Ready, Cleared
<1> DEFINE s == "next"
<1>7. Stack(Append(encoders, f), s, V, E)
  <2>1. Ready(f, s, E)
    BY <1>6
  <2> HIDE DEF s
  <2> QED BY <1>2, <1>3, <1>4, <2>1, Push
<1> QED BY <1>1, <1>2, <1>7 DEF EncoderInv

\* A constructed value with the given contents is written for the encoder around.
LEMMA LeaveKeeps ==
    ASSUME NEW V, NEW E, Keeps(V, E), EncoderInv(V, E), inner.type # NoType,
           NEW contents \in V[inner.type], Leave(contents), UNCHANGED rules
    PROVE  EncoderInv(V, E)'
<1> DEFINE tag == Schema[inner.type].tag
           label == [type |-> inner.type, within |-> outer.type, field |-> outer.field]
           items == Constructed(tag, contents, label)
           g == Put(outer, items, tag)
<1>1. Stack(encoders, step, V, E)
  BY DEF EncoderInv
<1>2. inner.type \in Types
  <2>1. inner \in Frame(V, E)
    BY <1>1, InnerFacts
  <2>2. inner.type \in Types \cup {NoType}
    BY <2>1, FrameFacts
  <2> QED BY <2>2
<1>3. outer \in Frame(V, E) /\ Fits(outer, Len(encoders) - 1 = 1) /\ Waits(outer)
  BY <1>1, OuterFacts
<1>4. /\ tag \in Nat /\ label \in Label /\ label.within = outer.type
      /\ outer.type \in Places /\ inner.type \in Places
  BY <1>2, <1>3, TypeFacts, LabelFacts, FrameFacts DEF Places
<1>5. <<tag, items>> \in E[outer.type]
  <2> HIDE DEF tag, label
  <2> QED BY <1>4, ConstructedKept
<1>6. /\ encoders' = [SubSeq(encoders, 1, Len(encoders) - 1) EXCEPT ![Len(encoders) - 1] = g]
      /\ step' = "written" /\ UNCHANGED todo
  BY DEF Leave, Put, outer
<1> HIDE DEF items, tag
<1>7. g \in Frame(V, E) /\ Fits(g, Len(encoders) - 1 = 1) /\ Ready(g, "written", E)
  BY <1>3, <1>5, PutWaits
<1> HIDE DEF g
<1>8. Stack(encoders', "written", V, E)
  BY <1>1, <1>6, <1>7, Pop
<1> QED BY <1>6, <1>8 DEF EncoderInv

LEMMA AtFacts ==
    ASSUME NEW V, NEW E, EncoderInv(V, E), NEW kinds, kinds \subseteq Kinds, At(kinds)
    PROVE  /\ Stack(encoders, step, V, E) /\ step = "next" /\ Kind(inner.type) \in kinds
           /\ inner \in Frame(V, E) /\ inner.type \in Types /\ inner.type # NoType
           /\ Fits(inner, Len(encoders) = 1) /\ PastField(inner) /\ Cleared(inner)
<1>1. Stack(encoders, step, V, E) /\ step = "next" /\ Kind(inner.type) \in kinds
  BY DEF EncoderInv, At
<1>2. inner \in Frame(V, E) /\ Fits(inner, Len(encoders) = 1) /\ Ready(inner, step, E)
  BY <1>1, InnerFacts
<1>3. inner.type \in Types \cup {NoType}
  BY <1>2, FrameFacts
<1>4. inner.type # NoType
  <2>1. "root" \notin Kinds
    BY DEF Kinds
  <2> QED BY <1>1, <2>1 DEF Kind
<1> QED BY <1>1, <1>2, <1>3, <1>4 DEF Ready

LEMMA EncodeFieldsEndKeeps ==
    ASSUME NEW V, NEW E, Keeps(V, E), EncoderInv(V, E), EncodeFieldsEnd
    PROVE  EncoderInv(V, E)'
<1>1. At({"sequence", "set"}) /\ Leave(Output(inner)) /\ UNCHANGED rules
  BY DEF EncodeFieldsEnd
<1>2. inner \in Frame(V, E) /\ inner.type # NoType /\ (inner.isSet => Kind(inner.type) = "set")
  BY <1>1, AtFacts DEF Kinds, Fits
<1>3. Output(inner) \in V[inner.type]
  BY <1>2, OutputHeld
<1> QED BY <1>1, <1>2, <1>3, LeaveKeeps

LEMMA EncodeElementsEndKeeps ==
    ASSUME NEW V, NEW E, Keeps(V, E), EncoderInv(V, E), EncodeElementsEnd
    PROVE  EncoderInv(V, E)'
<1> DEFINE contents == FlattenSeq(Sorted(inner.elements)) \o inner.out
<1>1. At({"sequenceOf", "setOf"}) /\ Leave(contents) /\ UNCHANGED rules
  BY DEF EncodeElementsEnd
<1>2. /\ inner \in Frame(V, E) /\ inner.type # NoType /\ Cleared(inner)
      /\ Kind(inner.type) \in {"sequenceOf", "setOf"}
  BY <1>1, AtFacts DEF Kinds
<1>3. contents \in V[inner.type]
  BY <1>2, ElementsHeld
<1> HIDE DEF contents
<1> QED BY <1>1, <1>2, <1>3, LeaveKeeps

LEMMA EncodeElementKeeps ==
    ASSUME NEW V, NEW E, EncoderInv(V, E), EncodeElement
    PROVE  EncoderInv(V, E)'
<1>1. /\ At({"sequenceOf", "setOf"}) /\ WriteNext(Schema[inner.type].elem)
      /\ UNCHANGED <<rules, encoders>>
  BY DEF EncodeElement
<1>2. inner.type \in Types /\ Kind(inner.type) \in {"sequenceOf", "setOf"} /\ Cleared(inner)
  BY <1>1, AtFacts DEF Kinds
<1>3. Schema[inner.type].elem \in Types
  BY <1>2, TypeFacts
<1>4. Waits(inner)
  BY <1>2 DEF Waits, AtField
<1> QED BY <1>1, <1>3, <1>4, WriteKeeps DEF WriteNext

LEMMA EncodeContentKeeps ==
    ASSUME NEW V, NEW E, EncoderInv(V, E), EncodeContent
    PROVE  EncoderInv(V, E)'
<1>1. At({"explicit"}) /\ WriteNext(Schema[inner.type].elem) /\ UNCHANGED <<rules, encoders>>
  BY DEF EncodeContent
<1>2. inner.type \in Types /\ Kind(inner.type) = "explicit" /\ Cleared(inner)
  BY <1>1, AtFacts DEF Kinds
<1>3. Schema[inner.type].elem \in Types
  BY <1>2, TypeFacts
<1>4. Waits(inner)
  BY <1>2 DEF Waits, AtField
<1> QED BY <1>1, <1>3, <1>4, WriteKeeps DEF WriteNext

\* The innermost encoder goes on to the next component.
LEMMA NextField ==
    ASSUME NEW V, NEW E, NEW f \in Frame(V, E), NEW first, Fits(f, first),
           Kind(f.type) \in {"sequence", "set"}, AtField(f), f.type \in Types
    PROVE  LET g == [f EXCEPT !.field = @ + 1]
           IN  g \in Frame(V, E) /\ Fits(g, first) /\ Ready(g, "next", E)
<1> DEFINE g == [f EXCEPT !.field = @ + 1]
           n == Len(Fields(f))
<1>1. f.field \in 1..n /\ n \in Nat
  BY TypeFacts DEF AtField, Fields
<1>2. g \in Frame(V, E) /\ g.type = f.type /\ g.isSet = f.isSet /\ g.out = f.out
      /\ g.field = f.field + 1
  <2> DEFINE place == f.type
             W == V[place]
             G == E[place]
  <2>1. place \in Places /\ f \in FrameAt(place, W, G)
    BY FrameFacts
  <2> HIDE DEF place, W, G
  <2>2. g \in FrameAt(place, W, G) /\ g.isSet = f.isSet /\ g.out = f.out /\ g.field = f.field + 1
    BY <1>1, <2>1 DEF FrameAt
  <2> HIDE DEF g
  <2>3. g \in FrameAt(place, V[place], E[place])
    BY <2>2 DEF W, G
  <2>4. g \in Frame(V, E) /\ g.type = place
    BY <2>1, <2>3, FrameIs
  <2> QED BY <2>2, <2>4 DEF place
<1> HIDE DEF g, n
<1>3. Fits(g, first)
  BY <1>2 DEF Fits
<1>4. g.field \in 1..(n + 1)
  BY <1>1, <1>2
<1>5. Len(Fields(g)) = n
  BY <1>2 DEF Fields, n
<1> QED BY <1>2, <1>3, <1>4, <1>5 DEF Ready, PastField, Cleared, g

\* The handler of the innermost encoder, which becomes f, goes on.
LEMMA GoOnKeeps ==
    ASSUME NEW V, NEW E, EncoderInv(V, E), NEW f \in Frame(V, E), Fits(f, Len(encoders) = 1),
           Ready(f, "next", E), encoders' = SetInner(f), step' = "next", UNCHANGED <<rules, todo>>
    PROVE  EncoderInv(V, E)'
<1>1. Stack(encoders, step, V, E)
  BY DEF EncoderInv
<1>2. Stack(SetInner(f), "next", V, E)
  BY <1>1, Replace
<1> QED BY <1>2 DEF EncoderInv

LEMMA EncodeFieldKeeps ==
    ASSUME NEW V, NEW E, EncoderInv(V, E), EncodeField
    PROVE  EncoderInv(V, E)'
<1>1. At({"sequence", "set"}) /\ inner.field <= Len(Fields(inner)) /\ UNCHANGED rules
  BY DEF EncodeField
<1>2. /\ step = "next" /\ inner \in Frame(V, E) /\ inner.type \in Types
      /\ Kind(inner.type) \in {"sequence", "set"}
      /\ Fits(inner, Len(encoders) = 1) /\ PastField(inner) /\ Cleared(inner)
  BY <1>1, AtFacts DEF Kinds
<1>3. AtField(inner)
  <2>1. Len(Fields(inner)) \in Nat
    BY <1>2, TypeFacts DEF Fields
  <2> QED BY <1>1, <1>2, <2>1 DEF AtField, PastField
<1>4. CASE WriteNext(Fields(inner)[inner.field].type) /\ UNCHANGED encoders
  <2>1. Fields(inner)[inner.field].type \in Types
    BY <1>2, <1>3, TypeFacts DEF AtField, Fields
  <2> QED BY <1>1, <1>2, <1>3, <1>4, <2>1, WriteKeeps DEF WriteNext, Waits
<1>5. CASE encoders' = SetInner([inner EXCEPT !.field = @ + 1]) /\ UNCHANGED <<todo, step>>
  <2> DEFINE g == [inner EXCEPT !.field = @ + 1]
  <2>1. g \in Frame(V, E) /\ Fits(g, Len(encoders) = 1) /\ Ready(g, "next", E)
    BY <1>2, <1>3, NextField
  <2> HIDE DEF g
  <2> QED BY <1>1, <1>2, <1>5, <2>1, GoOnKeeps DEF g
<1> QED BY <1>4, <1>5 DEF EncodeField

LEMMA AfterWrittenKeeps ==
    ASSUME NEW V, NEW E, Keeps(V, E), EncoderInv(V, E), AfterWritten
    PROVE  EncoderInv(V, E)'
<1>1. step = "written" /\ UNCHANGED rules /\ Stack(encoders, step, V, E)
  BY DEF AfterWritten, EncoderInv
<1>2. /\ inner \in Frame(V, E) /\ Fits(inner, Len(encoders) = 1)
      /\ AtField(inner) /\ Filled(inner, E)
  BY <1>1, InnerFacts DEF Ready
<1>3. inner.type \in Types \cup {NoType}
  BY <1>2, FrameFacts
<1>4. CASE Kind(inner.type) \in {"sequence", "set"} /\ GoOn([inner EXCEPT !.field = @ + 1])
  <2> DEFINE g == [inner EXCEPT !.field = @ + 1]
  <2>1. inner.type \in Types
    BY <1>3, <1>4 DEF Kind
  <2>2. g \in Frame(V, E) /\ Fits(g, Len(encoders) = 1) /\ Ready(g, "next", E)
    BY <1>2, <1>4, <2>1, NextField
  <2>3. encoders' = SetInner(g) /\ step' = "next" /\ UNCHANGED todo
    BY <1>4 DEF GoOn
  <2> HIDE DEF g
  <2> QED BY <1>1, <2>2, <2>3, GoOnKeeps
<1>5. CASE Kind(inner.type) = "sequenceOf" /\ GoOn(inner)
  <2>1. Ready(inner, "next", E)
    BY <1>5 DEF Ready, PastField, Cleared
  <2> QED BY <1>1, <1>2, <1>5, <2>1, GoOnKeeps DEF GoOn
<1>6. CASE /\ Kind(inner.type) = "setOf"
           /\ GoOn([inner EXCEPT !.elements = Append(@, inner.out), !.out = << >>])
  <2> DEFINE f == inner
             more == Append(f.elements, f.out)
             g == [f EXCEPT !.elements = more, !.out = << >>]
             place == f.type
             W == V[place]
             G == E[place]
  <2>1. f \in FrameAt(place, W, G) /\ place \in Places /\ f.out \in Under(G)
    BY <1>2, <1>6, FrameFacts DEF Filled
  <2>2. f.elements \in Seq(Under(G)) /\ << >> \in W
    BY <2>1 DEF FrameAt, Keeps
  <2>3. more \in Seq(Under(G))
    BY <2>1, <2>2
  <2> HIDE DEF f, more, place, W, G
  <2>4. g \in Frame(V, E) /\ g.type = f.type /\ g.isSet = f.isSet /\ g.out = << >>
    <3>1. g \in FrameAt(place, W, G) /\ g.isSet = f.isSet /\ g.out = << >>
      BY <2>1, <2>2, <2>3 DEF FrameAt
    <3> HIDE DEF g
    <3>2. g \in FrameAt(place, V[place], E[place])
      BY <3>1 DEF W, G
    <3>3. g \in Frame(V, E) /\ g.type = place
      BY <2>1, <3>2, FrameIs
    <3> QED BY <3>1, <3>3 DEF place
  <2>5. encoders' = SetInner(g) /\ step' = "next" /\ UNCHANGED todo
    BY <1>6 DEF GoOn, f, more
  <2>6. Kind(f.type) = "setOf" /\ Fits(f, Len(encoders) = 1)
    BY <1>2, <1>6 DEF f
  <2> HIDE DEF g
  <2>7. Fits(g, Len(encoders) = 1) /\ Ready(g, "next", E)
    BY <2>4, <2>6 DEF Fits, Ready, PastField, Cleared
  <2> QED BY <1>1, <2>4, <2>5, <2>7, GoOnKeeps
<1>7. CASE Kind(inner.type) = "explicit" /\ Leave(inner.out)
  <2>1. inner.type # NoType
    BY <1>7 DEF Kind
  <2>2. inner.out \in V[inner.type]
    BY <1>2, FrameFacts
  <2> QED BY <1>1, <1>7, <2>1, <2>2, LeaveKeeps
<1>8. CASE Kind(inner.type) = "root" /\ step' = "done" /\ UNCHANGED <<encoders, todo>>
  <2>1. Ready(encoders[Len(encoders)], "done", E)
    BY <1>8 DEF Ready, inner
  <2>2. Stack(encoders, "done", V, E)
    BY <1>1, <2>1 DEF Stack
  <2> QED BY <1>1, <1>8, <2>2 DEF EncoderInv
<1> QED BY <1>4, <1>5, <1>6, <1>7, <1>8 DEF AfterWritten

LEMMA EncodeAnyKeeps ==
    ASSUME NEW V, NEW E, Keeps(V, E), EncoderInv(V, E), EncodeAny
    PROVE  EncoderInv(V, E)'
<1> DEFINE tag == Schema[todo].tag
           label == IF tag = EOC THEN Here(todo) ELSE NoLabel
           items(v) == Labelled(v, label)
           wrapped(v) == IF v[1].constructed
                         THEN Constructed(tag, items(v), Here(todo))
                         ELSE << Item("tlv", tag, FALSE, Len(items(v)), Here(todo)) >> \o items(v)
<1>1. step = "write" /\ ~inner.isSet /\ UNCHANGED rules
  BY DEF EncodeAny, Doing
<1>2. PICK v \in AnyTokens :
         Written(IF tag = EOC THEN Write(inner, items(v))
                              ELSE EncodeToSet(Write(inner, wrapped(v)), tag))
  BY DEF EncodeAny
<1>3. todo \in Types /\ inner \in Frame(V, E)
  BY <1>1, WaitingInner
<1> DEFINE t == inner.type
<1>4. /\ tag \in Nat /\ Here(todo) \in Label /\ label \in Label /\ t \in Places
      /\ Here(todo).within = t /\ label.within \in {t, NoType}
  BY <1>3, TypeFacts, LabelFacts, FrameFacts DEF Here
<1> DEFINE c == items(v)
           w == wrapped(v)
           x == Item("tlv", tag, FALSE, Len(c), Here(todo))
<1>5. <<v[1].tag, c>> \in E[t]
  <2> HIDE DEF label
  <2> QED BY <1>4 DEF Keeps
<1>6. c \in V[t]
  <2>1. <<v[1].tag, c>>[2] = c
    OBVIOUS
  <2> HIDE DEF c
  <2> QED BY <1>4, <1>5, <2>1 DEF Keeps
<1>7. <<tag, w>> \in E[t]
  <2>1. CASE v[1].constructed
    <3>1. w = Constructed(tag, c, Here(todo))
      BY <2>1
    <3> HIDE DEF tag, c, w, t
    <3> QED BY <1>4, <1>6, <3>1, ConstructedKept
  <2>2. CASE ~v[1].constructed
    <3>1. w = Headed(x, c)
      BY <2>2 DEF Headed
    <3>2. Len(c) \in Int
      <4> HIDE DEF c
      <4> QED BY <1>4, <1>6, TextFacts DEF Keeps
    <3> HIDE DEF tag, c, w, t
    <3>3. x \in Token /\ x.kind = "tlv" /\ x.len = Len(c) /\ x.tag = tag /\ x.label = Here(todo)
      BY <1>4, <3>2 DEF Item, Token
    <3> HIDE DEF x
    <3>4. <<x.tag, Headed(x, c)>> \in E[t]
      BY <1>4, <1>6, <3>3 DEF Keeps, Wrapped
    <3> QED BY <3>1, <3>3, <3>4
  <2> QED BY <2>1, <2>2
<1>8. CASE tag = EOC
  <2> DEFINE first == v[1].tag
  <2>1. encoders' = SetInner(Put(inner, c, first)) /\ step' = "written" /\ UNCHANGED todo
    <3>1. Put(inner, c, first) = Write(inner, c)
      BY <1>1, <1>3 DEF Put, EncodeToSet, Write
    <3> QED BY <1>2, <1>8, <3>1 DEF Written
  <2> HIDE DEF c, first
  <2> QED BY <1>1, <1>5, <2>1, PutKeeps DEF first
<1>9. CASE tag # EOC
  <2>1. encoders' = SetInner(Put(inner, w, tag)) /\ step' = "written" /\ UNCHANGED todo
    BY <1>2, <1>9 DEF Written, Put
  <2> HIDE DEF w, tag
  <2> QED BY <1>1, <1>7, <2>1, PutKeeps
<1> QED BY <1>8, <1>9

\* Two writes are one.
LEMMA WriteTwice ==
    ASSUME NEW u, NEW E, NEW f \in FrameAt(u, Text, E), NEW s \in Text, NEW t \in Text
    PROVE  /\ Write(f, s) \in FrameAt(u, Text, E) /\ Write(f, s).isSet = f.isSet
           /\ Write(Write(f, s), t) = Write(f, s \o t)
<1> DEFINE g == Write(f, s)
<1>1. f.out \in Text
  BY DEF FrameAt
<1>2. f.out \o s \in Text /\ (f.out \o s) \o t = f.out \o (s \o t)
  <2> DEFINE r == f.out
  <2>1. r \in Seq(Token) /\ s \in Seq(Token) /\ t \in Seq(Token)
    BY <1>1 DEF Text
  <2> HIDE DEF r
  <2>2. r \o s \in Seq(Token)
    BY <2>1
  <2>3. (r \o s) \o t = r \o (s \o t)
    BY <2>1, ConcatAssociative
  <2> QED BY <2>2, <2>3 DEF Text, r
<1>3. g = [f EXCEPT !.out = f.out \o s]
  BY DEF Write
<1>4. g \in FrameAt(u, Text, E) /\ g.isSet = f.isSet
  BY <1>2, <1>3 DEF FrameAt
<1>5. Write(g, t) = [f EXCEPT !.out = (f.out \o s) \o t]
  BY <1>3 DEF Write, FrameAt
<1>6. Write(f, s \o t) = [f EXCEPT !.out = f.out \o (s \o t)]
  BY DEF Write
<1> QED BY <1>2, <1>4, <1>5, <1>6

\* A long string of type w in CER
Chunk(w, k) == << Item("tlv", PartTag(w), FALSE, 0, PartLabel(w, k)) >>
Opening(tag, l) == Item("tlv", tag, TRUE, -1, l)
Split(f, w, tag, l) ==
    Put(Put(Put(Write(f, << Opening(tag, l) >>), Chunk(w, 1), PartTag(w)), Chunk(w, 2), PartTag(w)),
        << EndOfContents >>, tag)

\* Its parts are for no place, so that they are in place anywhere.
LEMMA PartFacts ==
    ASSUME NEW w \in Types, NEW k \in Nat
    PROVE  /\ PartTag(w) \in Nat
           /\ PartLabel(w, k) \in Label /\ PartLabel(w, k).within = NoType
<1>1. PartTag(w) \in Nat
  BY EncoderAssumption DEF PartTag, BIT_STRING
<1>2. PartLabel(w, k) \in Label /\ PartLabel(w, k).within = NoType
  BY DEF PartLabel, Label
<1> QED BY <1>1, <1>2

\* The tokens of a string that CER splits
LEMMA SplitFacts ==
    ASSUME NEW w \in Types, NEW tag \in Nat, NEW l \in Label
    PROVE  /\ Opening(tag, l) \in Token /\ Opening(tag, l).kind = "tlv"
           /\ Opening(tag, l).len = -1 /\ Opening(tag, l).tag = tag
           /\ << Opening(tag, l) >> \in Text /\ << EndOfContents >> \in Text
           /\ << Opening(tag, l) >> # << >> /\ << EndOfContents >> # << >>
           /\ \A k \in 1..2 : Chunk(w, k) \in Text /\ Chunk(w, k) # << >>
<1>1. \A k \in 1..2 : PartTag(w) \in Nat /\ PartLabel(w, k) \in Label
  BY PartFacts
<1>2. \A k \in 1..2 : Item("tlv", PartTag(w), FALSE, 0, PartLabel(w, k)) \in Token
  BY <1>1 DEF Item, Token
<1>3. /\ Opening(tag, l) \in Token /\ Opening(tag, l).kind = "tlv"
      /\ Opening(tag, l).len = -1 /\ Opening(tag, l).tag = tag
  BY DEF Opening, Item, Token
<1>4. \A x \in Token : << x >> \in Text /\ << x >> # << >>
  BY DEF Text
<1> QED BY <1>2, <1>3, <1>4, EndFacts DEF Chunk

\* Outside a SET its parts are one value.
LEMMA SplitTogether ==
    ASSUME NEW V, NEW E, Keeps(V, E), NEW f \in Frame(V, E), ~f.isSet,
           NEW w \in Types, NEW tag \in Nat, NEW l \in Label, l.within = f.type
    PROVE  \E items : <<tag, items>> \in E[f.type] /\ Split(f, w, tag, l) = Put(f, items, tag)
<1> DEFINE o == << Opening(tag, l) >>
           c == Chunk(w, 1)
           d == Chunk(w, 2)
           z == << EndOfContents >>
           x == Opening(tag, l)
           items == Headed(x, c \o d) \o z
<1>1. o \in Text /\ c \in Text /\ d \in Text /\ z \in Text /\ x \in Token /\ x.kind = "tlv" /\ x.len = -1 /\ x.tag = tag
      /\ x.label = l
  BY SplitFacts DEF Opening, Item
<1> DEFINE place == f.type
           G == E[place]
<1>2. place \in Places /\ f \in FrameAt(place, Text, G)
  BY FrameFacts DEF FrameAt, Keeps
<1>3. NoType \in Places /\ Kind(NoType) = "root" /\ c \in V[NoType] /\ d \in V[NoType]
  <2>1. NoType \in Places /\ Kind(NoType) = "root"
    BY DEF Places, Kind
  <2>2. ASSUME NEW k \in 1..2 PROVE Chunk(w, k) \in V[NoType]
    <3> DEFINE h == Chunk(w, k)
    <3>1. <<PartTag(w), h>> \in E[NoType]
      <4>1. PartTag(w) \in Nat /\ PartLabel(w, k) \in Label /\ PartLabel(w, k).within = NoType
        BY PartFacts
      <4> QED BY <2>1, <4>1, PrimitiveKept DEF Chunk
    <3>2. <<PartTag(w), h>>[2] = h
      OBVIOUS
    <3> HIDE DEF h
    <3>3. h \in V[NoType]
      BY <2>1, <3>1, <3>2 DEF Keeps
    <3> QED BY <3>3 DEF h
  <2> QED BY <2>1, <2>2
<1> HIDE DEF place, G
<1>4. <<tag, items>> \in E[place]
  <2>1. l.within = place
    BY DEF place
  <2> HIDE DEF x, c, d
  <2>2. c \o d \in V[NoType]
    BY <1>3 DEF Keeps
  <2> QED BY <1>1, <1>2, <1>3, <2>1, <2>2 DEF Keeps, Wrapped
<1>5. \A g, s, tg : ~g.isSet => Put(g, s, tg) = Write(g, s)
  BY DEF Put, EncodeToSet, Write
<1> HIDE DEF o, c, d, z
<1> DEFINE f1 == Write(f, o)
           f2 == Write(f1, c)
           f3 == Write(f2, d)
<1>6. o \o c \in Text /\ (o \o c) \o d \in Text /\ (o \o c) \o d = o \o (c \o d)
  BY <1>1, ConcatAssociative, SMTT(30) DEF Text
<1>7. f1 \in FrameAt(place, Text, G) /\ ~f1.isSet
  BY <1>1, <1>2, WriteTwice
<1>8. f2 \in FrameAt(place, Text, G) /\ ~f2.isSet /\ f2 = Write(f, o \o c)
  BY <1>1, <1>2, <1>7, WriteTwice
<1>9. f3 \in FrameAt(place, Text, G) /\ ~f3.isSet /\ f3 = Write(f, (o \o c) \o d)
  <2>1. f3 \in FrameAt(place, Text, G) /\ ~f3.isSet
    <3> HIDE DEF f2
    <3> QED BY <1>1, <1>8, WriteTwice
  <2>2. Write(Write(f, o \o c), d) = Write(f, (o \o c) \o d)
    <3> DEFINE r == o \o c
    <3>1. r \in Text
      BY <1>6
    <3> HIDE DEF r
    <3>2. Write(Write(f, r), d) = Write(f, r \o d)
      BY <1>1, <1>2, <3>1, WriteTwice
    <3> QED BY <3>2 DEF r
  <2> QED BY <1>8, <2>1, <2>2
<1>10. Write(f3, z) = Write(f, ((o \o c) \o d) \o z)
  BY <1>1, <1>2, <1>6, <1>9, WriteTwice
<1>11. Headed(x, c \o d) = o \o (c \o d)
  BY DEF Headed, o
<1>12. Write(f3, z) = Put(f, items, tag)
  BY <1>5, <1>6, <1>10, <1>11
<1>13. Split(f, w, tag, l) = Write(f3, z)
  BY <1>5, <1>7, <1>8, <1>9 DEF Split, o, c, d, z
<1> QED BY <1>4, <1>12, <1>13 DEF place

\* In a SET they are kept apart; nothing but what each of them is tells them from
\* values.
LEMMA SplitApart ==
    ASSUME NEW u, NEW f \in FrameAt(u, Text, Written1), f.isSet,
           NEW w \in Types, NEW tag \in Nat, NEW l \in Label
    PROVE  LET g == Split(f, w, tag, l)
           IN  g \in FrameAt(u, Text, Written1) /\ Remains(g, f) /\ g.out = << >>
<1> DEFINE V == Text
           E == Written1
           o == << Opening(tag, l) >>
           c == Chunk(w, 1)
           d == Chunk(w, 2)
           z == << EndOfContents >>
<1>1. /\ o \in Text /\ c \in Text /\ d \in Text /\ z \in Text
      /\ c # << >> /\ d # << >> /\ z # << >> /\ PartTag(w) \in Nat
  BY SplitFacts, PartFacts
<1>2. ASSUME NEW h \in FrameAt(u, V, E), h.isSet, NEW s \in Text, s # << >>, NEW t \in Nat
      PROVE  Put(h, s, t) \in FrameAt(u, V, E) /\ Remains(Put(h, s, t), h) /\ Put(h, s, t).out = << >>
  <2>1. h.out \in Text
    BY DEF FrameAt
  <2>2. h.out \o s \in Text /\ h.out \o s # << >>
    BY <1>2, <2>1, ConcatProperties, ConcatEqualIffEmpty DEF Text
  <2>3. Longer(h, s) \in V /\ <<t, Longer(h, s)>> \in E
    BY <2>2 DEF Written1, Longer
  <2> DEFINE g == Put(h, s, t)
  <2>4. g \in FrameAt(u, V, E) /\ Remains(g, h) /\ (g.isSet => g.out = << >>)
    <3> HIDE DEF V, E
    <3>1. << >> \in V
      BY DEF V, Text
    <3> QED BY <1>2, <2>3, <3>1, PutKept
  <2> QED BY <1>2, <2>4 DEF Remains
<1>3. Write(f, o) \in FrameAt(u, V, E) /\ Remains(Write(f, o), f)
  <2>1. Write(f, o) \in FrameAt(u, V, E)
    BY <1>1, WriteTwice
  <2>2. Remains(Write(f, o), f)
    BY DEF Write, Remains, FrameAt
  <2> QED BY <2>1, <2>2
<1> DEFINE f1 == Write(f, o)
           f2 == Put(f1, c, PartTag(w))
           f3 == Put(f2, d, PartTag(w))
           g == Put(f3, z, tag)
<1> HIDE DEF V, E, o, c, d, z
<1>4. f1 \in FrameAt(u, V, E) /\ f1.isSet /\ Remains(f1, f)
  BY <1>3 DEF Remains
<1> HIDE DEF f1
<1>5. f2 \in FrameAt(u, V, E) /\ f2.isSet /\ Remains(f2, f)
  BY <1>1, <1>2, <1>4 DEF Remains
<1> HIDE DEF f2
<1>6. f3 \in FrameAt(u, V, E) /\ f3.isSet /\ Remains(f3, f)
  BY <1>1, <1>2, <1>5 DEF Remains
<1> HIDE DEF f3
<1>7. g \in FrameAt(u, V, E) /\ g.out = << >> /\ Remains(g, f)
  BY <1>1, <1>2, <1>6 DEF Remains
<1>8. Split(f, w, tag, l) = g
  BY DEF Split, f1, f2, f3, o, c, d, z
<1> QED BY <1>7, <1>8 DEF V, E

\* encode_string: a long string under CER is written in chunks, in the encoder itself.
LEMMA EncodeStringKeeps ==
    ASSUME NEW V, NEW E, Keeps(V, E), EncoderInv(V, E), EncodeString,
           (V = Everywhere(Text) /\ E = Everywhere(Written1)) \/ ~SplitsInSet
    PROVE  EncoderInv(V, E)'
<1> DEFINE tag == Schema[todo].tag
           l == Here(todo)
<1>1. step = "write" /\ Doing({"string", "bits"}) /\ UNCHANGED rules
  BY DEF EncodeString, Doing
<1>2. PICK long \in BOOLEAN :
         /\ Depart(long)
         /\ Written(IF long /\ rules = "CER" THEN Split(inner, todo, tag, l) ELSE Primitive(inner, tag, l))
  BY DEF EncodeString, Split, Put, Primitive, Chunk, Opening
<1>3. /\ Stack(encoders, step, V, E) /\ todo \in Types
      /\ inner \in Frame(V, E) /\ Fits(inner, Len(encoders) = 1) /\ Waits(inner)
  BY <1>1, WaitingInner
<1>4. tag \in Nat /\ l \in Label /\ l.within = inner.type /\ inner.type \in Places
  BY <1>3, TypeFacts, LabelFacts, FrameFacts DEF Here
<1>5. CASE ~(long /\ rules = "CER")
  <2> DEFINE items == << Item("tlv", tag, FALSE, 0, l) >>
  <2>1. <<tag, items>> \in E[inner.type]
    <3> HIDE DEF tag, l
    <3> QED BY <1>4, PrimitiveKept
  <2>2. encoders' = SetInner(Put(inner, items, tag)) /\ step' = "written" /\ UNCHANGED todo
    BY <1>2, <1>5 DEF Written, Primitive, Put
  <2> HIDE DEF items, tag
  <2> QED BY <1>1, <2>1, <2>2, PutKeeps
<1>6. CASE long /\ rules = "CER"
  <2>1. encoders' = SetInner(Split(inner, todo, tag, l)) /\ step' = "written" /\ UNCHANGED todo
    BY <1>2, <1>6 DEF Written
  <2> HIDE DEF tag, l
  <2>2. CASE ~inner.isSet
    <3>1. PICK items : <<tag, items>> \in E[inner.type] /\ Split(inner, todo, tag, l) = Put(inner, items, tag)
      BY <1>3, <1>4, <2>2, SplitTogether
    <3> QED BY <1>1, <2>1, <3>1, PutKeeps
  <2>3. CASE inner.isSet
    <3>1. V = Everywhere(Text) /\ E = Everywhere(Written1)
      <4>1. Depart(TRUE)
        BY <1>2, <1>6 DEF Depart
      <4> QED BY <1>1, <1>6, <2>3, <4>1 DEF SplitsInSet
    <3> DEFINE g == Split(inner, todo, tag, l)
    <3>2. g \in Frame(V, E) /\ Remains(g, inner) /\ g.out = << >>
      <4> DEFINE u == inner.type
      <4>1. u \in Places /\ V[u] = Text /\ E[u] = Written1
        BY <1>4, <3>1 DEF Everywhere
      <4>2. inner \in FrameAt(u, Text, Written1)
        BY <1>3, <4>1, FrameFacts
      <4> HIDE DEF u
      <4>3. g \in FrameAt(u, Text, Written1) /\ Remains(g, inner) /\ g.out = << >>
        BY <1>3, <1>4, <2>3, <4>2, SplitApart
      <4> HIDE DEF g
      <4> QED BY <4>1, <4>3, FrameIs
    <3> HIDE DEF g
    <3>3. Kind(g.type) = "set"
      BY <1>3, <2>3, <3>2 DEF Fits, Remains
    <3>4. Fits(g, Len(encoders) = 1)
      BY <1>3, <3>2 DEF Fits, Remains
    <3>5. Ready(g, "written", E)
      BY <1>3, <3>2, <3>3 DEF Ready, Waits, AtField, Filled, Remains, Fields
    <3>6. Stack(SetInner(g), "written", V, E)
      BY <1>3, <3>2, <3>4, <3>5, Replace
    <3> QED BY <1>1, <1>3, <2>1, <3>6 DEF EncoderInv, g
  <2> QED BY <2>2, <2>3
<1> QED BY <1>5, <1>6

LEMMA InitKeeps ==
    ASSUME NEW V, NEW E, Keeps(V, E), EncoderInit
    PROVE  EncoderInv(V, E)
<1> DEFINE f == NewEncoder(NoType, FALSE)
<1>1. /\ rules \in Rules /\ encoders = << f >> /\ todo \in Types /\ step = "write"
  BY EncoderAssumption DEF EncoderInit
<1>2. Kind(NoType) = "root"
  BY DEF Kind
<1>3. (Kind(NoType) = "set") = FALSE
  BY <1>2
<1>4. f \in Frame(V, E) /\ f.type = NoType /\ f.out = << >> /\ ~f.isSet
  <2> DEFINE g == NewEncoder(NoType, Kind(NoType) = "set")
  <2>1. NoType \in Places
    BY DEF Places
  <2>2. g \in Frame(V, E) /\ g.type = NoType /\ g.out = << >> /\ (g.isSet <=> Kind(NoType) = "set")
    BY <2>1, NewFrame
  <2>3. g = f
    BY <1>3
  <2> HIDE DEF g, f
  <2> QED BY <1>3, <2>2, <2>3
<1> HIDE DEF f
<1>5. Fits(f, TRUE) /\ Ready(f, "write", E)
  BY <1>2, <1>4 DEF Fits, Ready, Waits, AtField, Cleared
<1> DEFINE e == << f >>
<1>6. /\ e \in Seq(Frame(V, E)) /\ e # << >> /\ Len(e) = 1 /\ e[1] = f
  BY <1>4
<1> HIDE DEF e
<1>7. Stack(e, "write", V, E)
  <2>1. \A i \in 1..1 : i = 1
    OBVIOUS
  <2>2. \A i \in 1..(1 - 1) : FALSE
    OBVIOUS
  <2>3. \A i \in 1..1 : Fits(e[i], i = 1)
    BY <1>5, <1>6, <2>1
  <2> QED BY <1>5, <1>6, <2>2, <2>3 DEF Stack
<1> QED BY <1>1, <1>7 DEF EncoderInv, e

\* Every step keeps the invariant.
LEMMA StepKeeps ==
    ASSUME NEW V, NEW E, Keeps(V, E), EncoderInv(V, E), EncoderNext,
           (V = Everywhere(Text) /\ E = Everywhere(Written1)) \/ ~SplitsInSet
    PROVE  EncoderInv(V, E)'
<1>1. CASE EncodePrimitive
  BY <1>1, EncodePrimitiveKeeps
<1>2. CASE EncodeString
  BY <1>2, EncodeStringKeeps
<1>3. CASE EncodeAny
  BY <1>3, EncodeAnyKeeps
<1>4. CASE RefuseAny
  BY <1>4, RefuseAnyKeeps
<1>5. CASE EncodeChoice
  BY <1>5, EncodeChoiceKeeps
<1>6. CASE EnterConstructed
  BY <1>6, EnterConstructedKeeps
<1>7. CASE EncodeField
  BY <1>7, EncodeFieldKeeps
<1>8. CASE EncodeFieldsEnd
  BY <1>8, EncodeFieldsEndKeeps
<1>9. CASE EncodeElement
  BY <1>9, EncodeElementKeeps
<1>10. CASE EncodeElementsEnd
  BY <1>10, EncodeElementsEndKeeps
<1>11. CASE EncodeContent
  BY <1>11, EncodeContentKeeps
<1>12. CASE AfterWritten
  BY <1>12, AfterWrittenKeeps
<1> QED
  BY <1>1, <1>2, <1>3, <1>4, <1>5, <1>6, <1>7, <1>8, <1>9, <1>10, <1>11, <1>12 DEF EncoderNext

LEMMA StutterKeeps ==
    ASSUME NEW V, NEW E, EncoderInv(V, E), UNCHANGED encoderVars
    PROVE  EncoderInv(V, E)'
BY DEF EncoderInv, Stack, Ready, encoderVars, Fits, Waits, AtField, PastField, Cleared, Filled

\* What the invariant says of each encoder
LEMMA StackFrames ==
    ASSUME NEW V, NEW E, Keeps(V, E), EncoderInv(V, E), NEW i \in 1..Len(encoders)
    PROVE  /\ encoders[i] \in Frame(V, E) /\ Fits(encoders[i], i = 1) /\ PastField(encoders[i])
           /\ i # Len(encoders) \/ step # "written" => Cleared(encoders[i])
           /\ i = Len(encoders) /\ step = "written" => Filled(encoders[i], E)
<1>1. Stack(encoders, step, V, E) /\ step \in {"write", "next", "written", "done", "failed"}
  BY DEF EncoderInv
<1>2. Len(encoders) \in Nat /\ Len(encoders) >= 1 /\ Ready(inner, step, E)
  BY <1>1, InnerFacts
<1>3. encoders[i] \in Frame(V, E) /\ Fits(encoders[i], i = 1)
  <2>1. encoders \in Seq(Frame(V, E))
    BY <1>1 DEF Stack
  <2>2. encoders[i] \in Frame(V, E)
    BY <2>1
  <2> QED BY <1>1, <2>2 DEF Stack
<1>4. ASSUME NEW f \in Frame(V, E), AtField(f) PROVE PastField(f)
  <2> SUFFICES ASSUME Kind(f.type) \in {"sequence", "set"}
               PROVE  f.field \in 1..(Len(Fields(f)) + 1)
    BY DEF PastField
  <2>1. f.type \in Types
    BY FrameFacts DEF Kind
  <2>2. Len(Fields(f)) \in Nat /\ f.field \in 1..Len(Fields(f))
    BY <1>4, <2>1, TypeFacts DEF AtField, Fields
  <2> QED BY <2>2
<1>5. CASE i # Len(encoders)
  <2>1. i \in 1..(Len(encoders) - 1)
    BY <1>2, <1>5
  <2>2. Waits(encoders[i])
    BY <1>1, <2>1 DEF Stack
  <2> QED BY <1>3, <1>4, <1>5, <2>2 DEF Waits
<1>6. CASE i = Len(encoders)
  <2>1. encoders[i] = inner
    BY <1>6 DEF inner
  <2>2. CASE step = "done"
    <3>1. Kind(inner.type) = "root"
      BY <1>2, <2>2 DEF Ready
    <3> QED BY <1>3, <2>1, <2>2, <3>1 DEF PastField, Cleared
  <2>3. CASE step # "done"
    BY <1>1, <1>2, <1>3, <1>4, <1>6, <2>1, <2>3 DEF Ready, Waits
  <2> QED BY <2>2, <2>3
<1> QED BY <1>5, <1>6

\* What the invariant says of the encoders, in the words of the properties
LEMMA FramesFollow ==
    ASSUME NEW V, NEW E, Keeps(V, E), EncoderInv(V, E)
    PROVE  FramesOK
<1> SUFFICES ASSUME NEW i \in 1..Len(encoders)
             PROVE  LET f == encoders[i]
                    IN  /\ f.type = NoType <=> i = 1
                        /\ f.isSet <=> Kind(f.type) = "set"
                        /\ Kind(f.type) \in {"sequence", "set"} => f.field \in 1..(Len(Fields(f)) + 1)
                        /\ f.isSet => f.out = << >>
                        /\ Kind(f.type) \in {"setOf", "explicit"} /\ f.out # << >>
                              => i = Len(encoders) /\ step = "written"
  BY DEF FramesOK
<1>1. /\ Fits(encoders[i], i = 1) /\ PastField(encoders[i])
      /\ i # Len(encoders) \/ step # "written" => Cleared(encoders[i])
  BY StackFrames
<1> QED BY <1>1 DEF Fits, PastField, Cleared

LEMMA ValuesFollow ==
    ASSUME EncoderInv(Everywhere(Values), Everywhere(Single))
    PROVE  ValuesHeld
<1> SUFFICES ASSUME NEW i \in 1..Len(encoders)
             PROVE  LET f == encoders[i]
                    IN  /\ Whole(f.out)
                        /\ \A tag \in DOMAIN f.buffer :
                              OneValue(f.buffer[tag]) /\ f.buffer[tag][1].tag = tag
                        /\ \A k \in 1..Len(f.elements) : OneValue(f.elements[k])
                        /\ Kind(f.type) \in {"setOf", "explicit"} /\ i = Len(encoders) /\ step = "written"
                              => OneValue(f.out)
  BY DEF ValuesHeld
<1> DEFINE f == encoders[i]
<1>1. /\ f \in FrameAt(f.type, Values, Single)
      /\ i = Len(encoders) /\ step = "written" /\ Kind(f.type) \in {"setOf", "explicit"}
            => f.out \in Under(Single)
  <2> DEFINE V == Everywhere(Values)
             E == Everywhere(Single)
  <2>1. Keeps(V, E) /\ EncoderInv(V, E)
    BY ValuesKept
  <2> HIDE DEF V, E
  <2>2. /\ f \in Frame(V, E)
        /\ i = Len(encoders) /\ step = "written" => Filled(f, E)
    BY <2>1, StackFrames
  <2>3. V[f.type] = Values /\ E[f.type] = Single
    BY <2>2, FrameFacts DEF V, E, Everywhere
  <2> QED BY <2>2, <2>3, FrameFacts DEF Filled
<1> HIDE DEF f
<1>2. Whole(f.out)
  BY <1>1 DEF FrameAt, Values
<1>3. \A s \in Under(Single) : OneValue(s)
  BY DEF Under, Single
<1>4. \A t, s : <<t, s>> \in Single => OneValue(s) /\ s[1].tag = t
  BY DEF Single
<1>5. ASSUME NEW tag \in DOMAIN f.buffer PROVE OneValue(f.buffer[tag]) /\ f.buffer[tag][1].tag = tag
  <2>1. f.buffer \in Buffer(Single)
    BY <1>1 DEF FrameAt
  <2>2. <<tag, f.buffer[tag]>> \in Single
    BY <2>1 DEF Buffer
  <2> QED BY <1>4, <2>2
<1>6. ASSUME NEW k \in 1..Len(f.elements) PROVE OneValue(f.elements[k])
  <2>1. f.elements \in Seq(Under(Single))
    BY <1>1 DEF FrameAt
  <2>2. f.elements[k] \in Under(Single)
    BY <2>1
  <2> QED BY <1>3, <2>2
<1>7. Kind(f.type) \in {"setOf", "explicit"} /\ i = Len(encoders) /\ step = "written"
         => OneValue(f.out)
  BY <1>1, <1>3
<1> QED BY <1>2, <1>5, <1>6, <1>7 DEF f

\* What stands in the outermost encoder in the end is canonical.
LEMMA CanonicalFollows ==
    ASSUME EncoderInv(OrderedText, OrderedValues)
    PROVE  CanonicalOrder
<1> DEFINE V == OrderedText
           E == OrderedValues
<1>1. Stack(encoders, step, V, E)
  BY DEF EncoderInv
<1>2. encoders \in Seq(Frame(V, E)) /\ encoders # << >>
  BY <1>1 DEF Stack
<1> HIDE DEF V, E
<1>3. encoders[1] \in Frame(V, E)
  BY <1>2
<1>4. encoders[1].type \in Places /\ encoders[1].out \in V[encoders[1].type]
  BY <1>3, FrameFacts
<1>5. Encoding \in Ordered(encoders[1].type)
  BY <1>4, PlaceFacts DEF Encoding, V
<1> QED BY <1>5 DEF Ordered, CanonicalOrder

-----------------------------------------------------------------------------

\* Whatever the rules, the type and the value: every nested encoder is at a
\* component of its type, and what has been written is taken over at once
\* (encode_to_set, enc.rs:253, encode_set_of, enc.rs:662, encode_constructed, enc.rs:239).
THEOREM FramesCorrect == EncoderSpec => []FramesOK
<1> DEFINE Inv == EncoderInv(Everywhere(Text), Everywhere(Written1))
<1>1. EncoderInit => Inv
  BY InitKeeps, TextKept
<1>2. Inv /\ [EncoderNext]_encoderVars => Inv'
  <2> DEFINE V == Everywhere(Text)
             E == Everywhere(Written1)
  <2>1. Keeps(V, E)
    BY TextKept
  <2>2. ASSUME EncoderInv(V, E), EncoderNext PROVE EncoderInv(V, E)'
    <3>1. V = Everywhere(Text) /\ E = Everywhere(Written1)
      OBVIOUS
    <3> HIDE DEF V, E
    <3> QED BY <2>1, <2>2, <3>1, StepKeeps
  <2>3. ASSUME EncoderInv(V, E), UNCHANGED encoderVars PROVE EncoderInv(V, E)'
    <3> HIDE DEF V, E
    <3> QED BY <2>3, StutterKeeps
  <2> QED BY <2>2, <2>3
<1>3. Inv => FramesOK
  BY FramesFollow, TextKept
<1> HIDE DEF Inv
<1> QED BY <1>1, <1>2, <1>3, PTL DEF EncoderSpec

\* Where CER splits no string, a BIT STRING included, inside a SET (enc.rs:222), what every encoder
\* holds are whole values: the entries of a SET's buffer are single values with
\* the tag they are kept under, the elements of a SET OF are single values, and an
\* explicit tag is put around one.
THEOREM EncoderCorrect == EncoderInit /\ [][EncoderNext /\ ~SplitsInSet]_encoderVars => []EncoderOK
<1> DEFINE Inv == EncoderInv(Everywhere(Values), Everywhere(Single))
           Step == EncoderNext /\ ~SplitsInSet
<1>1. EncoderInit => Inv
  BY InitKeeps, ValuesKept
<1>2. Inv /\ [Step]_encoderVars => Inv'
  <2> DEFINE V == Everywhere(Values)
             E == Everywhere(Single)
  <2>1. Keeps(V, E)
    BY ValuesKept
  <2>2. ASSUME EncoderInv(V, E), EncoderNext, ~SplitsInSet PROVE EncoderInv(V, E)'
    <3> HIDE DEF V, E
    <3> QED BY <2>1, <2>2, StepKeeps
  <2>3. ASSUME EncoderInv(V, E), UNCHANGED encoderVars PROVE EncoderInv(V, E)'
    <3> HIDE DEF V, E
    <3> QED BY <2>3, StutterKeeps
  <2> QED BY <2>2, <2>3
<1>3. Inv => EncoderOK
  BY FramesFollow, ValuesFollow, ValuesKept DEF EncoderOK
<1> HIDE DEF Inv
<1> QED BY <1>1, <1>2, <1>3, PTL

\* BER and DER write every string at once, so nothing is left out for them: whatever
\* the type and the value, the encoders are in their places and hold whole values.
THEOREM EncoderCorrectBerDer == EncoderSpec /\ rules # "CER" => []EncoderOK
<1> DEFINE NotCer == rules # "CER"
<1>1. NotCer /\ [EncoderNext]_encoderVars => NotCer'
  BY DEF EncoderNext, encoderVars, EncodePrimitive, EncodeString, EncodeAny, RefuseAny, EncodeChoice,
         EnterConstructed, EncodeField, EncodeFieldsEnd, EncodeElement, EncodeElementsEnd,
         EncodeContent, AfterWritten
<1>2. NotCer /\ [EncoderNext]_encoderVars => [EncoderNext /\ ~SplitsInSet]_encoderVars
  BY DEF SplitsInSet
<1> HIDE DEF NotCer
<1>3. NotCer /\ EncoderSpec => []EncoderOK
  BY <1>1, <1>2, EncoderCorrect, PTL DEF EncoderSpec
<1> QED BY <1>3 DEF NotCer

\* Where CER splits no string, a BIT STRING included, inside a SET (enc.rs:222), whatever is encoded is in
\* the canonical order in the end: the components of every SET by their tags, as
\* encode_to_set keeps them (enc.rs:253), and the elements of every SET OF by their
\* octets, as encode_set_of sorts them (enc.rs:662), however deep they are nested.
THEOREM CanonicalCorrect == EncoderInit /\ [][EncoderNext /\ ~SplitsInSet]_encoderVars => []CanonicalOrder
<1> DEFINE Inv == EncoderInv(OrderedText, OrderedValues)
           Step == EncoderNext /\ ~SplitsInSet
<1>1. EncoderInit => Inv
  BY InitKeeps, OrderedKept
<1>2. Inv /\ [Step]_encoderVars => Inv'
  <2> DEFINE V == OrderedText
             E == OrderedValues
  <2>1. Keeps(V, E)
    BY OrderedKept
  <2>2. ASSUME EncoderInv(V, E), EncoderNext, ~SplitsInSet PROVE EncoderInv(V, E)'
    <3> HIDE DEF V, E
    <3> QED BY <2>1, <2>2, StepKeeps
  <2>3. ASSUME EncoderInv(V, E), UNCHANGED encoderVars PROVE EncoderInv(V, E)'
    <3> HIDE DEF V, E
    <3> QED BY <2>3, StutterKeeps
  <2> QED BY <2>2, <2>3
<1>3. Inv => CanonicalOrder
  BY CanonicalFollows
<1> HIDE DEF Inv
<1> QED BY <1>1, <1>2, <1>3, PTL

\* BER and DER write every string at once: under DER, and where BER writes a SET or a SET
\* OF, the order is canonical without any condition.
THEOREM CanonicalCorrectBerDer == EncoderSpec /\ rules # "CER" => []CanonicalOrder
<1> DEFINE NotCer == rules # "CER"
<1>1. NotCer /\ [EncoderNext]_encoderVars => NotCer'
  BY DEF EncoderNext, encoderVars, EncodePrimitive, EncodeString, EncodeAny, RefuseAny, EncodeChoice,
         EnterConstructed, EncodeField, EncodeFieldsEnd, EncodeElement, EncodeElementsEnd,
         EncodeContent, AfterWritten
<1>2. NotCer /\ [EncoderNext]_encoderVars => [EncoderNext /\ ~SplitsInSet]_encoderVars
  BY DEF SplitsInSet
<1> HIDE DEF NotCer
<1>3. NotCer /\ EncoderSpec => []CanonicalOrder
  BY <1>1, <1>2, CanonicalCorrect, PTL DEF EncoderSpec
<1> QED BY <1>3 DEF NotCer
=============================================================================
