-------------------------- MODULE CallStack_proofs ---------------------------
(***************************************************************************)
(* What the steps of a decoder do to the calls under way: the innermost    *)
(* one moves on, another is begun in it, or it returns.  Each keeps the    *)
(* slices nested and the depth within its limit, and goes forwards.        *)
(***************************************************************************)
EXTENDS CallStack, TLAPS, FiniteSetTheorems, SequenceTheorems, WellFoundedInduction

\* Values are nested without bound: no set has them all
IsSeq(s) == \E S : s \in Seq(S)

CallName == Constructed \cup {"root", "addition", "list", "choice"}
CallField == {"call", "type", "alt", "pos", "end", "depth", "own", "present", "extensions",
              "additions", "left", "order", "got"}

\* The part of a call that does not change
Fixed(c) ==
    /\ DOMAIN c = CallField
    /\ c.call \in CallName
    /\ c.type \in Type
    /\ c.end \in Nat
    /\ c.depth \in 0..MaxDepth
    /\ c.own \in BOOLEAN
    /\ c.call \in Constructed =>
          IsSeq(c.order) /\ \A k \in 1..Len(c.order) : c.order[k] \in 1..Len(Fields[c.type])
    /\ c.call = "list" => Kind[c.type] = "list"
    /\ c.call = "addition" => c.own
Same(c, d) ==
    /\ DOMAIN d = DOMAIN c
    /\ d.call = c.call /\ d.type = c.type /\ d.end = c.end /\ d.depth = c.depth
    /\ d.own = c.own /\ d.order = c.order
CallOK(c) == Fixed(c) /\ c.pos \in Nat /\ IsSeq(c.got)

\* How deep a call with so much depth left can be.  Additions share the depth of the
\* SEQUENCE they are in, and are never in another addition.
Above(c) == 2 * (MaxDepth - c.depth) + (IF c.call \in {"root", "addition"} THEN 1 ELSE 0)

\* The calls under way in an input of n items
Calls(s, n) ==
    /\ IsSeq(s) /\ Len(s) > 0
    /\ \A i \in 1..Len(s) : /\ CallOK(s[i])
                            /\ s[i].call = "root" <=> i = 1
                            /\ i <= Above(s[i])
                            /\ Inside(s[i], n)
    /\ \A i \in 2..Len(s) : Within(s[i], s[i - 1])

\* The innermost call c moved on to d
Onwards(c, d) == /\ Same(c, d)
                 /\ d.pos \in Nat /\ c.pos <= d.pos /\ d.pos <= d.end + 1
                 /\ IsSeq(d.got) /\ Retains(c.got, d.got)
\* One call at most begins or returns, the others go on.
GoOn(before, after) ==
    /\ Len(after) \in (Len(before) - 1)..(Len(before) + 1)
    /\ \A i \in 1..Len(before) : i <= Len(after) => Continues(before[i], after[i])

\* d is begun in c
Begun(c, d) == /\ CallOK(d)
               /\ d.call # "root"
               /\ d.depth = IF d.call = "addition" THEN c.depth ELSE c.depth - 1
               /\ d.call = "addition" => c.call \in Constructed
               /\ 1 <= d.pos /\ d.pos <= d.end + 1
               /\ d.own => d.end <= c.end
               /\ Within(d, c)

-----------------------------------------------------------------------------

\* Sequences of anything: the last element replaced, one more, one less
Replaced(s, x) == [s EXCEPT ![Len(s)] = x]
Pushed(s, x) == Append(s, x)

LEMMA ReplacedSeq ==
    ASSUME NEW s, IsSeq(s), Len(s) > 0, NEW x, NEW r, r = Replaced(s, x)
    PROVE  /\ IsSeq(r) /\ Len(r) = Len(s) /\ r[Len(s)] = x
           /\ \A j \in 1..Len(s) : j # Len(s) => r[j] = s[j]
<1>1. PICK S : s \in Seq(S)
  BY DEF IsSeq
<1>2. r = [s EXCEPT ![Len(s)] = x] /\ Len(s) \in 1..Len(s)
  BY <1>1 DEF Replaced
<1>3. s \in Seq(S \cup {x}) /\ r \in Seq(S \cup {x})
  BY <1>1, <1>2
<1>4. Len(r) = Len(s) /\ r[Len(s)] = x /\ \A j \in 1..Len(s) : j # Len(s) => r[j] = s[j]
  BY <1>1, <1>2
<1> QED BY <1>3, <1>4 DEF IsSeq

LEMMA PushedSeq ==
    ASSUME NEW s, IsSeq(s), NEW x, NEW r, r = Pushed(s, x)
    PROVE  /\ IsSeq(r) /\ Len(s) \in Nat /\ Len(r) = Len(s) + 1 /\ r[Len(s) + 1] = x
           /\ \A j \in 1..Len(s) : r[j] = s[j]
<1>1. PICK S : s \in Seq(S)
  BY DEF IsSeq
<1>2. r = Append(s, x) /\ s \in Seq(S \cup {x}) /\ r \in Seq(S \cup {x})
  BY <1>1 DEF Pushed
<1>3. /\ Len(s) \in Nat /\ Len(r) = Len(s) + 1 /\ r[Len(s) + 1] = x
      /\ \A j \in 1..Len(s) : r[j] = s[j]
  BY <1>1, <1>2
<1> QED BY <1>2, <1>3 DEF IsSeq

LEMMA FrontSeq ==
    ASSUME NEW s, IsSeq(s), Len(s) > 0, NEW r, r = Front(s)
    PROVE  /\ IsSeq(r) /\ Len(s) \in Nat /\ Len(r) = Len(s) - 1
           /\ \A j \in 1..Len(r) : r[j] = s[j]
<1> DEFINE m == Len(s)
<1>1. PICK S : s \in Seq(S)
  BY DEF IsSeq
<1>2. /\ m \in Nat /\ m > 0 /\ r = SubSeq(s, 1, m - 1)
      /\ \A j \in 1..(m - 1) : s[j] \in S
  BY <1>1 DEF Front
<1> HIDE DEF m
<1>3. m - 1 \in Int /\ 1 \in Int
  BY <1>2
<1>4. /\ r \in Seq(S)
      /\ Len(r) = IF 1 <= m - 1 THEN m - 1 - 1 + 1 ELSE 0
      /\ \A j \in 1..(m - 1 - 1 + 1) : r[j] = s[1 + j - 1]
  BY <1>2, <1>3, SubSeqProperties
<1>5. Len(r) = m - 1
  BY <1>2, <1>4
<1>6. \A j \in 1..Len(r) : r[j] = s[j]
  BY <1>2, <1>4, <1>5
<1> QED BY <1>2, <1>4, <1>5, <1>6 DEF IsSeq, m

LEMMA LenNat == ASSUME NEW s, IsSeq(s) PROVE Len(s) \in Nat
BY DEF IsSeq

LEMMA RetainsItself == ASSUME NEW g, IsSeq(g) PROVE Retains(g, g)
<1>1. Len(g) \in Nat
  BY LenNat
<1> QED BY <1>1 DEF Retains

LEMMA RetainsMore ==
    ASSUME NEW f, NEW g, NEW h, IsSeq(f), IsSeq(g), IsSeq(h), Retains(f, g), Retains(g, h)
    PROVE  Retains(f, h)
<1> DEFINE a == Len(f)
           b == Len(g)
           c == Len(h)
<1>1. a \in Nat /\ b \in Nat /\ c \in Nat
  BY LenNat
<1>2. /\ a <= b /\ \A k \in 1..a : g[k] = f[k]
      /\ b <= c /\ \A k \in 1..b : h[k] = g[k]
  BY DEF Retains
<1> HIDE DEF a, b, c
<1>3. a <= c /\ \A k \in 1..a : h[k] = f[k]
  BY <1>1, <1>2
<1> QED BY <1>3 DEF Retains, a, c

-----------------------------------------------------------------------------

\* What is known of the innermost call
LEMMA TopFacts ==
    ASSUME NEW s, NEW n \in Nat, Calls(s, n)
    PROVE  /\ Len(s) \in Nat /\ Len(s) > 0 /\ Len(s) \in 1..Len(s)
           /\ CallOK(Top(s)) /\ Inside(Top(s), n) /\ Len(s) <= Above(Top(s))
           /\ Top(s).call = "root" <=> Len(s) = 1
           /\ Top(s).pos \in Nat /\ Top(s).pos >= 1 /\ Top(s).end \in Nat
           /\ Top(s).pos <= Top(s).end + 1 /\ Top(s).end <= n
<1>1. Len(s) \in Nat /\ Len(s) > 0 /\ Len(s) \in 1..Len(s)
  BY LenNat DEF Calls
<1>2. /\ CallOK(Top(s)) /\ Inside(Top(s), n) /\ Len(s) <= Above(Top(s))
      /\ Top(s).call = "root" <=> Len(s) = 1
  BY <1>1 DEF Calls, Top
<1>3. Top(s).pos \in Nat /\ Top(s).pos >= 1 /\ Top(s).end \in Nat
  BY <1>2 DEF CallOK, Fixed, Inside
<1> QED BY <1>1, <1>2, <1>3 DEF Inside

\* What moved on has the place, the depth and the kind it had.
LEMMA SameFacts ==
    ASSUME NEW c, NEW d, NEW n \in Nat, CallOK(c), Inside(c, n), Onwards(c, d)
    PROVE  /\ CallOK(d) /\ Inside(d, n) /\ Above(d) = Above(c)
           /\ d.call = c.call
           /\ \A b : b.pos \in Nat /\ Within(c, b) => Within(d, b)
<1>1. Fixed(d)
  BY DEF CallOK, Fixed, Onwards, Same
<1>2. CallOK(d)
  BY <1>1 DEF CallOK, Onwards
<1>3. c.pos \in Nat /\ c.end \in Nat /\ d.pos \in Nat
  BY DEF CallOK, Fixed, Onwards
<1>4. Inside(d, n)
  BY <1>3 DEF Inside, Onwards, Same
<1>5. Above(d) = Above(c) /\ d.call = c.call
  BY DEF Above, Onwards, Same
<1>6. ASSUME NEW b, b.pos \in Nat, Within(c, b)
      PROVE  Within(d, b)
  <2>1. CASE c.own
    BY <1>6, <2>1 DEF Within, Onwards, Same
  <2>2. CASE ~c.own
    <3>1. b.pos <= c.pos /\ c.pos <= d.pos /\ d.end = b.end
      BY <1>6, <2>2 DEF Within, Onwards, Same
    <3> QED BY <1>3, <1>6, <2>2, <3>1 DEF Within, Onwards, Same
  <2> QED BY <2>1, <2>2
<1> QED BY <1>2, <1>4, <1>5, <1>6

\* A call goes on as it is, and further than where it went on to.
LEMMA ContinuesItself == ASSUME NEW c, CallOK(c) PROVE Continues(c, c)
<1>1. c.pos \in Nat /\ IsSeq(c.got)
  BY DEF CallOK
<1> DEFINE g == c.got
<1>2. IsSeq(g)
  BY <1>1
<1> HIDE DEF g
<1>3. Retains(g, g)
  BY <1>2, RetainsItself
<1> QED BY <1>1, <1>3 DEF Continues, g

LEMMA ContinuesFurther ==
    ASSUME NEW b, NEW c, NEW d, CallOK(b), CallOK(c), CallOK(d), Continues(b, c), Continues(c, d)
    PROVE  Continues(b, d)
<1> DEFINE f == b.got
           g == c.got
           h == d.got
<1>1. /\ b.pos \in Nat /\ c.pos \in Nat /\ d.pos \in Nat
      /\ IsSeq(f) /\ IsSeq(g) /\ IsSeq(h)
  BY DEF CallOK
<1>2. /\ c.end = b.end /\ b.pos <= c.pos /\ Retains(f, g)
      /\ d.end = c.end /\ c.pos <= d.pos /\ Retains(g, h)
  BY DEF Continues
<1> HIDE DEF f, g, h
<1>3. Retains(f, h)
  BY <1>1, <1>2, RetainsMore
<1>4. b.pos <= d.pos
  BY <1>1, <1>2
<1> QED BY <1>2, <1>3, <1>4 DEF Continues, f, h

\* The innermost call moves on.
LEMMA MovesOn ==
    ASSUME NEW n \in Nat, NEW s, Calls(s, n), NEW d, Onwards(Top(s), d),
           NEW r, r = Replaced(s, d)
    PROVE  Calls(r, n) /\ Len(r) = Len(s) /\ Top(r) = d /\ Proceeds(s, r) /\ GoOn(s, r)
<1> DEFINE m == Len(s)
<1>1. /\ m \in Nat /\ m > 0 /\ m \in 1..Len(s)
      /\ CallOK(Top(s)) /\ Inside(Top(s), n) /\ m <= Above(Top(s))
      /\ Top(s).call = "root" <=> m = 1
  BY TopFacts
<1>2. /\ CallOK(d) /\ Inside(d, n) /\ Above(d) = Above(Top(s)) /\ d.call = Top(s).call
      /\ \A b : b.pos \in Nat /\ Within(Top(s), b) => Within(d, b)
  BY <1>1, SameFacts
<1>3. /\ IsSeq(r) /\ Len(r) = m /\ r[m] = d
      /\ \A j \in 1..m : j # m => r[j] = s[j]
  <2>1. IsSeq(s) /\ Len(s) > 0
    BY DEF Calls
  <2>2. /\ IsSeq(r) /\ Len(r) = Len(s) /\ r[Len(s)] = d
        /\ \A j \in 1..Len(s) : j # Len(s) => r[j] = s[j]
    BY <2>1, ReplacedSeq
  <2> QED BY <2>2
<1>4. s[m] = Top(s) /\ Top(r) = d
  BY <1>3 DEF Top
<1>5. /\ \A i \in 1..m : CallOK(s[i]) /\ (s[i].call = "root" <=> i = 1) /\ i <= Above(s[i]) /\ Inside(s[i], n)
      /\ \A i \in 2..m : Within(s[i], s[i - 1])
  BY DEF Calls
<1> HIDE DEF m
<1>6. ASSUME NEW i \in 1..m
      PROVE  CallOK(r[i]) /\ (r[i].call = "root" <=> i = 1) /\ i <= Above(r[i]) /\ Inside(r[i], n)
  BY <1>1, <1>2, <1>3, <1>5
<1>7. ASSUME NEW i \in 2..m
      PROVE  Within(r[i], r[i - 1])
  <2>1. i \in 1..m /\ i - 1 \in 1..m /\ i - 1 # m /\ r[i - 1] = s[i - 1] /\ Within(s[i], s[i - 1])
    BY <1>1, <1>3, <1>5
  <2>2. s[i - 1].pos \in Nat
    BY <1>5, <2>1 DEF CallOK
  <2> QED BY <1>2, <1>3, <1>4, <2>1, <2>2
<1>8. Len(r) > 0
  BY <1>1, <1>3
<1>9. Calls(r, n)
  BY <1>3, <1>6, <1>7, <1>8 DEF Calls
<1>10. Continues(Top(s), d)
  BY DEF Onwards, Same, Continues
<1>11. \A i \in 1..m : Continues(s[i], r[i])
  BY <1>3, <1>4, <1>5, <1>10, ContinuesItself
<1>12. Top(s).pos <= Top(r).pos
  BY <1>4, <1>10 DEF Continues
<1>13. Proceeds(s, r) /\ GoOn(s, r)
  <2>1. m \in (m - 1)..(m + 1)
    BY <1>1
  <2> QED BY <1>3, <1>11, <1>12, <2>1 DEF Proceeds, GoOn, m
<1> QED BY <1>3, <1>4, <1>9, <1>13 DEF m

LEMMA OneLess ==
    ASSUME NEW D \in Nat, NEW x \in 0..D, NEW a \in Int, a <= 2 * (D - x) + 1,
           NEW m \in Nat, m <= a
    PROVE  m + 1 <= 2 * (D - (x - 1))
OBVIOUS

\* Another call is begun.
LEMMA Begins ==
    ASSUME MaxDepth \in Nat, NEW n \in Nat, NEW s, Calls(s, n), NEW d, Begun(Top(s), d),
           NEW r, r = Pushed(s, d)
    PROVE  Calls(r, n) /\ GoOn(s, r) /\ Top(r) = d
<1> DEFINE m == Len(s)
           c == Top(s)
<1>1. /\ m \in Nat /\ m > 0 /\ m <= Above(c) /\ c.end \in Nat /\ c.end <= n
      /\ CallOK(c) /\ c = s[m]
  BY TopFacts DEF Top
<1>2. /\ IsSeq(r) /\ Len(r) = m + 1 /\ r[m + 1] = d
      /\ \A j \in 1..m : r[j] = s[j]
  <2>1. IsSeq(s)
    BY DEF Calls
  <2>2. /\ IsSeq(r) /\ Len(r) = Len(s) + 1 /\ r[Len(s) + 1] = d
        /\ \A j \in 1..Len(s) : r[j] = s[j]
    BY <2>1, PushedSeq
  <2> QED BY <2>2
<1>3. /\ \A i \in 1..m : CallOK(s[i]) /\ (s[i].call = "root" <=> i = 1) /\ i <= Above(s[i]) /\ Inside(s[i], n)
      /\ \A i \in 2..m : Within(s[i], s[i - 1])
  BY DEF Calls
<1> HIDE DEF m, c
<1>4. /\ c.depth \in 0..MaxDepth /\ d.depth \in 0..MaxDepth
      /\ d.call # "root" /\ CallOK(d)
      /\ d.depth = IF d.call = "addition" THEN c.depth ELSE c.depth - 1
      /\ d.call = "addition" => c.call \in Constructed
  BY <1>1 DEF Begun, CallOK, Fixed, c
<1>5. m + 1 <= Above(d)
  <2>1. CASE d.call = "addition"
    <3>1. Above(c) = 2 * (MaxDepth - c.depth) /\ Above(d) = 2 * (MaxDepth - c.depth) + 1
      BY <1>4, <2>1 DEF Above, Constructed
    <3> QED BY <1>1, <1>4, <3>1
  <2>2. CASE d.call # "addition"
    <3>1. Above(c) <= 2 * (MaxDepth - c.depth) + 1
      BY <1>4 DEF Above
    <3>2. Above(d) = 2 * (MaxDepth - (c.depth - 1))
      BY <1>4, <2>2 DEF Above
    <3>3. Above(c) \in Int
      BY <1>4 DEF Above
    <3> QED BY <1>1, <1>4, <3>1, <3>2, <3>3, OneLess
  <2> QED BY <2>1, <2>2
<1>6. Inside(d, n) /\ Within(d, c)
  <2>1. d.end \in Nat /\ d.pos \in Nat
    BY <1>4 DEF CallOK, Fixed
  <2>2. d.end <= c.end
    <3>1. CASE d.own
      BY <3>1 DEF Begun, c
    <3>2. CASE ~d.own
      BY <1>1, <3>2 DEF Begun, Within, c
    <3> QED BY <3>1, <3>2
  <2> QED BY <1>1, <2>1, <2>2 DEF Begun, Inside, c
<1>7. ASSUME NEW i \in 1..(m + 1)
      PROVE  CallOK(r[i]) /\ (r[i].call = "root" <=> i = 1) /\ i <= Above(r[i]) /\ Inside(r[i], n)
  <2>1. CASE i = m + 1
    BY <1>1, <1>2, <1>4, <1>5, <1>6, <2>1
  <2>2. CASE i # m + 1
    BY <1>1, <1>2, <1>3, <2>2
  <2> QED BY <2>1, <2>2
<1>8. ASSUME NEW i \in 2..(m + 1)
      PROVE  Within(r[i], r[i - 1])
  <2>1. CASE i = m + 1
    BY <1>1, <1>2, <1>6, <2>1
  <2>2. CASE i # m + 1
    BY <1>1, <1>2, <1>3, <2>2
  <2> QED BY <2>1, <2>2
<1>9. Len(r) > 0
  BY <1>1, <1>2
<1>10. \A i \in 1..m : Continues(s[i], r[i])
  BY <1>2, <1>3, ContinuesItself
<1>11. Top(r) = d
  BY <1>2 DEF Top
<1>12. m + 1 \in (m - 1)..(m + 1)
  BY <1>1
<1>13. GoOn(s, r)
  BY <1>2, <1>10, <1>12 DEF GoOn, m
<1> QED BY <1>2, <1>7, <1>8, <1>9, <1>11, <1>13 DEF Calls

\* The innermost call returns.
LEMMA Ends ==
    ASSUME NEW n \in Nat, NEW s, Calls(s, n), Len(s) > 1, NEW r, r = Front(s)
    PROVE  /\ Calls(r, n) /\ Within(Top(s), Top(r))
           /\ Len(r) = Len(s) - 1
<1> DEFINE m == Len(s)
<1>1. m \in Nat /\ m > 1 /\ s[m] = Top(s)
  BY TopFacts DEF Top
<1>2. /\ IsSeq(r) /\ Len(r) = m - 1
      /\ \A j \in 1..Len(r) : r[j] = s[j]
  <2>1. IsSeq(s) /\ Len(s) > 0
    BY DEF Calls
  <2> QED BY <2>1, FrontSeq
<1>3. /\ \A i \in 1..m : CallOK(s[i]) /\ (s[i].call = "root" <=> i = 1) /\ i <= Above(s[i]) /\ Inside(s[i], n)
      /\ \A i \in 2..m : Within(s[i], s[i - 1])
  BY DEF Calls
<1> HIDE DEF m
<1>4. ASSUME NEW i \in 1..(m - 1)
      PROVE  CallOK(r[i]) /\ (r[i].call = "root" <=> i = 1) /\ i <= Above(r[i]) /\ Inside(r[i], n)
  <2>1. i \in 1..m /\ r[i] = s[i]
    BY <1>1, <1>2
  <2> QED BY <1>3, <2>1
<1>5. ASSUME NEW i \in 2..(m - 1)
      PROVE  Within(r[i], r[i - 1])
  BY <1>1, <1>2, <1>3
<1>6. Len(r) > 0
  BY <1>1, <1>2
<1>7. Calls(r, n)
  BY <1>2, <1>4, <1>5, <1>6 DEF Calls
<1>8. Top(r) = s[m - 1] /\ Within(s[m], s[m - 1])
  BY <1>1, <1>2, <1>3 DEF Top
<1> QED BY <1>1, <1>2, <1>7, <1>8 DEF m

\* The innermost call moves on, and another is begun in it.
LEMMA GoOnTwice ==
    ASSUME NEW n \in Nat, NEW s, NEW r, NEW q, Calls(s, n), Calls(r, n), Calls(q, n),
           GoOn(s, r), GoOn(r, q), Len(r) = Len(s)
    PROVE  GoOn(s, q)
<1> DEFINE m == Len(s)
           l == Len(q)
<1>1. /\ m \in Nat /\ m > 0 /\ l \in Nat /\ l > 0
      /\ \A i \in 1..m : CallOK(s[i]) /\ CallOK(r[i])
      /\ \A i \in 1..l : CallOK(q[i])
  BY TopFacts DEF Calls
<1>2. /\ l \in (m - 1)..(m + 1)
      /\ \A i \in 1..m : i <= m => Continues(s[i], r[i])
      /\ \A i \in 1..m : i <= l => Continues(r[i], q[i])
  BY DEF GoOn
<1> HIDE DEF m, l
<1>4. ASSUME NEW i \in 1..m, i <= l
      PROVE  Continues(s[i], q[i])
  <2>1. i \in 1..l /\ i <= m
    BY <1>1, <1>4
  <2>2. Continues(s[i], r[i]) /\ Continues(r[i], q[i]) /\ CallOK(s[i]) /\ CallOK(r[i]) /\ CallOK(q[i])
    BY <1>1, <1>2, <1>4, <2>1
  <2> QED BY <2>2, ContinuesFurther
<1> QED BY <1>2, <1>4 DEF GoOn, m, l

\* The innermost call returns to f, and its caller moves on to q.
LEMMA ProceedsBehind ==
    ASSUME NEW n \in Nat, NEW s, NEW f, NEW q, Calls(s, n), Len(s) > 1, f = Front(s),
           Calls(q, n), Proceeds(f, q), Len(q) = Len(f), Top(s).pos <= Top(q).pos
    PROVE  Proceeds(s, q)
<1> DEFINE m == Len(s)
           l == Len(q)
<1>1. /\ IsSeq(s) /\ m \in Nat /\ m > 1 /\ l = m - 1
      /\ \A i \in 1..l : f[i] = s[i]
  <2>1. IsSeq(s) /\ m \in Nat /\ m > 1
    BY TopFacts DEF Calls
  <2>2. Len(f) = m - 1 /\ \A i \in 1..Len(f) : f[i] = s[i]
    BY <2>1, FrontSeq
  <2> QED BY <2>1, <2>2
<1>2. \A i \in 1..l : i <= l => Continues(f[i], q[i])
  BY DEF Proceeds
<1> HIDE DEF m, l
<1>3. l \in (m - 1)..(m + 1)
  BY <1>1
<1>4. ASSUME NEW i \in 1..m, i <= l
      PROVE  Continues(s[i], q[i])
  <2>1. i \in 1..l /\ i <= l
    BY <1>1, <1>4
  <2> QED BY <1>1, <1>2, <2>1
<1> QED BY <1>3, <1>4 DEF Proceeds, m, l

\* No call changes.
LEMMA ProceedsNowhere ==
    ASSUME NEW n \in Nat, NEW s, Calls(s, n)
    PROVE  Proceeds(s, s)
<1> DEFINE m == Len(s)
<1>1. m \in Nat /\ Top(s).pos \in Nat /\ \A i \in 1..m : CallOK(s[i])
  BY TopFacts DEF Calls
<1> HIDE DEF m
<1>2. m \in (m - 1)..(m + 1) /\ Top(s).pos <= Top(s).pos
  BY <1>1
<1>3. \A i \in 1..m : Continues(s[i], s[i])
  BY <1>1, ContinuesItself
<1> QED BY <1>2, <1>3 DEF Proceeds, m

\* What the invariant says of a run
LEMMA CallsNest ==
    ASSUME MaxDepth \in Nat, NEW n \in Nat, NEW s, Calls(s, n)
    PROVE  Nests(s, n)
<1> DEFINE m == Len(s)
<1>1. m \in Nat /\ m <= Above(Top(s)) /\ CallOK(Top(s))
  BY TopFacts
<1>2. /\ \A i \in 1..m : Inside(s[i], n)
      /\ \A i \in 2..m : Within(s[i], s[i - 1])
  BY DEF Calls
<1> HIDE DEF m
<1>3. Top(s).depth \in 0..MaxDepth
  BY <1>1 DEF CallOK, Fixed
<1>4. m <= 2 * MaxDepth + 1
  BY <1>1, <1>3 DEF Above
<1> QED BY <1>2, <1>4 DEF Nests, m

-----------------------------------------------------------------------------

\* The predecessor relation on natural numbers
Below == {p \in Nat \X Nat : p[1] < p[2]}

\* Every set of natural numbers has a least one.
LEMMA LeastElement ==
    ASSUME NEW S, S \subseteq Nat, S # {}
    PROVE  \E x \in S : \A y \in S : x <= y
<1>1. IsWellFoundedOn(Below, Nat)
  BY NatLessThanWellFounded DEF OpToRel, Below
<1>2. PICK x \in S : \A y \in S : ~(<<y, x>> \in Below)
  BY <1>1, WFMin
<1>3. \A y \in S : x <= y
  <2> TAKE y \in S
  <2>1. x \in Nat /\ y \in Nat /\ ~(<<y, x>> \in Below)
    BY <1>2
  <2>2. ~(y < x)
    BY <2>1 DEF Below
  <2> QED
    BY <2>1, <2>2
<1> QED
  BY <1>3

LEMMA InductionOnNat ==
    ASSUME NEW S, 0 \in S, \A n \in Nat : n \in S => n + 1 \in S
    PROVE  Nat \subseteq S
<1> DEFINE T == Nat \ S
<1>1. SUFFICES ASSUME T # {} PROVE FALSE
  OBVIOUS
<1>2. T \subseteq Nat
  OBVIOUS
<1> HIDE DEF T
<1>3. PICK x \in T : \A y \in T : x <= y
  BY <1>1, <1>2, LeastElement
<1>4. x \in Nat /\ x # 0 /\ x - 1 \in Nat /\ x \notin S
  BY <1>3 DEF T
<1>5. x - 1 \notin T
  BY <1>3, <1>4
<1>6. x - 1 \in S
  BY <1>4, <1>5 DEF T
<1> QED
  BY <1>4, <1>6

\* Elements with distinct numbers have distinct ranks, from 0 on.
EarlierOf(R, f, i) == {j \in R : f[j] < f[i]}

LEMMA NextRank ==
    ASSUME NEW R, IsFiniteSet(R), NEW f \in [R -> Nat],
           \A i, j \in R : i # j => f[i] # f[j],
           NEW i \in R, NEW k \in Nat, Cardinality(EarlierOf(R, f, i)) = k, k + 1 < Cardinality(R)
    PROVE  \E x \in R : Cardinality(EarlierOf(R, f, x)) = k + 1
<1> DEFINE E == EarlierOf(R, f, i)
           D == E \cup {i}
           Later == R \ D
<1>1. E \subseteq R /\ i \notin E /\ D \subseteq R
  BY DEF EarlierOf
<1>2. IsFiniteSet(E) /\ IsFiniteSet(D)
  BY <1>1, FS_Subset
<1>3. Cardinality(D) = k + 1
  BY <1>1, <1>2, FS_AddElement
<1>4. Later # {}
  <2>1. ASSUME Later = {} PROVE D = R
    BY <1>1, <2>1
  <2>2. Cardinality(R) # Cardinality(D)
    <3>1. Cardinality(R) \in Nat
      BY FS_CardinalityType
    <3> HIDE DEF D
    <3> QED BY <1>3, <3>1
  <2> QED BY <2>1, <2>2
<1>5. PICK x \in Later : \A y \in Later : f[x] <= f[y]
  <2> DEFINE N == {f[y] : y \in Later}
  <2>1. N \subseteq Nat /\ N # {}
    BY <1>4
  <2> HIDE DEF N
  <2>2. PICK a \in N : \A b \in N : a <= b
    BY <2>1, LeastElement
  <2> QED BY <2>2 DEF N
<1>6. x \in R /\ EarlierOf(R, f, x) = D
  <2>1. x \in R /\ x # i /\ f[x] \in Nat /\ f[i] \in Nat /\ ~(f[x] < f[i])
    BY <1>5 DEF EarlierOf
  <2>2. f[i] < f[x]
    BY <2>1
  <2>3. ASSUME NEW y \in R, f[y] < f[x] PROVE y \in D
    <3>1. f[y] \in Nat
      OBVIOUS
    <3> QED BY <1>5, <2>1, <2>3, <3>1
  <2>4. ASSUME NEW y \in D PROVE y \in R /\ f[y] < f[x]
    <3>1. CASE y = i
      BY <2>1, <2>2, <3>1
    <3>2. CASE y \in E
      <4>1. y \in R /\ f[y] \in Nat /\ f[y] < f[i]
        BY <3>2 DEF EarlierOf
      <4> QED BY <2>1, <2>2, <4>1
    <3> QED BY <2>4, <3>1, <3>2
  <2> QED BY <2>1, <2>3, <2>4 DEF EarlierOf
<1> QED BY <1>3, <1>6

LEMMA Ranked ==
    ASSUME NEW R, IsFiniteSet(R), NEW f \in [R -> Nat],
           \A i, j \in R : i # j => f[i] # f[j],
           NEW k \in Nat, k < Cardinality(R)
    PROVE  \E i \in R : Cardinality(EarlierOf(R, f, i)) = k
<1> DEFINE Ranks(n) == n < Cardinality(R) => \E i \in R : Cardinality(EarlierOf(R, f, i)) = n
           S == {n \in Nat : Ranks(n)}
<1>1. Cardinality(R) \in Nat
  BY FS_CardinalityType
<1>2. Ranks(0)
  <2> SUFFICES ASSUME 0 < Cardinality(R) PROVE \E i \in R : Cardinality(EarlierOf(R, f, i)) = 0
    OBVIOUS
  <2>1. R # {}
    BY FS_EmptySet, <1>1
  <2> DEFINE N == {f[y] : y \in R}
  <2>2. N \subseteq Nat /\ N # {}
    BY <2>1
  <2> HIDE DEF N
  <2>3. PICK a \in N : \A b \in N : a <= b
    BY <2>2, LeastElement
  <2>4. PICK x \in R : \A y \in R : f[x] <= f[y]
    BY <2>3 DEF N
  <2>5. EarlierOf(R, f, x) = {}
    <3>1. \A y \in R : f[y] \in Nat /\ f[x] \in Nat
      OBVIOUS
    <3> QED BY <2>4, <3>1 DEF EarlierOf
  <2> QED BY <2>5, FS_EmptySet
<1>3. ASSUME NEW n \in Nat, Ranks(n) PROVE Ranks(n + 1)
  <2> SUFFICES ASSUME n + 1 < Cardinality(R)
               PROVE  \E i \in R : Cardinality(EarlierOf(R, f, i)) = n + 1
    OBVIOUS
  <2>1. n < Cardinality(R)
    BY <1>1
  <2>2. PICK i \in R : Cardinality(EarlierOf(R, f, i)) = n
    BY <1>3, <2>1
  <2> QED BY <2>2, NextRank
<1>4. 0 \in S /\ \A n \in Nat : n \in S => n + 1 \in S
  BY <1>2, <1>3
<1> HIDE DEF S
<1>5. k \in S
  BY <1>4, InductionOnNat
<1> QED BY <1>5 DEF S

-----------------------------------------------------------------------------

\* What the decoders assume of the fields of a type
Declared(t) ==
    /\ \E S : Fields[t] \in Seq(S)
    /\ \A i \in 1..Len(Fields[t]) : Fields[t][i].tag \in Nat
    /\ Kind[t] = "set" => \A i, j \in 1..Len(Fields[t]) : i # j => Fields[t][i].tag # Fields[t][j].tag

LEMMA FieldsFinite ==
    ASSUME NEW t, Declared(t)
    PROVE  /\ Len(Fields[t]) \in Nat
           /\ IsFiniteSet(RootFields(t)) /\ Cardinality(RootFields(t)) \in Nat
           /\ IsFiniteSet(OptFields(t)) /\ Cardinality(OptFields(t)) \in Nat
<1>1. Len(Fields[t]) \in Nat
  BY DEF Declared
<1>2. IsFiniteSet(1..Len(Fields[t]))
  BY <1>1, FS_Interval
<1>3. IsFiniteSet(RootFields(t)) /\ IsFiniteSet(OptFields(t))
  <2>1. RootFields(t) \subseteq 1..Len(Fields[t]) /\ OptFields(t) \subseteq RootFields(t)
    BY DEF RootFields, OptFields
  <2> QED BY <1>2, <2>1, FS_Subset
<1> QED BY <1>1, <1>3, FS_CardinalityType

\* The fields of a SEQUENCE and of a SET are decoded each at a place there is.
LEMMA OrderType ==
    ASSUME NEW t, Declared(t)
    PROVE  /\ IsSeq(DecodeOrder(t))
           /\ \A k \in 1..Len(DecodeOrder(t)) : DecodeOrder(t)[k] \in 1..Len(Fields[t])
<1> DEFINE n == Len(Fields[t])
           R == RootFields(t)
<1>1. n \in Nat /\ IsFiniteSet(R) /\ Cardinality(R) \in Nat
  BY FieldsFinite
<1>2. CASE Kind[t] # "set"
  <2>1. DecodeOrder(t) = [i \in 1..n |-> i]
    BY <1>2 DEF DecodeOrder
  <2>2. DecodeOrder(t) \in Seq(1..n) /\ Len(DecodeOrder(t)) = n
    BY <1>1, <2>1
  <2>3. \A k \in 1..Len(DecodeOrder(t)) : DecodeOrder(t)[k] \in 1..n
    BY <2>2
  <2> QED BY <2>2, <2>3 DEF IsSeq
<1>3. CASE Kind[t] = "set"
  <2> DEFINE f == [i \in R |-> Fields[t][i].tag]
             Pick(k) == CHOOSE i \in R : Cardinality({j \in R : Fields[t][j].tag < Fields[t][i].tag}) = k - 1
  <2>1. R \subseteq 1..n
    BY DEF RootFields
  <2>2. f \in [R -> Nat] /\ \A i, j \in R : i # j => f[i] # f[j]
    BY <1>3, <2>1 DEF Declared
  <2>3. ASSUME NEW k \in 1..Cardinality(R) PROVE Pick(k) \in R
    <3>1. k - 1 \in Nat /\ k - 1 < Cardinality(R)
      BY <1>1
    <3> HIDE DEF f
    <3>2. PICK i \in R : Cardinality(EarlierOf(R, f, i)) = k - 1
      BY <1>1, <2>2, <3>1, Ranked
    <3> USE DEF f
    <3>3. EarlierOf(R, f, i) = {j \in R : Fields[t][j].tag < Fields[t][i].tag}
      BY DEF EarlierOf
    <3> QED BY <3>2, <3>3
  <2>4. DecodeOrder(t) = [k \in 1..Cardinality(R) |-> Pick(k)]
    BY <1>3 DEF DecodeOrder, TagOrder
  <2> HIDE DEF Pick, R
  <2>5. DecodeOrder(t) \in Seq(R) /\ Len(DecodeOrder(t)) = Cardinality(R)
    BY <1>1, <2>3, <2>4
  <2>6. ASSUME NEW k \in 1..Len(DecodeOrder(t)) PROVE DecodeOrder(t)[k] \in 1..n
    <3>1. k \in 1..Cardinality(R)
      BY <2>5
    <3> QED BY <2>1, <2>3, <2>4, <3>1
  <2> QED BY <2>5, <2>6 DEF IsSeq
<1> QED BY <1>2, <1>3

-----------------------------------------------------------------------------

\* d is a new call
NewCall(d, call, t, pos, end, depth, own) ==
    /\ DOMAIN d = CallField
    /\ d.call = call /\ d.type = t /\ d.pos = pos /\ d.end = end /\ d.depth = depth /\ d.own = own
    /\ IsSeq(d.got)

LEMMA NothingYet ==
    ASSUME NEW g, g = << >>
    PROVE  IsSeq(g)
BY EmptySeq DEF IsSeq

LEMMA OneMore ==
    ASSUME NEW g, IsSeq(g), NEW x, NEW h, h = Append(g, x)
    PROVE  IsSeq(h) /\ Retains(g, h)
<1>1. /\ IsSeq(h) /\ Len(g) \in Nat /\ Len(h) = Len(g) + 1
      /\ \A j \in 1..Len(g) : h[j] = g[j]
  <2>1. h = Pushed(g, x)
    BY DEF Pushed
  <2> QED BY <2>1, PushedSeq
<1>2. Len(g) <= Len(h)
  BY <1>1
<1> QED BY <1>1, <1>2 DEF Retains

LEMMA CallOfFacts ==
    ASSUME NEW call, NEW t, NEW pos, NEW end, NEW depth, NEW own
    PROVE  NewCall(CallOf(call, t, pos, end, depth, own), call, t, pos, end, depth, own)
<1> DEFINE d == CallOf(call, t, pos, end, depth, own)
<1>1. /\ DOMAIN d = CallField
      /\ d.call = call /\ d.type = t /\ d.pos = pos /\ d.end = end /\ d.depth = depth /\ d.own = own
      /\ d.got = << >>
  BY DEF CallOf, CallField
<1> HIDE DEF d
<1>2. IsSeq(d.got)
  <2> DEFINE g == d.got
  <2>1. g = << >>
    BY <1>1
  <2> HIDE DEF g
  <2>2. IsSeq(g)
    BY <2>1, NothingYet
  <2> QED BY <2>2 DEF g
<1>3. NewCall(d, call, t, pos, end, depth, own)
  BY <1>1, <1>2 DEF NewCall
<1> QED BY <1>3 DEF d

\* What is filled in when a call begins
Filled(c, x, y, z) == [c EXCEPT !.present = x, !.extensions = y, !.order = z]
Counted(c, x) == [c EXCEPT !.left = x]
Chosen(c, x) == [c EXCEPT !.alt = x]

LEMMA NewFilled ==
    ASSUME NEW call, NEW t, NEW pos, NEW end, NEW depth, NEW own, NEW x, NEW y, NEW z, NEW d,
           d = Filled(CallOf(call, t, pos, end, depth, own), x, y, z)
    PROVE  NewCall(d, call, t, pos, end, depth, own) /\ d.order = z
<1> DEFINE c == CallOf(call, t, pos, end, depth, own)
<1>1. NewCall(c, call, t, pos, end, depth, own) /\ d = Filled(c, x, y, z)
  BY CallOfFacts
<1> HIDE DEF c
<1> QED BY <1>1 DEF NewCall, CallField, Filled

LEMMA NewCounted ==
    ASSUME NEW call, NEW t, NEW pos, NEW end, NEW depth, NEW own, NEW x, NEW d,
           d = Counted(CallOf(call, t, pos, end, depth, own), x)
    PROVE  NewCall(d, call, t, pos, end, depth, own)
<1> DEFINE c == CallOf(call, t, pos, end, depth, own)
<1>1. NewCall(c, call, t, pos, end, depth, own) /\ d = Counted(c, x)
  BY CallOfFacts
<1> HIDE DEF c
<1> QED BY <1>1 DEF NewCall, CallField, Counted

LEMMA NewChosen ==
    ASSUME NEW call, NEW t, NEW pos, NEW end, NEW depth, NEW own, NEW x, NEW d,
           d = Chosen(CallOf(call, t, pos, end, depth, own), x)
    PROVE  NewCall(d, call, t, pos, end, depth, own)
<1> DEFINE c == CallOf(call, t, pos, end, depth, own)
<1>1. NewCall(c, call, t, pos, end, depth, own) /\ d = Chosen(c, x)
  BY CallOfFacts
<1> HIDE DEF c
<1> QED BY <1>1 DEF NewCall, CallField, Chosen

\* A constructed value is begun on the rest of the caller's slice.
LEMMA BeginsOnRest ==
    ASSUME MaxDepth \in Nat, NEW n \in Nat, NEW s, Calls(s, n), ~Exceeds(Top(s).depth),
           NEW d, NEW call \in CallName \ {"root", "addition"}, NEW t \in Type, NEW pos \in Nat,
           NewCall(d, call, t, pos, Top(s).end, Top(s).depth - 1, FALSE),
           call \in Constructed => d.order = DecodeOrder(t) /\ Declared(t),
           call = "list" => Kind[t] = "list",
           Top(s).pos <= pos, pos <= Top(s).end + 1
    PROVE  Calls(Pushed(s, d), n) /\ Proceeds(s, Pushed(s, d))
<1> DEFINE c == Top(s)
<1>1. CallOK(c) /\ c.pos \in Nat /\ c.pos >= 1 /\ c.end \in Nat
  BY TopFacts
<1> HIDE DEF c
<1>2. /\ DOMAIN d = CallField /\ d.call = call /\ d.type = t /\ d.pos = pos
      /\ d.end = c.end /\ d.depth = c.depth - 1 /\ d.own = FALSE /\ IsSeq(d.got)
  BY DEF NewCall, c
<1>3. d.depth \in 0..MaxDepth
  BY <1>1, <1>2 DEF CallOK, Fixed, Exceeds, c
<1>4. call \in Constructed =>
         IsSeq(d.order) /\ \A k \in 1..Len(d.order) : d.order[k] \in 1..Len(Fields[t])
  BY OrderType
<1>5. CallOK(d)
  <2>1. d.call \in CallName /\ d.type \in Type /\ d.end \in Nat /\ d.own \in BOOLEAN /\ d.pos \in Nat
    BY <1>1, <1>2
  <2> QED BY <1>2, <1>3, <1>4, <2>1 DEF CallOK, Fixed
<1>6. Within(d, c) /\ 1 <= d.pos /\ d.pos <= d.end + 1
  BY <1>1, <1>2 DEF Within, c
<1>7. Begun(c, d)
  BY <1>2, <1>5, <1>6 DEF Begun
<1> DEFINE r == Pushed(s, d)
<1>8. Calls(r, n) /\ GoOn(s, r) /\ Top(r) = d
  BY <1>7, Begins DEF c
<1>9. Top(s).pos <= d.pos
  BY <1>2
<1> HIDE DEF r
<1>10. Proceeds(s, r)
  BY <1>8, <1>9 DEF Proceeds, GoOn
<1> QED BY <1>8, <1>10 DEF r

\* What was cut out is given to a call of its own, and the caller goes on behind it.
Moved(c, p) == [c EXCEPT !.pos = p]
CutOut(c, call, from, to, depth) ==
    /\ call = "addition" => c.call \in Constructed /\ depth = c.depth
    /\ call = "choice" => ~Exceeds(c.depth) /\ depth = c.depth - 1
    /\ c.pos < from /\ from <= to + 1 /\ to <= c.end

LEMMA BeginsOnOwn ==
    ASSUME MaxDepth \in Nat, NEW n \in Nat, NEW s, Calls(s, n),
           NEW d, NEW call \in {"addition", "choice"}, NEW t \in Type, NEW depth,
           NEW from \in Nat, NEW to \in Int,
           NEW own, own = TRUE, NewCall(d, call, t, from, to, depth, own),
           CutOut(Top(s), call, from, to, depth),
           NEW b, b = Moved(Top(s), to + 1)
    PROVE  Calls(Pushed(Replaced(s, b), d), n) /\ Proceeds(s, Pushed(Replaced(s, b), d))
<1> DEFINE c == Top(s)
<1>10. /\ depth = IF call = "addition" THEN c.depth ELSE c.depth - 1
       /\ call = "addition" => c.call \in Constructed
       /\ call = "choice" => ~Exceeds(c.depth)
       /\ c.pos < from /\ from <= to + 1 /\ to <= c.end
  BY DEF CutOut
<1>1. CallOK(c) /\ c.pos \in Nat /\ c.pos >= 1 /\ c.end \in Nat
  BY TopFacts
<1> HIDE DEF c
<1>2. Onwards(c, b) /\ b.pos = to + 1
  <2>1. DOMAIN c = CallField /\ IsSeq(c.got)
    BY <1>1 DEF CallOK, Fixed
  <2>2. Same(c, b) /\ b.pos = to + 1 /\ b.got = c.got
    BY <2>1 DEF Same, CallField, Moved, c
  <2>3. b.end = c.end
    BY <2>2 DEF Same
  <2> DEFINE g == c.got
             h == b.got
  <2>4. Retains(h, h) /\ g = h
    <3>1. IsSeq(h) /\ g = h
      BY <2>1, <2>2
    <3> HIDE DEF g, h
    <3> QED BY <3>1, RetainsItself
  <2> HIDE DEF g, h
  <2>5. Retains(g, h)
    BY <2>4
  <2> QED BY <1>1, <1>10, <2>1, <2>2, <2>3, <2>5 DEF Onwards, g, h
<1> DEFINE r == Replaced(s, b)
           q == Pushed(r, d)
<1>3. Calls(r, n) /\ Top(r) = b /\ Len(r) = Len(s) /\ GoOn(s, r)
  BY <1>2, MovesOn DEF c
<1> HIDE DEF r
<1>4. /\ DOMAIN d = CallField /\ d.call = call /\ d.type = t /\ d.pos = from
      /\ d.end = to /\ d.depth = depth /\ d.own = TRUE /\ IsSeq(d.got)
  BY DEF NewCall
<1>5. b.depth = c.depth /\ b.end = c.end /\ b.call = c.call
  BY <1>2 DEF Onwards, Same
<1>6. d.depth \in 0..MaxDepth
  BY <1>1, <1>4, <1>10 DEF CallOK, Fixed, Exceeds
<1>7. CallOK(d)
  <2>1. /\ d.call \in CallName /\ d.call \notin Constructed /\ d.call # "list"
        /\ d.type \in Type /\ d.own \in BOOLEAN /\ d.pos \in Nat
    BY <1>4 DEF CallName, Constructed
  <2>2. d.end \in Nat
    BY <1>1, <1>4, <1>10
  <2> QED BY <1>4, <1>6, <2>1, <2>2 DEF CallOK, Fixed
<1>8. Within(d, b) /\ 1 <= d.pos /\ d.pos <= d.end + 1 /\ d.end <= b.end
  BY <1>1, <1>2, <1>4, <1>5, <1>10 DEF Within
<1>9. Begun(b, d)
  BY <1>4, <1>5, <1>7, <1>8, <1>10 DEF Begun
<1>11. Calls(q, n) /\ GoOn(r, q) /\ Top(q) = d
  BY <1>3, <1>9, Begins
<1> HIDE DEF q
<1>12. GoOn(s, q)
  BY <1>3, <1>11, GoOnTwice
<1>13. Top(s).pos <= d.pos
  BY <1>1, <1>4, <1>10 DEF c
<1>14. Proceeds(s, q)
  BY <1>11, <1>12, <1>13 DEF Proceeds, GoOn
<1> QED BY <1>11, <1>14 DEF q, r

\* A value is handed to the innermost call, which goes on from pos or from where it was.
Received(c, v, own, pos) == [c EXCEPT !.got = Append(@, v), !.pos = IF own THEN @ ELSE pos]

LEMMA Receives ==
    ASSUME NEW n \in Nat, NEW s, Calls(s, n), NEW v, NEW own \in BOOLEAN, NEW pos,
           ~own => pos \in Nat /\ Top(s).pos <= pos /\ pos <= Top(s).end + 1,
           NEW d, d = Received(Top(s), v, own, pos)
    PROVE  /\ Calls(Replaced(s, d), n) /\ Proceeds(s, Replaced(s, d))
           /\ Len(Replaced(s, d)) = Len(s) /\ Top(Replaced(s, d)) = d
<1> DEFINE c == Top(s)
<1>1. CallOK(c) /\ c.pos \in Nat /\ c.pos <= c.end + 1
  BY TopFacts
<1> HIDE DEF c
<1>2. DOMAIN c = CallField /\ IsSeq(c.got)
  BY <1>1 DEF CallOK, Fixed
<1>3. Same(c, d) /\ d.pos = (IF own THEN c.pos ELSE pos) /\ d.got = Append(c.got, v)
  BY <1>2 DEF Same, CallField, Received, c
<1>4. IsSeq(d.got) /\ Retains(c.got, d.got)
  <2> DEFINE g == c.got
             h == d.got
  <2>1. IsSeq(g) /\ h = Append(g, v)
    BY <1>2, <1>3
  <2> HIDE DEF g, h
  <2>2. IsSeq(h) /\ Retains(g, h)
    BY <2>1, OneMore
  <2> QED BY <2>2 DEF g, h
<1>5. d.end = c.end
  BY <1>3 DEF Same
<1>6. Onwards(c, d)
  BY <1>1, <1>3, <1>4, <1>5 DEF Onwards, c
<1> QED BY <1>6, MovesOn DEF c

\* Nothing is there for a field.
LEMMA Skips ==
    ASSUME NEW n \in Nat, NEW s, Calls(s, n), NEW v, NEW d, d = [Top(s) EXCEPT !.got = Append(@, v)]
    PROVE  Calls(Replaced(s, d), n) /\ Proceeds(s, Replaced(s, d))
<1> DEFINE c == Top(s)
<1>1. CallOK(c) /\ c.pos \in Nat /\ c.pos <= c.end + 1
  BY TopFacts
<1> HIDE DEF c
<1>2. DOMAIN c = CallField /\ IsSeq(c.got)
  BY <1>1 DEF CallOK, Fixed
<1>3. Same(c, d) /\ d.pos = c.pos /\ d.got = Append(c.got, v)
  BY <1>2 DEF Same, CallField, c
<1>4. IsSeq(d.got) /\ Retains(c.got, d.got)
  <2> DEFINE g == c.got
             h == d.got
  <2>1. IsSeq(g) /\ h = Append(g, v)
    BY <1>2, <1>3
  <2> HIDE DEF g, h
  <2>2. IsSeq(h) /\ Retains(g, h)
    BY <2>1, OneMore
  <2> QED BY <2>2 DEF g, h
<1>5. d.end = c.end
  BY <1>3 DEF Same
<1>6. Onwards(c, d)
  BY <1>1, <1>3, <1>4, <1>5 DEF Onwards
<1> QED BY <1>6, MovesOn DEF c

\* The header of the additions is read.
LEMMA ReadsOn ==
    ASSUME NEW n \in Nat, NEW s, Calls(s, n), NEW pos \in Nat, NEW x, NEW y,
           Top(s).pos <= pos, pos <= Top(s).end + 1,
           NEW d, d = [Top(s) EXCEPT !.extensions = x, !.pos = pos, !.additions = y]
    PROVE  Calls(Replaced(s, d), n) /\ Proceeds(s, Replaced(s, d))
<1> DEFINE c == Top(s)
<1>1. CallOK(c) /\ c.pos \in Nat
  BY TopFacts
<1> HIDE DEF c
<1>2. DOMAIN c = CallField /\ IsSeq(c.got)
  BY <1>1 DEF CallOK, Fixed
<1>3. Same(c, d) /\ d.pos = pos /\ d.got = c.got
  BY <1>2 DEF Same, CallField, c
<1>4. d.end = c.end
  BY <1>3 DEF Same
<1>6. Retains(c.got, d.got)
  <2> DEFINE g == c.got
  <2>1. IsSeq(g)
    BY <1>2
  <2> HIDE DEF g
  <2>2. Retains(g, g)
    BY <2>1, RetainsItself
  <2> QED BY <1>3, <2>2 DEF g
<1>5. Onwards(c, d)
  BY <1>1, <1>2, <1>3, <1>4, <1>6 DEF Onwards, c
<1> QED BY <1>5, MovesOn DEF c

\* decode() is called.
LEMMA Starts ==
    ASSUME MaxDepth \in Nat, NEW n \in Nat, NEW t \in Type
    PROVE  Calls(Outermost(t, n), n)
<1> DEFINE s == Outermost(t, n)
           c == CallOf("root", t, 1, n, MaxDepth, FALSE)
<1>1. NewCall(c, "root", t, 1, n, MaxDepth, FALSE)
  BY CallOfFacts
<1>2. s = <<c>>
  BY DEF Outermost
<1> HIDE DEF s, c
<1>3. s \in Seq({c}) /\ Len(s) = 1 /\ s[1] = c
  BY <1>2
<1>4. IsSeq(s)
  BY <1>3 DEF IsSeq
<1>5. CallOK(c) /\ c.call = "root" /\ 1 <= Above(c) /\ Inside(c, n)
  <2>1. /\ DOMAIN c = CallField /\ c.call = "root" /\ c.type = t /\ c.pos = 1 /\ c.end = n
        /\ c.depth = MaxDepth /\ c.own = FALSE /\ IsSeq(c.got)
    BY <1>1 DEF NewCall
  <2>2. /\ c.call \in CallName /\ c.call \notin Constructed /\ c.call # "list"
        /\ c.depth \in 0..MaxDepth /\ c.own \in BOOLEAN
    <3>1. c.call \in CallName /\ c.call \notin Constructed /\ c.call # "list"
      BY <2>1 DEF CallName, Constructed
    <3>2. c.depth \in 0..MaxDepth
      BY <2>1
    <3>3. c.own \in BOOLEAN
      BY <2>1
    <3> QED BY <3>1, <3>2, <3>3
  <2>3. CallOK(c)
    BY <2>1, <2>2 DEF CallOK, Fixed
  <2>4. Above(c) = 1
    BY <2>1 DEF Above
  <2>5. Inside(c, n)
    BY <2>1 DEF Inside
  <2> QED BY <2>1, <2>3, <2>4, <2>5
<1> QED BY <1>3, <1>4, <1>5 DEF Calls, s
=============================================================================
