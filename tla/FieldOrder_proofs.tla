-------------------------- MODULE FieldOrder_proofs --------------------------
(***************************************************************************)
(* canonical_sort orders any list of fields: SortInv is inductive.         *)
(***************************************************************************)
EXTENDS FieldOrder, TLAPS

\* const_cmp is a total order on tags.
LEMMA GreaterOrder ==
    ASSUME NEW a \in Tag, NEW b \in Tag, NEW c \in Tag
    PROVE  /\ ~Greater(a, a)
           /\ Greater(a, b) => ~Greater(b, a)
           /\ ~Greater(a, b) /\ ~Greater(b, c) => ~Greater(a, c)
BY DEF Tag, Greater

\* One comparison exchanges two fields or none: the list keeps its fields.
LEMMA ComparePermutes == TypeOK /\ Permuted /\ Compare => Permuted'
<1> SUFFICES ASSUME TypeOK, Permuted, Compare PROVE Permuted'
    OBVIOUS
<1> DEFINE n == Len(fields)
<1>1. /\ fields \in [1..n -> Field] /\ n \in Nat
      /\ i \in 1..n /\ j \in 1..n /\ i < j
      /\ Len(declared) = n
    BY DEF TypeOK, Compare
<1>2. CASE fields' = fields
    BY <1>2 DEF Permuted, Compare, Distinct
<1>3. CASE fields' = Exchange
    <2>1. /\ Len(fields') = n
          /\ fields'[i] = fields[j] /\ fields'[j] = fields[i]
          /\ \A k \in 1..n : k # i /\ k # j => fields'[k] = fields[k]
        BY <1>1, <1>3 DEF Exchange, TypeOK
    <2> DEFINE Back(k) == IF k = i THEN j ELSE IF k = j THEN i ELSE k
    <2>2. \A k \in 1..n : Back(k) \in 1..n /\ fields'[k] = fields[Back(k)]
                            /\ fields[k] = fields'[Back(k)]
        BY <1>1, <2>1
    <2>3. \A k, m \in 1..n : Back(k) = Back(m) => k = m
        BY <1>1
    <2> HIDE DEF Back
    <2>4. Distinct(fields')
        <3>1. \A a, b \in 1..n : fields[a] = fields[b] => a = b
            BY DEF Permuted, Distinct
        <3>2. SUFFICES ASSUME NEW a \in 1..n, NEW b \in 1..n, fields'[a] = fields'[b] PROVE a = b
            BY <2>1 DEF Distinct
        <3> QED BY <2>2, <2>3, <3>1, <3>2
    <2>5. declared' = declared
        BY DEF Compare
    <2>6. ASSUME NEW a \in 1..Len(declared) PROVE \E b \in 1..n : fields'[b] = declared[a]
        <3>1. PICK k \in 1..n : fields[k] = declared[a]
            BY DEF Permuted
        <3>2. Back(k) \in 1..n /\ fields'[Back(k)] = declared[a]
            BY <2>2, <3>1
        <3> QED BY <3>2
    <2>7. ASSUME NEW b \in 1..n PROVE \E a \in 1..Len(declared) : fields'[b] = declared[a]
        <3>1. Back(b) \in 1..n /\ fields'[b] = fields[Back(b)]
            BY <2>2
        <3> QED BY <3>1 DEF Permuted
    <2> QED BY <2>1, <2>4, <2>5, <2>6, <2>7 DEF Permuted
<1> QED BY <1>2, <1>3 DEF Compare

\* The invariant holds at the first comparison.
LEMMA SortInit == Init => SortInv
BY FieldAssumption DEF Init, SortInv, TypeOK, Permuted, Distinct, Ordered

\* Every comparison keeps the types.
LEMMA CompareTypes == TypeOK /\ Compare => TypeOK'
BY DEF TypeOK, Compare, Exchange

\* A comparison leaves the fields in front of i in place and puts the smaller
\* of the two fields at i.
LEMMA CompareSorts == SortInv /\ Compare => SortInv'
<1> SUFFICES ASSUME SortInv, Compare PROVE SortInv'
    OBVIOUS
<1> DEFINE n == Len(fields)
<1>1. /\ fields \in [1..n -> Field] /\ n \in Nat
      /\ i \in 1..n /\ j \in 1..n /\ i < j
    BY DEF SortInv, TypeOK, Compare
<1>2. TypeOK' /\ Permuted'
    BY CompareTypes, ComparePermutes DEF SortInv
<1>3. Len(fields') = n /\ i' = i /\ j' = j + 1
    BY <1>1 DEF Compare, Exchange, SortInv, TypeOK
<1>4. \A k \in 1..n : TagOf(fields[k]) \in Tag
    BY <1>1, FieldAssumption
<1> DEFINE t(k) == TagOf(fields[k])
           u(k) == TagOf(fields'[k])
<1>5. /\ \A a, b \in 1..n : a < i /\ a < b => ~Greater(t(a), t(b))
      /\ \A b \in 1..n : i < b /\ b < j => ~Greater(t(i), t(b))
    BY DEF SortInv, Ordered
<1>6. CASE fields' = fields /\ ~Greater(t(i), t(j))
    <2>1. \A a, b \in 1..n : a < i /\ a < b => ~Greater(u(a), u(b))
        BY <1>5, <1>6
    <2>2. ASSUME NEW b \in 1..n, i < b, b < j + 1 PROVE ~Greater(u(i), u(b))
        <3>1. CASE b = j
            BY <1>6, <3>1
        <3>2. CASE b < j
            BY <1>5, <1>6, <2>2, <3>2
        <3> QED BY <1>1, <2>2, <3>1, <3>2
    <2> QED BY <1>1, <1>2, <1>3, <2>1, <2>2 DEF SortInv, Ordered
<1>7. CASE fields' = Exchange /\ Greater(t(i), t(j))
    <2>1. /\ u(i) = t(j) /\ u(j) = t(i)
          /\ \A k \in 1..n : k # i /\ k # j => u(k) = t(k)
        BY <1>1, <1>7 DEF Exchange
    <2> HIDE DEF t, u
    <2>2. ASSUME NEW a \in 1..n, NEW b \in 1..n, a < i, a < b PROVE ~Greater(u(a), u(b))
        <3>1. u(a) = t(a)
            BY <1>1, <2>1, <2>2
        <3>2. u(b) \in {t(b), t(i), t(j)} /\ (u(b) = t(b) \/ b \in {i, j})
            BY <1>1, <2>1
        <3>3. ~Greater(t(a), t(b)) /\ ~Greater(t(a), t(i)) /\ ~Greater(t(a), t(j))
            BY <1>1, <1>5, <2>2
        <3> QED BY <3>1, <3>2, <3>3
    <2>3. ASSUME NEW b \in 1..n, i < b, b < j + 1 PROVE ~Greater(u(i), u(b))
        <3>1. /\ t(i) \in Tag /\ t(j) \in Tag /\ t(b) \in Tag
            BY <1>1, <1>4 DEF t
        <3>2. CASE b = j
            BY <2>1, <3>1, <3>2, <1>7, GreaterOrder
        <3>3. CASE b < j
            <4>1. u(b) = t(b) /\ ~Greater(t(i), t(b))
                BY <1>1, <1>5, <2>1, <2>3, <3>3
            <4>2. ~Greater(t(j), t(i))
                BY <1>7, <3>1, GreaterOrder
            <4> QED BY <2>1, <3>1, <4>1, <4>2, GreaterOrder
        <3> QED BY <1>1, <2>3, <3>2, <3>3
    <2> QED BY <1>1, <1>2, <1>3, <2>2, <2>3 DEF SortInv, Ordered, u
<1> QED BY <1>6, <1>7 DEF Compare

\* At the end of the inner loop the field at i is in place.
LEMMA AdvanceSorts == SortInv /\ Advance => SortInv'
<1> SUFFICES ASSUME SortInv, Advance PROVE SortInv'
    OBVIOUS
<1>1. TypeOK'
    BY DEF SortInv, TypeOK, Advance
<1>2. Permuted'
    BY DEF SortInv, Permuted, Distinct, Advance
<1>3. ASSUME NEW a \in 1..Len(fields), NEW b \in 1..Len(fields), a < i + 1, a < b
      PROVE  Ordered(a, b)
    <2>1. CASE a < i
        BY <1>3, <2>1 DEF SortInv
    <2>2. CASE a = i
        BY <1>3, <2>2 DEF SortInv, TypeOK, Advance
    <2> QED BY <1>3, <2>1, <2>2 DEF SortInv, TypeOK
<1> QED BY <1>1, <1>2, <1>3 DEF SortInv, TypeOK, Advance, Ordered

\* SortInv is an invariant of canonical_sort.
THEOREM SortInvariant == Spec => []SortInv
<1>1. SortInv /\ [Next]_vars => SortInv'
    <2> SUFFICES ASSUME SortInv, [Next]_vars PROVE SortInv'
        OBVIOUS
    <2>1. CASE Compare
        BY <2>1, CompareSorts
    <2>2. CASE Advance
        BY <2>2, AdvanceSorts
    <2>3. CASE UNCHANGED vars
        BY <2>3 DEF vars, SortInv, TypeOK, Permuted, Distinct, Ordered
    <2> QED BY <2>1, <2>2, <2>3 DEF Next, Return
<1> QED BY SortInit, <1>1, PTL DEF Spec

\* canonical_sort ends with the fields of any declaration, of whatever length,
\* in the order of their tags.
THEOREM SortsByTag == Spec => []Sorted
<1>1. SortInv => Sorted
    BY DEF SortInv, TypeOK, Sorted, Sorting
<1> QED BY SortInvariant, <1>1, PTL

\* No exchange loses or repeats a field.
THEOREM KeepsFields == Spec => []Permuted
<1>1. SortInv => Permuted
    BY DEF SortInv
<1> QED BY SortInvariant, <1>1, PTL
=============================================================================
