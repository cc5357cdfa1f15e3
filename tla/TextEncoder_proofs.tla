------------------------- MODULE TextEncoder_proofs --------------------------
(***************************************************************************)
(* Proofs about TextEncoder, for every set of types and every value,       *)
(* however deep it nests.                                                  *)
(***************************************************************************)
EXTENDS TextEncoder, TLAPS, WellFoundedInduction

-----------------------------------------------------------------------------
(***************************************************************************)
(* The heights of the stacks.  A frame says where its call found the       *)
(* encoder; the calls nested in it find the encoder above that by the      *)
(* names that are left and by one map.                                     *)
(***************************************************************************)
IsList(f) == KindOf(f.node) = "list"
Left(f) == Len(Child[f.node]) + 1 - f.next

\* The name of a component is on the stack until the component is finished.
Pending(c) == IF c = Absent THEN 0 ELSE 1

\* Where the calls nested in f find their encoder: which one, and the heights
\* of its stacks; b is 1 while a component of f is being encoded.
AtEnc(f) == IF IsList(f) THEN f.enc + 1 ELSE f.enc
AtBase(f, b) == IF IsList(f) THEN 0 ELSE f.base + Left(f) + b
AtMaps(f) == IF IsList(f) THEN 0 ELSE f.maps + 1

FrameOK(f) ==
    /\ KindOf(f.node) # "primitive" /\ f.enc >= 1
    /\ f.next \in 1..(Len(Child[f.node]) + 1)
    /\ KindOf(f.node) = "choice" => f.next = 2 /\ Matches(TypeOf[f.node], TagOf(f.node)) # {}

\* g is the call that f makes for its current component
Calls(f, g) ==
    /\ f.next > 1 /\ g.node = Child[f.node][f.next - 1]
    /\ g.enc = AtEnc(f) /\ g.base = AtBase(f, 1) /\ g.maps = AtMaps(f)

\* What f holds of its encoder is below the heights b and m of encoder e.
Under(f, e, b, m) ==
    \/ f.enc < e
    \/ ~IsList(f) /\ f.enc = e /\ f.base + Left(f) + 1 <= b /\ f.maps + 1 <= m

CallsOK(fr) ==
    /\ \A i \in 1..Len(fr) : FrameOK(fr[i])
    /\ fr # << >> => fr[1].node = root /\ fr[1].enc = 1 /\ fr[1].base = 0 /\ fr[1].maps = 0
    /\ \A i \in 1..(Len(fr) - 1) : Calls(fr[i], fr[i + 1])
    /\ \A i, j \in 1..Len(fr) : i < j => Under(fr[i], fr[j].enc, fr[j].base, fr[j].maps)

\* The encoder e, the k-th, runs for the calls fr; c is being encoded.
Running(fr, e, k, c) ==
    IF fr = << >>
    THEN /\ k = 1 /\ Len(e.stack) = 0 /\ Len(e.constructed_stack) = 0
         /\ IF c = Absent THEN e.root_value = root ELSE c = root
    ELSE LET f == Top(fr)
         IN  /\ k = AtEnc(f) /\ Len(e.stack) = AtBase(f, Pending(c))
             /\ Len(e.constructed_stack) = AtMaps(f)
             /\ c # Absent => f.next > 1 /\ c = Child[f.node][f.next - 1]
             /\ (c = Absent /\ IsList(f) /\ f.next > 1) =>
                    e.root_value = Child[f.node][f.next - 1]

\* The encoder of a list waits as the call found it.
Waiting(fr, es) ==
    \A i \in 1..Len(fr) : IsList(fr[i]) =>
        /\ fr[i].enc < Len(es)
        /\ Len(es[fr[i].enc].stack) = fr[i].base
        /\ Len(es[fr[i].enc].constructed_stack) = fr[i].maps

Heights(fr, es, c) == CallsOK(fr) /\ Running(fr, Top(es), Len(es), c) /\ Waiting(fr, es)

StackInv ==
    /\ TypeOK
    /\ Heights(frames, encoders, cur)
    /\ res \in {"run", "ok", "variant"}
    /\ res = "ok" => frames = << >> /\ cur = Absent

-----------------------------------------------------------------------------
(***************************************************************************)
(* What the stacks hold: of every call under way the names that are left,  *)
(* last name first, and the map of the components that are finished.       *)
(***************************************************************************)
Given(n) == IF KindOf(n) = "choice" THEN <<Identifier(TypeOf[n], TagOf(n))>> ELSE NamesOf(n)
Filled(n, d) ==
    [nm \in Name |-> IF \E j \in 1..d : Given(n)[j] = nm
                     THEN Child[n][CHOOSE j \in 1..d : Given(n)[j] = nm] ELSE Absent]

HoldsNames(f, e, b) ==
    \A k \in 1..(Left(f) + b) : e.stack[f.base + k] = Given(f.node)[Len(Child[f.node]) + 1 - k]
HoldsMap(f, e, b) == e.constructed_stack[f.maps + 1] = Filled(f.node, f.next - 1 - b)
HoldsItems(f) ==
    /\ Len(f.items) = IF f.next = 1 THEN 0 ELSE f.next - 2
    /\ \A j \in 1..Len(f.items) : f.items[j] = Child[f.node][j]

Holds(f, es, b, made) ==
    /\ ~IsList(f) => HoldsNames(f, es[f.enc], b) /\ HoldsMap(f, es[f.enc], b)
    /\ IsList(f) => HoldsItems(f)
    /\ KindOf(f.node) = "choice" => Given(f.node)[1] \in Name
    /\ \A j \in 1..(f.next - 1 - b) : Child[f.node][j] \in made \cup {Absent}

Contents(fr, es, c, made) ==
    \A i \in 1..Len(fr) : Holds(fr[i], es, IF i < Len(fr) THEN 1 ELSE Pending(c), made)

ContentInv ==
    /\ Contents(frames, encoders, cur, DOMAIN doc)
    /\ (frames = << >> /\ cur = Absent) => root \in DOMAIN doc
    /\ EncodesFaithfully
-----------------------------------------------------------------------------
(***************************************************************************)
(* Facts about values, sequences and encoders.                             *)
(***************************************************************************)
\* What the assumptions say of a value
LEMMA NodeFacts ==
    ASSUME NEW n \in Node
    PROVE  /\ TypeOf[n] \in Type /\ KindOf(n) \in TypeKind
           /\ NamesOf(n) \in Seq(Name)
           /\ Child[n] \in Seq(Node \cup {Absent}) /\ Len(Child[n]) \in Nat
           /\ KindOf(n) = "primitive" => Child[n] = << >>
           /\ KindOf(n) = "list" => \A i \in 1..Len(Child[n]) : Child[n][i] \in Node
           /\ KindOf(n) = "choice" => /\ Len(Child[n]) = 1 /\ Child[n][1] \in Node
                                      /\ Alt[n] \in 1..Len(Variants[TypeOf[n]])
           /\ KindOf(n) \in Constructed => Len(Child[n]) = Len(NamesOf(n))
<1>1. TypeOf[n] \in Type /\ Child[n] \in Seq(Node \cup {Absent})
  BY NodesAssumption
<1>2. KindOf(n) \in TypeKind /\ NamesOf(n) \in Seq(Name)
  BY <1>1, TypesAssumption DEF KindOf, NamesOf
<1>3. (CASE Kind[TypeOf[n]] = "primitive" -> Child[n] = << >>
        [] Kind[TypeOf[n]] = "list" -> \A i \in 1..Len(Child[n]) : Child[n][i] \in Node
        [] Kind[TypeOf[n]] = "choice" -> /\ Len(Child[n]) = 1
                                         /\ Child[n][1] \in Node
                                         /\ Alt[n] \in 1..Len(Variants[TypeOf[n]])
        [] OTHER -> Len(Child[n]) = Len(Names[TypeOf[n]]))
  BY NodesAssumption
<1>4. Len(Child[n]) \in Nat
  BY <1>1
<1>5. /\ KindOf(n) = "primitive" => Child[n] = << >>
      /\ KindOf(n) = "list" => \A i \in 1..Len(Child[n]) : Child[n][i] \in Node
      /\ KindOf(n) = "choice" => /\ Len(Child[n]) = 1 /\ Child[n][1] \in Node
                                 /\ Alt[n] \in 1..Len(Variants[TypeOf[n]])
      /\ KindOf(n) \in Constructed => Len(Child[n]) = Len(NamesOf(n))
  BY <1>3 DEF KindOf, NamesOf, Constructed
<1> QED
  BY <1>1, <1>2, <1>4, <1>5

LEMMA FrameFacts ==
    ASSUME NEW f \in Frame
    PROVE  /\ f.node \in Node /\ f.next \in Nat /\ f.items \in Seq(Node)
           /\ f.enc \in Nat /\ f.base \in Nat /\ f.maps \in Nat
BY DEF Frame

LEMMA EncoderFacts ==
    ASSUME NEW e \in Encoder
    PROVE  /\ e.stack \in Seq(Name) /\ e.constructed_stack \in Seq(Map)
           /\ e.root_value \in Node \cup {Absent}
           /\ Len(e.stack) \in Nat /\ Len(e.constructed_stack) \in Nat
BY DEF Encoder

LEMMA TopFacts ==
    ASSUME NEW S, NEW s \in Seq(S), s # << >>
    PROVE  Len(s) \in Nat /\ Len(s) >= 1 /\ Len(s) \in 1..Len(s) /\ Top(s) \in S
           /\ Top(s) = s[Len(s)]
BY DEF Top

LEMMA FrontFacts ==
    ASSUME NEW S, NEW s \in Seq(S), s # << >>
    PROVE  /\ Front(s) \in Seq(S) /\ Len(Front(s)) = Len(s) - 1
           /\ \A i \in 1..(Len(s) - 1) : Front(s)[i] = s[i]
<1> DEFINE k == Len(s) - 1
<1>1. k \in Nat /\ k <= Len(s)
  OBVIOUS
<1>2. Front(s) = SubSeq(s, 1, k)
  BY DEF Front
<1> HIDE DEF k
<1>3. Front(s) \in Seq(S) /\ Len(Front(s)) = k
  BY <1>1, <1>2
<1>4. \A i \in 1..k : Front(s)[i] = s[i]
  BY <1>1, <1>2
<1> QED
  BY <1>3, <1>4 DEF k

LEMMA AppendFacts ==
    ASSUME NEW S, NEW s \in Seq(S), NEW x \in S
    PROVE  /\ Append(s, x) \in Seq(S) /\ Append(s, x) # << >>
           /\ Len(Append(s, x)) = Len(s) + 1
           /\ \A i \in 1..Len(s) : Append(s, x)[i] = s[i]
           /\ Append(s, x)[Len(s) + 1] = x
           /\ Top(Append(s, x)) = x
BY DEF Top

\* Replacing the last element
Replaced(s, x) == [s EXCEPT ![Len(s)] = x]

LEMMA ReplaceFacts ==
    ASSUME NEW S, NEW s \in Seq(S), s # << >>, NEW x \in S
    PROVE  /\ Replaced(s, x) \in Seq(S) /\ Replaced(s, x) # << >>
           /\ Len(Replaced(s, x)) = Len(s)
           /\ Top(Replaced(s, x)) = x /\ Replaced(s, x)[Len(s)] = x
           /\ \A i \in 1..(Len(s) - 1) : Replaced(s, x)[i] = s[i]
<1> DEFINE t == Replaced(s, x)
<1>1. Len(s) \in Nat /\ Len(s) >= 1 /\ Len(s) \in 1..Len(s)
  OBVIOUS
<1>2. t \in Seq(S) /\ Len(t) = Len(s)
  BY <1>1 DEF Replaced
<1>3. t[Len(s)] = x /\ \A i \in 1..(Len(s) - 1) : t[i] = s[i]
  BY <1>1 DEF Replaced
<1>4. t # << >>
  BY <1>1, <1>2
<1> QED
  BY <1>2, <1>3, <1>4 DEF Top

LEMMA MapFacts ==
    ASSUME NEW m \in Map, NEW nm \in Name, NEW n \in Node
    PROVE  [m EXCEPT ![nm] = n] \in Map
BY DEF Map

\* update_root_or_constructed
LEMMA UpdatedRoot ==
    ASSUME NEW e \in Encoder, NEW n \in Node, e.stack = << >>
    PROVE  /\ Updated(e, n) \in Encoder /\ ~Mismatch(e)
           /\ Updated(e, n).stack = e.stack
           /\ Updated(e, n).constructed_stack = e.constructed_stack
           /\ Updated(e, n).root_value = n
BY DEF Updated, Encoder, Mismatch

LEMMA UpdatedField ==
    ASSUME NEW e \in Encoder, NEW n \in Node, e.stack # << >>, e.constructed_stack # << >>
    PROVE  LET u == Updated(e, n)
               c == e.constructed_stack
           IN  /\ u \in Encoder /\ ~Mismatch(e)
               /\ u.stack = Front(e.stack) /\ Len(u.stack) = Len(e.stack) - 1
               /\ Len(u.constructed_stack) = Len(c)
               /\ \A i \in 1..(Len(c) - 1) : u.constructed_stack[i] = c[i]
               /\ u.constructed_stack[Len(c)] = [c[Len(c)] EXCEPT ![Top(e.stack)] = n]
<1> DEFINE u == Updated(e, n)
           c == e.constructed_stack
           m == [c[Len(c)] EXCEPT ![Top(e.stack)] = n]
           d == Replaced(c, m)
<1>1. e.stack \in Seq(Name) /\ c \in Seq(Map) /\ e.root_value \in Node \cup {Absent}
  BY EncoderFacts
<1>2. Top(e.stack) \in Name /\ Top(c) \in Map /\ Top(c) = c[Len(c)]
  BY <1>1, TopFacts
<1>3. m \in Map
  BY <1>2, MapFacts
<1>4. u = [e EXCEPT !.stack = Front(e.stack), !.constructed_stack = d]
  BY DEF Updated, Replaced
<1> HIDE DEF m
<1>5. /\ d \in Seq(Map) /\ Len(d) = Len(c) /\ Top(d) = m
      /\ \A i \in 1..(Len(c) - 1) : d[i] = c[i]
  <2> HIDE DEF c
  <2>0. c # << >> /\ c \in Seq(Map)
    BY <1>1 DEF c
  <2>1. d \in Seq(Map)
    BY <1>3, <2>0, ReplaceFacts
  <2>2. Len(d) = Len(c)
    BY <1>3, <2>0, ReplaceFacts
  <2>3. Top(d) = m
    BY <1>3, <2>0, ReplaceFacts
  <2>4. \A i \in 1..(Len(c) - 1) : d[i] = c[i]
    BY <1>3, <2>0, ReplaceFacts
  <2> QED
    BY <2>1, <2>2, <2>3, <2>4
<1>6. d[Len(c)] = m
  BY <1>5 DEF Top
<1> HIDE DEF d
<1>7. Front(e.stack) \in Seq(Name) /\ Len(Front(e.stack)) = Len(e.stack) - 1
  BY <1>1, FrontFacts
<1>8. u \in Encoder /\ u.stack = Front(e.stack) /\ u.constructed_stack = d
  BY <1>1, <1>4, <1>5, <1>7 DEF Encoder
<1>9. ~Mismatch(e)
  BY DEF Mismatch
<1> QED
  BY <1>5, <1>6, <1>7, <1>8, <1>9 DEF m
\* A call under way
LEMMA CallFacts ==
    ASSUME NEW f \in Frame, FrameOK(f)
    PROVE  /\ Left(f) \in Nat /\ Len(Child[f.node]) \in Nat /\ f.next \in Nat /\ f.next >= 1
           /\ f.next = Len(Child[f.node]) + 1 - Left(f)
<1>1. f.node \in Node /\ f.next \in Nat
  BY FrameFacts
<1>2. Len(Child[f.node]) \in Nat
  BY <1>1, NodeFacts
<1> DEFINE k == Len(Child[f.node])
<1>3. f.next \in 1..(k + 1) /\ Left(f) = k + 1 - f.next
  BY DEF FrameOK, Left
<1> HIDE DEF k
<1>4. Left(f) \in Nat /\ f.next >= 1 /\ f.next = k + 1 - Left(f)
  BY <1>1, <1>2, <1>3 DEF k
<1> QED
  BY <1>1, <1>2, <1>4 DEF k

LEMMA TopFrame ==
    ASSUME NEW fr \in Seq(Frame), fr # << >>, CallsOK(fr)
    PROVE  /\ Top(fr) \in Frame /\ FrameOK(Top(fr)) /\ Top(fr) = fr[Len(fr)]
           /\ Len(fr) \in Nat /\ Len(fr) \in 1..Len(fr)
<1>1. Top(fr) \in Frame /\ Top(fr) = fr[Len(fr)] /\ Len(fr) \in Nat /\ Len(fr) \in 1..Len(fr)
  BY TopFacts
<1> QED
  BY <1>1 DEF CallsOK

\* What waits is below the running encoder and is not touched by it.
LEMMA WaitingFrame ==
    ASSUME NEW fr \in Seq(Frame), NEW es \in Seq(Encoder), NEW es2 \in Seq(Encoder),
           Waiting(fr, es), Len(es2) = Len(es),
           \A i \in 1..(Len(es) - 1) : es2[i] = es[i],
           \A i \in 1..Len(fr) : fr[i].enc >= 1
    PROVE  Waiting(fr, es2)
<1> SUFFICES ASSUME NEW i \in 1..Len(fr), IsList(fr[i])
             PROVE  /\ fr[i].enc < Len(es2)
                    /\ Len(es2[fr[i].enc].stack) = fr[i].base
                    /\ Len(es2[fr[i].enc].constructed_stack) = fr[i].maps
  BY DEF Waiting
<1>1. /\ fr[i].enc < Len(es) /\ Len(es[fr[i].enc].stack) = fr[i].base
      /\ Len(es[fr[i].enc].constructed_stack) = fr[i].maps
  BY DEF Waiting
<1>2. fr[i].enc \in Nat
  <2>1. fr[i] \in Frame
    OBVIOUS
  <2> QED
    BY <2>1, FrameFacts
<1>3. es2[fr[i].enc] = es[fr[i].enc]
  BY <1>1, <1>2
<1> QED
  BY <1>1, <1>3

\* A value is finished: the name on top of the stack is taken, or the encoder
\* has its root value.
LEMMA FinishValue ==
    ASSUME NEW fr \in Seq(Frame), NEW es \in Seq(Encoder), es # << >>, NEW n \in Node,
           Heights(fr, es, n)
    PROVE  LET u == Replaced(es, Updated(Top(es), n))
           IN  /\ ~Mismatch(Top(es))
               /\ u \in Seq(Encoder) /\ u # << >> /\ Heights(fr, u, Absent)
<1> DEFINE e == Top(es)
           v == Updated(e, n)
           u == Replaced(es, v)
<1>0. n # Absent
  BY NodesAssumption
<1>1. e \in Encoder
  BY TopFacts
<1>2. CallsOK(fr) /\ Running(fr, e, Len(es), n) /\ Waiting(fr, es)
  BY DEF Heights
<1> HIDE DEF e
<1>3. /\ e.stack \in Seq(Name) /\ e.constructed_stack \in Seq(Map)
      /\ Len(e.stack) \in Nat /\ Len(e.constructed_stack) \in Nat
  BY <1>1, EncoderFacts
<1>4. ASSUME v \in Encoder, Running(fr, v, Len(es), Absent)
      PROVE  u \in Seq(Encoder) /\ u # << >> /\ Heights(fr, u, Absent)
  <2> HIDE DEF v
  <2>1. /\ u \in Seq(Encoder) /\ u # << >> /\ Len(u) = Len(es) /\ Top(u) = v
        /\ \A i \in 1..(Len(es) - 1) : u[i] = es[i]
    BY <1>4, ReplaceFacts
  <2> HIDE DEF u
  <2>2. \A i \in 1..Len(fr) : fr[i].enc >= 1
    BY <1>2 DEF CallsOK, FrameOK
  <2>3. Waiting(fr, u)
    BY <1>2, <2>1, <2>2, WaitingFrame
  <2> QED
    BY <1>2, <1>4, <2>1, <2>3 DEF Heights
<1>5. CASE fr = << >>
  <2>1. e.stack = << >> /\ n = root /\ Len(es) = 1 /\ Len(e.constructed_stack) = 0
    BY <1>0, <1>2, <1>3, <1>5 DEF Running
  <2>2. /\ v \in Encoder /\ ~Mismatch(e) /\ v.stack = e.stack
        /\ v.constructed_stack = e.constructed_stack /\ v.root_value = n
    BY <1>1, <2>1, UpdatedRoot
  <2> HIDE DEF v
  <2>3. Running(fr, v, Len(es), Absent)
    BY <1>3, <1>5, <2>1, <2>2 DEF Running
  <2> QED
    BY <1>4, <2>2, <2>3 DEF e, v
<1>6. CASE fr # << >>
  <2> DEFINE f == Top(fr)
  <2>1. f \in Frame /\ FrameOK(f)
    BY <1>2, <1>6, TopFrame
  <2>2. /\ Left(f) \in Nat /\ f.base \in Nat /\ f.maps \in Nat
    BY <2>1, CallFacts, FrameFacts
  <2>3. /\ Len(es) = AtEnc(f) /\ Len(e.stack) = AtBase(f, 1)
        /\ Len(e.constructed_stack) = AtMaps(f)
        /\ f.next > 1 /\ n = Child[f.node][f.next - 1]
    BY <1>0, <1>2, <1>6 DEF Running, Pending
  <2> HIDE DEF f
  <2>4. ASSUME v \in Encoder, Len(v.stack) = AtBase(f, 0),
               Len(v.constructed_stack) = AtMaps(f),
               IsList(f) => v.root_value = n
        PROVE  Running(fr, v, Len(es), Absent)
    BY <1>6, <2>3, <2>4 DEF Running, Pending, f
  <2>5. CASE IsList(f)
    <3>1. e.stack = << >>
      BY <1>3, <2>3, <2>5 DEF AtBase
    <3>2. /\ v \in Encoder /\ ~Mismatch(e) /\ v.stack = e.stack
          /\ v.constructed_stack = e.constructed_stack /\ v.root_value = n
      BY <1>1, <3>1, UpdatedRoot
    <3> HIDE DEF v
    <3>3. AtBase(f, 0) = AtBase(f, 1)
      BY <2>5 DEF AtBase
    <3> QED
      BY <1>4, <2>3, <2>4, <3>2, <3>3 DEF e, v
  <2>6. CASE ~IsList(f)
    <3>1. Len(e.stack) > 0 /\ Len(e.constructed_stack) > 0
      BY <2>2, <2>3, <2>6 DEF AtBase, AtMaps
    <3>2. e.stack # << >> /\ e.constructed_stack # << >>
      BY <3>1
    <3>3. /\ v \in Encoder /\ ~Mismatch(e)
          /\ Len(v.stack) = Len(e.stack) - 1
          /\ Len(v.constructed_stack) = Len(e.constructed_stack)
      BY <1>1, <3>2, UpdatedField
    <3> HIDE DEF v
    <3>4. AtBase(f, 0) = AtBase(f, 1) - 1
      BY <2>2, <2>6 DEF AtBase
    <3>5. /\ Len(v.stack) = AtBase(f, 0) /\ Len(v.constructed_stack) = AtMaps(f)
      BY <2>3, <3>3, <3>4
    <3>6. Running(fr, v, Len(es), Absent)
      BY <2>4, <2>6, <3>3, <3>5
    <3> QED
      BY <1>4, <3>3, <3>6 DEF e, v
  <2> QED
    BY <2>5, <2>6
<1> QED
  BY <1>5, <1>6
-----------------------------------------------------------------------------
(***************************************************************************)
(* The calls under way.                                                    *)
(***************************************************************************)
\* g is the outermost call, or one that the innermost call of fr makes.
Follows(fr, g) ==
    IF fr = << >> THEN g.node = root /\ g.enc = 1 /\ g.base = 0 /\ g.maps = 0
    ELSE Calls(Top(fr), g)

\* A call for n finds the encoder where Running says it is, and back.
LEMMA FollowsRunning ==
    ASSUME NEW fr \in Seq(Frame), NEW g \in Frame, NEW e, NEW k,
           g.enc = k, g.base = Len(e.stack), g.maps = Len(e.constructed_stack)
    PROVE  Running(fr, e, k, g.node) <=> Follows(fr, g)
<1>1. g.node # Absent
  BY NodesAssumption, FrameFacts
<1> QED
  BY <1>1 DEF Running, Follows, Calls, Pending

\* Every call is below those that the innermost call makes.
LEMMA UnderNext ==
    ASSUME NEW fr \in Seq(Frame), fr # << >>, CallsOK(fr), NEW i \in 1..Len(fr)
    PROVE  Under(fr[i], AtEnc(Top(fr)), AtBase(Top(fr), 1), AtMaps(Top(fr)))
<1> DEFINE f == Top(fr)
           h == fr[i]
<1>1. f \in Frame /\ FrameOK(f) /\ f = fr[Len(fr)] /\ Len(fr) \in 1..Len(fr) /\ Len(fr) \in Nat
  BY TopFrame
<1>2. h \in Frame /\ FrameOK(h)
  BY DEF CallsOK
<1>3. i < Len(fr) => Under(h, f.enc, f.base, f.maps)
  BY <1>1 DEF CallsOK
<1>4. i < Len(fr) \/ h = f
  BY <1>1
<1> HIDE DEF f, h
<1>5. /\ f.enc \in Nat /\ f.base \in Nat /\ f.maps \in Nat /\ Left(f) \in Nat
      /\ h.enc \in Nat /\ h.base \in Nat /\ h.maps \in Nat /\ Left(h) \in Nat
  BY <1>1, <1>2, FrameFacts, CallFacts
<1>6. CASE h = f
  BY <1>5, <1>6 DEF Under, AtEnc, AtBase, AtMaps, f, h
<1>7. CASE Under(h, f.enc, f.base, f.maps)
  <2>1. Under(h, AtEnc(f), AtBase(f, 1), AtMaps(f))
    <3>1. CASE h.enc < f.enc
      <4>1. h.enc < AtEnc(f)
        BY <1>5, <3>1 DEF AtEnc
      <4> QED
        BY <4>1 DEF Under
    <3>2. CASE /\ ~IsList(h) /\ h.enc = f.enc
               /\ h.base + Left(h) + 1 <= f.base /\ h.maps + 1 <= f.maps
      <4>1. CASE IsList(f)
        BY <1>5, <3>2, <4>1 DEF Under, AtEnc
      <4>2. CASE ~IsList(f)
        <5>1. /\ AtEnc(f) = f.enc /\ AtBase(f, 1) = f.base + Left(f) + 1
              /\ AtMaps(f) = f.maps + 1
          BY <4>2 DEF AtEnc, AtBase, AtMaps
        <5>2. h.base + Left(h) + 1 <= f.base + Left(f) + 1 /\ h.maps + 1 <= f.maps + 1
          <6> DEFINE hb == h.base
                     hl == Left(h)
                     hm == h.maps
                     fb == f.base
                     fl == Left(f)
                     fm == f.maps
          <6>1. /\ hb \in Nat /\ hl \in Nat /\ hm \in Nat
                /\ fb \in Nat /\ fl \in Nat /\ fm \in Nat
                /\ hb + hl + 1 <= fb /\ hm + 1 <= fm
            BY <1>5, <3>2
          <6> HIDE DEF hb, hl, hm, fb, fl, fm
          <6>2. hb + hl + 1 <= fb + fl + 1 /\ hm + 1 <= fm + 1
            BY <6>1
          <6> QED
            BY <6>2 DEF hb, hl, hm, fb, fl, fm
        <5> QED
          BY <3>2, <5>1, <5>2 DEF Under
      <4> QED
        BY <4>1, <4>2
    <3> QED
      BY <1>7, <3>1, <3>2 DEF Under
  <2> QED
    BY <2>1 DEF f, h
<1> QED
  BY <1>3, <1>4, <1>6, <1>7

LEMMA PushCall ==
    ASSUME NEW fr \in Seq(Frame), CallsOK(fr), NEW g \in Frame, FrameOK(g), Follows(fr, g)
    PROVE  CallsOK(Append(fr, g))
<1> DEFINE t == Append(fr, g)
<1>1. /\ t \in Seq(Frame) /\ t # << >> /\ Len(t) = Len(fr) + 1
      /\ \A i \in 1..Len(fr) : t[i] = fr[i]
      /\ t[Len(fr) + 1] = g
  BY AppendFacts
<1>2. Len(fr) \in Nat
  OBVIOUS
<1> HIDE DEF t
<1>3. \A i \in 1..Len(t) : FrameOK(t[i])
  BY <1>1, <1>2 DEF CallsOK
<1>4. t[1].node = root /\ t[1].enc = 1 /\ t[1].base = 0 /\ t[1].maps = 0
  <2>1. CASE fr = << >>
    BY <1>1, <2>1 DEF Follows
  <2>2. CASE fr # << >>
    <3>1. 1 \in 1..Len(fr)
      BY <2>2
    <3> QED
      BY <1>1, <2>2, <3>1 DEF CallsOK
  <2> QED
    BY <2>1, <2>2
<1>5. ASSUME NEW i \in 1..(Len(t) - 1) PROVE Calls(t[i], t[i + 1])
  <2>1. CASE i < Len(fr)
    <3>1. i \in 1..(Len(fr) - 1) /\ t[i] = fr[i] /\ t[i + 1] = fr[i + 1]
      BY <1>1, <1>2, <2>1
    <3> QED
      BY <3>1 DEF CallsOK
  <2>2. CASE i = Len(fr)
    <3>1. fr # << >> /\ t[i] = Top(fr) /\ t[i + 1] = g
      BY <1>1, <1>2, <2>2 DEF Top
    <3> QED
      BY <3>1 DEF Follows
  <2> QED
    BY <1>1, <1>2, <2>1, <2>2
<1>6. ASSUME NEW i \in 1..Len(t), NEW j \in 1..Len(t), i < j
      PROVE  Under(t[i], t[j].enc, t[j].base, t[j].maps)
  <2>1. i \in 1..Len(fr) /\ t[i] = fr[i]
    BY <1>1, <1>2, <1>6
  <2>2. CASE j <= Len(fr)
    <3>1. j \in 1..Len(fr) /\ t[j] = fr[j]
      BY <1>1, <1>2, <2>2
    <3> QED
      BY <1>6, <2>1, <3>1 DEF CallsOK
  <2>3. CASE j = Len(fr) + 1
    <3>1. fr # << >> /\ t[j] = g
      BY <1>1, <2>1, <2>3
    <3>2. g.enc = AtEnc(Top(fr)) /\ g.base = AtBase(Top(fr), 1) /\ g.maps = AtMaps(Top(fr))
      BY <3>1 DEF Follows, Calls
    <3> QED
      BY <2>1, <3>1, <3>2, UnderNext
  <2> QED
    BY <1>1, <1>2, <2>2, <2>3
<1>7. CallsOK(t)
  BY <1>3, <1>4, <1>5, <1>6 DEF CallsOK
<1> QED
  BY <1>7 DEF t

LEMMA PopCall ==
    ASSUME NEW fr \in Seq(Frame), fr # << >>, CallsOK(fr)
    PROVE  CallsOK(Front(fr)) /\ Follows(Front(fr), Top(fr))
<1> DEFINE t == Front(fr)
<1>1. /\ t \in Seq(Frame) /\ Len(t) = Len(fr) - 1 /\ Len(fr) \in Nat /\ Len(fr) >= 1
      /\ \A i \in 1..Len(t) : t[i] = fr[i]
  BY FrontFacts, TopFacts
<1> HIDE DEF t
<1>2. CallsOK(t)
  <2>1. \A i \in 1..Len(t) : FrameOK(t[i])
    BY <1>1 DEF CallsOK
  <2>2. t # << >> => t[1].node = root /\ t[1].enc = 1 /\ t[1].base = 0 /\ t[1].maps = 0
    BY <1>1 DEF CallsOK
  <2>3. \A i \in 1..(Len(t) - 1) : Calls(t[i], t[i + 1])
    BY <1>1 DEF CallsOK
  <2>4. \A i, j \in 1..Len(t) : i < j => Under(t[i], t[j].enc, t[j].base, t[j].maps)
    BY <1>1 DEF CallsOK
  <2> QED
    BY <2>1, <2>2, <2>3, <2>4 DEF CallsOK
<1>3. Follows(t, Top(fr))
  <2>1. CASE t = << >>
    <3>1. Len(fr) = 1
      BY <1>1, <2>1
    <3> QED
      BY <2>1, <3>1 DEF Follows, CallsOK, Top
  <2>2. CASE t # << >>
    <3>1. Len(t) \in 1..(Len(fr) - 1) /\ Len(t) + 1 = Len(fr) /\ Len(t) \in 1..Len(t)
      BY <1>1, <2>2
    <3>2. Calls(fr[Len(t)], fr[Len(t) + 1])
      BY <3>1 DEF CallsOK
    <3>3. Top(t) = fr[Len(t)]
      BY <1>1, <3>1 DEF Top
    <3> QED
      BY <2>2, <3>1, <3>2, <3>3 DEF Follows, Top
  <2> QED
    BY <2>1, <2>2
<1> QED
  BY <1>2, <1>3 DEF t

\* The innermost call goes on to its next component.
LEMMA AdvanceCall ==
    ASSUME NEW fr \in Seq(Frame), fr # << >>, CallsOK(fr), NEW g \in Frame, FrameOK(g),
           NEW f, f = Top(fr), g.node = f.node,
           g.enc = f.enc, g.base = f.base, g.maps = f.maps
    PROVE  CallsOK(Replaced(fr, g))
<1> DEFINE t == Replaced(fr, g)
<1>1. /\ t \in Seq(Frame) /\ t # << >> /\ Len(t) = Len(fr) /\ t[Len(fr)] = g
      /\ \A i \in 1..(Len(fr) - 1) : t[i] = fr[i]
  BY ReplaceFacts
<1>2. f = fr[Len(fr)] /\ Len(fr) \in Nat /\ Len(fr) \in 1..Len(fr)
  BY TopFrame
<1> HIDE DEF t
<1>3. \A i \in 1..Len(t) : FrameOK(t[i])
  BY <1>1, <1>2 DEF CallsOK
<1>4. \A i \in 1..Len(t) : /\ t[i].node = fr[i].node /\ t[i].enc = fr[i].enc
                           /\ t[i].base = fr[i].base /\ t[i].maps = fr[i].maps
  BY <1>1, <1>2
<1>5. t[1].node = root /\ t[1].enc = 1 /\ t[1].base = 0 /\ t[1].maps = 0
  BY <1>1, <1>2, <1>4 DEF CallsOK
<1>6. \A i \in 1..(Len(t) - 1) : Calls(t[i], t[i + 1])
  <2> TAKE i \in 1..(Len(t) - 1)
  <2>1. Calls(fr[i], fr[i + 1]) /\ t[i] = fr[i] /\ i + 1 \in 1..Len(t)
    BY <1>1, <1>2 DEF CallsOK
  <2> QED
    BY <1>4, <2>1 DEF Calls
<1>7. \A i, j \in 1..Len(t) : i < j => Under(t[i], t[j].enc, t[j].base, t[j].maps)
  <2> TAKE i, j \in 1..Len(t)
  <2> HAVE i < j
  <2>1. t[i] = fr[i] /\ Under(fr[i], fr[j].enc, fr[j].base, fr[j].maps)
    BY <1>1, <1>2 DEF CallsOK
  <2> QED
    BY <1>4, <2>1
<1>8. CallsOK(t)
  BY <1>3, <1>5, <1>6, <1>7 DEF CallsOK
<1> QED
  BY <1>8 DEF t
-----------------------------------------------------------------------------
(***************************************************************************)
(* The heights, call by call.                                              *)
(***************************************************************************)
\* The encoders below the last one are left alone.
LEMMA ReplaceWaiting ==
    ASSUME NEW fr \in Seq(Frame), CallsOK(fr), NEW es \in Seq(Encoder), es # << >>,
           Waiting(fr, es), NEW v \in Encoder
    PROVE  /\ Waiting(fr, Replaced(es, v)) /\ Replaced(es, v) \in Seq(Encoder)
           /\ Replaced(es, v) # << >> /\ Len(Replaced(es, v)) = Len(es)
           /\ Top(Replaced(es, v)) = v
<1> DEFINE u == Replaced(es, v)
<1>1. /\ u \in Seq(Encoder) /\ u # << >> /\ Len(u) = Len(es) /\ Top(u) = v
      /\ \A i \in 1..(Len(es) - 1) : u[i] = es[i]
  BY ReplaceFacts
<1> HIDE DEF u
<1>2. \A i \in 1..Len(fr) : fr[i].enc >= 1
  BY DEF CallsOK, FrameOK
<1>3. Waiting(fr, u)
  BY <1>1, <1>2, WaitingFrame
<1> QED
  BY <1>1, <1>3 DEF u

\* A frame that is not of a list says nothing of encoders that wait.
LEMMA WaitingNodes ==
    ASSUME NEW fr \in Seq(Frame), fr # << >>, NEW es, Waiting(fr, es),
           NEW g \in Frame, g.node = Top(fr).node,
           g.enc = Top(fr).enc, g.base = Top(fr).base, g.maps = Top(fr).maps
    PROVE  Waiting(Replaced(fr, g), es)
<1> DEFINE t == Replaced(fr, g)
<1>1. /\ Len(t) = Len(fr) /\ t[Len(fr)] = g
      /\ \A i \in 1..(Len(fr) - 1) : t[i] = fr[i]
  BY ReplaceFacts
<1>2. Len(fr) \in Nat /\ Top(fr) = fr[Len(fr)]
  BY TopFacts
<1> HIDE DEF t
<1>3. \A i \in 1..Len(t) : /\ t[i].node = fr[i].node /\ t[i].enc = fr[i].enc
                           /\ t[i].base = fr[i].base /\ t[i].maps = fr[i].maps
  BY <1>1, <1>2
<1>4. Waiting(t, es)
  BY <1>1, <1>3 DEF Waiting, IsList
<1> QED
  BY <1>4 DEF t

\* encode_sequence and encode_choice start: g is the new call, e the encoder
\* with the names and the map pushed.
LEMMA OpenHeights ==
    ASSUME NEW fr \in Seq(Frame), NEW es \in Seq(Encoder), es # << >>,
           NEW g \in Frame, FrameOK(g), ~IsList(g), Heights(fr, es, g.node),
           g.enc = Len(es), g.base = Len(Top(es).stack),
           g.maps = Len(Top(es).constructed_stack),
           NEW c, c # Absent => g.next > 1 /\ c = Child[g.node][g.next - 1],
           NEW e \in Encoder, Len(e.stack) = g.base + Left(g) + Pending(c),
           Len(e.constructed_stack) = g.maps + 1
    PROVE  /\ Append(fr, g) \in Seq(Frame)
           /\ Replaced(es, e) \in Seq(Encoder) /\ Replaced(es, e) # << >>
           /\ Heights(Append(fr, g), Replaced(es, e), c)
<1> DEFINE t == Append(fr, g)
           u == Replaced(es, e)
<1>1. CallsOK(fr) /\ Waiting(fr, es) /\ Running(fr, Top(es), Len(es), g.node)
  BY DEF Heights
<1>2. CallsOK(t)
  <2>1. Follows(fr, g)
    BY <1>1, FollowsRunning
  <2> QED
    BY <1>1, <2>1, PushCall
<1>3. /\ Waiting(fr, u) /\ u \in Seq(Encoder) /\ u # << >> /\ Len(u) = Len(es) /\ Top(u) = e
  BY <1>1, ReplaceWaiting
<1>4. /\ t \in Seq(Frame) /\ t # << >> /\ Top(t) = g /\ Len(t) = Len(fr) + 1
      /\ \A i \in 1..Len(fr) : t[i] = fr[i]
      /\ t[Len(fr) + 1] = g
  BY AppendFacts
<1> HIDE DEF t, u
<1>5. Running(t, Top(u), Len(u), c)
  BY <1>3, <1>4 DEF Running, AtEnc, AtBase, AtMaps
<1>6. Waiting(t, u)
  <2> SUFFICES ASSUME NEW i \in 1..Len(t), IsList(t[i]) PROVE i \in 1..Len(fr) /\ t[i] = fr[i]
    BY <1>3 DEF Waiting
  <2>1. Len(fr) \in Nat
    OBVIOUS
  <2> QED
    BY <1>4, <2>1
<1>7. Heights(t, u, c)
  BY <1>2, <1>5, <1>6 DEF Heights
<1> QED
  BY <1>3, <1>4, <1>7 DEF t, u

\* encode_sequence_of starts: its encoder waits, another one runs.
LEMMA OpenListHeights ==
    ASSUME NEW fr \in Seq(Frame), NEW es \in Seq(Encoder), es # << >>,
           NEW g \in Frame, FrameOK(g), IsList(g), Heights(fr, es, g.node),
           g.enc = Len(es), g.base = Len(Top(es).stack),
           g.maps = Len(Top(es).constructed_stack), g.next = 1,
           New \in Encoder
    PROVE  /\ Append(fr, g) \in Seq(Frame)
           /\ Append(es, New) \in Seq(Encoder) /\ Append(es, New) # << >>
           /\ Heights(Append(fr, g), Append(es, New), Absent)
<1> DEFINE t == Append(fr, g)
           u == Append(es, New)
<1>1. CallsOK(fr) /\ Waiting(fr, es) /\ Running(fr, Top(es), Len(es), g.node)
  BY DEF Heights
<1>2. CallsOK(t)
  <2>1. Follows(fr, g)
    BY <1>1, FollowsRunning
  <2> QED
    BY <1>1, <2>1, PushCall
<1>3. /\ u \in Seq(Encoder) /\ u # << >> /\ Len(u) = Len(es) + 1 /\ Top(u) = New
      /\ \A i \in 1..Len(es) : u[i] = es[i]
  BY AppendFacts
<1>4. /\ t \in Seq(Frame) /\ t # << >> /\ Top(t) = g /\ Len(t) = Len(fr) + 1
      /\ \A i \in 1..Len(fr) : t[i] = fr[i]
      /\ t[Len(fr) + 1] = g
  BY AppendFacts
<1> HIDE DEF t, u
<1>5. Running(t, Top(u), Len(u), Absent)
  <2>1. Len(New.stack) = 0 /\ Len(New.constructed_stack) = 0
    BY DEF New
  <2> QED
    BY <1>3, <1>4, <2>1 DEF Running, AtEnc, AtBase, AtMaps
<1>6. Waiting(t, u)
  <2> SUFFICES ASSUME NEW i \in 1..Len(t), IsList(t[i])
               PROVE  /\ t[i].enc < Len(u) /\ Len(u[t[i].enc].stack) = t[i].base
                      /\ Len(u[t[i].enc].constructed_stack) = t[i].maps
    BY DEF Waiting
  <2>0. Len(fr) \in Nat /\ Len(es) \in Nat /\ Len(es) >= 1 /\ Top(es) = es[Len(es)]
    BY TopFacts
  <2>1. CASE i = Len(fr) + 1
    <3>1. t[i] = g /\ u[Len(es)] = Top(es)
      BY <1>3, <1>4, <2>0, <2>1
    <3> QED
      BY <1>3, <2>0, <3>1
  <2>2. CASE i # Len(fr) + 1
    <3>1. i \in 1..Len(fr) /\ t[i] = fr[i]
      BY <1>4, <2>0, <2>2
    <3>2. fr[i] \in Frame /\ FrameOK(fr[i])
      BY <1>1, <3>1 DEF CallsOK
    <3>3. fr[i].enc \in Nat /\ fr[i].enc >= 1
      BY <3>2, FrameFacts DEF FrameOK
    <3>4. /\ fr[i].enc < Len(es) /\ Len(es[fr[i].enc].stack) = fr[i].base
          /\ Len(es[fr[i].enc].constructed_stack) = fr[i].maps
      BY <1>1, <3>1 DEF Waiting
    <3>5. u[fr[i].enc] = es[fr[i].enc]
      <4>1. fr[i].enc \in 1..Len(es)
        BY <2>0, <3>3, <3>4
      <4> QED
        BY <1>3, <4>1
    <3> QED
      BY <1>3, <2>0, <3>1, <3>3, <3>4, <3>5
  <2> QED
    BY <2>1, <2>2
<1>7. Heights(t, u, Absent)
  BY <1>2, <1>5, <1>6 DEF Heights
<1> QED
  BY <1>3, <1>4, <1>7 DEF t, u

\* A call goes on to its next component: g is the frame as it is then, e the
\* running encoder.
LEMMA AdvanceHeights ==
    ASSUME NEW fr \in Seq(Frame), fr # << >>, NEW es \in Seq(Encoder), es # << >>,
           CallsOK(fr), Waiting(fr, es), NEW f, f = Top(fr),
           NEW g \in Frame, FrameOK(g), g.node = f.node,
           g.enc = f.enc, g.base = f.base, g.maps = f.maps,
           NEW c, c # Absent => g.next > 1 /\ c = Child[g.node][g.next - 1],
           NEW e \in Encoder, Len(es) = AtEnc(g), Len(e.stack) = AtBase(g, Pending(c)),
           Len(e.constructed_stack) = AtMaps(g),
           IsList(g) => c # Absent
    PROVE  /\ Replaced(fr, g) \in Seq(Frame)
           /\ Replaced(es, e) \in Seq(Encoder) /\ Replaced(es, e) # << >>
           /\ Heights(Replaced(fr, g), Replaced(es, e), c)
<1> DEFINE t == Replaced(fr, g)
           u == Replaced(es, e)
<1>1. CallsOK(t)
  BY AdvanceCall
<1>2. t \in Seq(Frame) /\ t # << >> /\ Top(t) = g
  BY ReplaceFacts
<1>3. Waiting(t, es)
  BY WaitingNodes
<1> HIDE DEF t
<1>4. Waiting(t, u) /\ u \in Seq(Encoder) /\ u # << >> /\ Len(u) = Len(es) /\ Top(u) = e
  BY <1>1, <1>2, <1>3, ReplaceWaiting
<1> HIDE DEF u
<1>5. Running(t, Top(u), Len(u), c)
  BY <1>2, <1>4 DEF Running
<1> QED
  BY <1>1, <1>2, <1>4, <1>5 DEF t, u, Heights

\* encode_sequence and encode_choice end: e is the encoder with the map popped.
LEMMA CloseHeights ==
    ASSUME NEW fr \in Seq(Frame), fr # << >>, NEW es \in Seq(Encoder), es # << >>,
           CallsOK(fr), Waiting(fr, es), NEW f, f = Top(fr), ~IsList(f), Len(es) = f.enc,
           NEW e \in Encoder, Len(e.stack) = f.base, Len(e.constructed_stack) = f.maps
    PROVE  /\ Front(fr) \in Seq(Frame)
           /\ Replaced(es, e) \in Seq(Encoder) /\ Replaced(es, e) # << >>
           /\ Heights(Front(fr), Replaced(es, e), f.node)
<1> DEFINE t == Front(fr)
           u == Replaced(es, e)
<1>1. f \in Frame
  BY TopFrame
<1>2. CallsOK(t) /\ Follows(t, f)
  BY PopCall
<1>3. t \in Seq(Frame) /\ Len(t) = Len(fr) - 1 /\ \A i \in 1..(Len(fr) - 1) : t[i] = fr[i]
  BY FrontFacts
<1> HIDE DEF t
<1>4. Waiting(t, es)
  <2>1. \A i \in 1..Len(t) : i \in 1..Len(fr) /\ t[i] = fr[i]
    BY <1>3
  <2> QED
    BY <2>1 DEF Waiting
<1>5. Waiting(t, u) /\ u \in Seq(Encoder) /\ u # << >> /\ Len(u) = Len(es) /\ Top(u) = e
  BY <1>2, <1>3, <1>4, ReplaceWaiting
<1> HIDE DEF u
<1>6. Running(t, Top(u), Len(u), f.node)
  BY <1>1, <1>2, <1>3, <1>5, FollowsRunning
<1> QED
  BY <1>2, <1>3, <1>5, <1>6 DEF t, u, Heights

\* encode_sequence_of ends: the encoder that waited runs again.
LEMMA CloseListHeights ==
    ASSUME NEW fr \in Seq(Frame), fr # << >>, NEW es \in Seq(Encoder), es # << >>,
           CallsOK(fr), Waiting(fr, es), NEW f, f = Top(fr), IsList(f), Len(es) = f.enc + 1
    PROVE  /\ Front(fr) \in Seq(Frame)
           /\ Front(es) \in Seq(Encoder) /\ Front(es) # << >>
           /\ Heights(Front(fr), Front(es), f.node)
<1> DEFINE t == Front(fr)
           u == Front(es)
<1>1. f \in Frame /\ FrameOK(f) /\ f = fr[Len(fr)] /\ Len(fr) \in Nat /\ Len(fr) \in 1..Len(fr)
  BY TopFrame
<1>2. CallsOK(t) /\ Follows(t, f)
  BY PopCall
<1>3. t \in Seq(Frame) /\ Len(t) = Len(fr) - 1 /\ \A i \in 1..(Len(fr) - 1) : t[i] = fr[i]
  BY FrontFacts
<1>4. f.enc \in Nat /\ f.enc >= 1
  BY <1>1, FrameFacts DEF FrameOK
<1>5. u \in Seq(Encoder) /\ Len(u) = f.enc /\ \A i \in 1..f.enc : u[i] = es[i]
  <2>1. u \in Seq(Encoder) /\ Len(u) = Len(es) - 1 /\ \A i \in 1..(Len(es) - 1) : u[i] = es[i]
    BY FrontFacts
  <2>2. Len(es) - 1 = f.enc
    BY <1>4
  <2> QED
    BY <2>1, <2>2
<1> HIDE DEF t, u
<1>6. u # << >> /\ Top(u) = es[f.enc]
  BY <1>4, <1>5, SMTT(30) DEF Top
<1>7. Len(Top(u).stack) = f.base /\ Len(Top(u).constructed_stack) = f.maps
  BY <1>1, <1>6 DEF Waiting
<1>8. Running(t, Top(u), Len(u), f.node)
  BY <1>1, <1>2, <1>3, <1>5, <1>7, FollowsRunning
<1>9. Waiting(t, u)
  <2> SUFFICES ASSUME NEW i \in 1..Len(t), IsList(t[i])
               PROVE  /\ t[i].enc < Len(u) /\ Len(u[t[i].enc].stack) = t[i].base
                      /\ Len(u[t[i].enc].constructed_stack) = t[i].maps
    BY DEF Waiting
  <2>1. i \in 1..Len(fr) /\ i < Len(fr) /\ t[i] = fr[i]
    BY <1>1, <1>3, SMTT(30)
  <2>2. /\ Len(es[fr[i].enc].stack) = fr[i].base
        /\ Len(es[fr[i].enc].constructed_stack) = fr[i].maps
    BY <2>1 DEF Waiting
  <2>3. fr[i].enc < f.enc
    BY <1>1, <2>1 DEF CallsOK, Under
  <2>4. fr[i] \in Frame /\ FrameOK(fr[i])
    BY <2>1 DEF CallsOK
  <2>5. fr[i].enc \in Nat /\ fr[i].enc >= 1
    BY <2>4, FrameFacts DEF FrameOK
  <2>6. u[fr[i].enc] = es[fr[i].enc]
    <3>1. fr[i].enc \in 1..f.enc
      BY <1>4, <2>3, <2>5
    <3> QED
      BY <1>5, <3>1
  <2> QED
    BY <1>5, <2>1, <2>2, <2>3, <2>6
<1> QED
  BY <1>2, <1>3, <1>5, <1>6, <1>8, <1>9 DEF t, u, Heights
-----------------------------------------------------------------------------
(***************************************************************************)
(* Variants::from_slice: the flattened tags, by induction on the number of *)
(* alternatives.                                                           *)
(***************************************************************************)
Below == {p \in Nat \X Nat : p[1] < p[2]}

\* Every set of natural numbers has a least one.
LEMMA LeastElement ==
    ASSUME NEW S, S \subseteq Nat, S # {}
    PROVE  \E x \in S : \A y \in S : x <= y
<1>1. IsWellFoundedOn(Below, Nat)
  BY NatLessThanWellFounded DEF OpToRel, Below
<1>2. PICK x \in S : \A y \in S : ~(<<y, x>> \in Below)
  BY <1>1, WFMin
<1>3. \A y \in S : x <= y
  <2> TAKE y \in S
  <2>1. x \in Nat /\ y \in Nat /\ ~(<<y, x>> \in Below)
    BY <1>2
  <2>2. ~(y < x)
    BY <2>1 DEF Below
  <2> QED
    BY <2>1, <2>2
<1> QED
  BY <1>3

LEMMA InductionOnNat ==
    ASSUME NEW S, 0 \in S, \A n \in Nat : n \in S => n + 1 \in S
    PROVE  Nat \subseteq S
<1> DEFINE T == Nat \ S
<1>1. SUFFICES ASSUME T # {} PROVE FALSE
  OBVIOUS
<1>2. T \subseteq Nat
  OBVIOUS
<1> HIDE DEF T
<1>3. PICK x \in T : \A y \in T : x <= y
  BY <1>1, <1>2, LeastElement
<1>4. x \in Nat /\ x # 0 /\ x - 1 \in Nat /\ x \notin S
  BY <1>3 DEF T
<1>5. x - 1 \notin T
  BY <1>3, <1>4
<1>6. x - 1 \in S
  BY <1>4, <1>5 DEF T
<1> QED
  BY <1>4, <1>6

\* f is the function that flattens the trees: f[i] has the leaves of the first i.
Flattens(f, trees) ==
    f = [i \in 0..Len(trees) |-> IF i = 0 THEN << >> ELSE f[i - 1] \o trees[i].leaves]

LEMMA TreeFacts ==
    ASSUME NEW trees \in Seq(TagTree), NEW i \in 1..Len(trees)
    PROVE  trees[i].leaves \in Seq(Tag)
<1>1. trees[i] \in TagTree
  OBVIOUS
<1> QED
  BY <1>1 DEF TagTree

\* Such a function exists: it is built from the left.
Built(g, k, trees) ==
    /\ g \in [0..k -> Seq(Tag)] /\ g[0] = << >>
    /\ \A i \in 1..k : g[i] = g[i - 1] \o trees[i].leaves

LEMMA BuildOne ==
    ASSUME NEW trees \in Seq(TagTree), NEW k \in Nat, k + 1 <= Len(trees),
           NEW g, Built(g, k, trees)
    PROVE  \E h : Built(h, k + 1, trees)
<1> DEFINE last == g[k] \o trees[k + 1].leaves
           h == [i \in 0..(k + 1) |-> IF i <= k THEN g[i] ELSE last]
<1>1. /\ g \in [0..k -> Seq(Tag)] /\ g[0] = << >>
      /\ \A i \in 1..k : g[i] = g[i - 1] \o trees[i].leaves
  BY DEF Built
<1>2. last \in Seq(Tag)
  <2>1. trees[k + 1].leaves \in Seq(Tag)
    BY TreeFacts
  <2> QED
    BY <1>1, <2>1
<1> HIDE DEF last
<1>3. h \in [0..(k + 1) -> Seq(Tag)] /\ h[0] = << >>
  BY <1>1, <1>2
<1>4. \A i \in 0..k : h[i] = g[i]
  OBVIOUS
<1>5. h[k + 1] = last
  OBVIOUS
<1> HIDE DEF h
<1>6. ASSUME NEW i \in 1..(k + 1) PROVE h[i] = h[i - 1] \o trees[i].leaves
  <2>1. i - 1 \in 0..k /\ h[i - 1] = g[i - 1]
    BY <1>4
  <2>2. CASE i \in 1..k
    <3>1. h[i] = g[i]
      BY <1>4, <2>2
    <3>2. g[i] = g[i - 1] \o trees[i].leaves
      BY <1>1, <2>2
    <3> QED
      BY <2>1, <3>1, <3>2
  <2>3. CASE i = k + 1
    <3>1. i - 1 = k
      BY <2>3
    <3> QED
      BY <1>5, <2>1, <2>3, <3>1 DEF last
  <2>4. i \in 1..k \/ i = k + 1
    OBVIOUS
  <2> QED
    BY <2>2, <2>3, <2>4
<1>7. Built(h, k + 1, trees)
  BY <1>3, <1>6 DEF Built
<1> QED
  BY <1>7

LEMMA FlattenExists ==
    ASSUME NEW trees \in Seq(TagTree)
    PROVE  \E f : Flattens(f, trees)
<1> DEFINE n == Len(trees)
           S == {k \in Nat : k <= n => \E g : Built(g, k, trees)}
<1>1. n \in Nat
  OBVIOUS
<1>2. 0 \in S
  <2>1. Built([i \in 0..0 |-> << >>], 0, trees)
    BY DEF Built
  <2> QED
    BY <2>1
<1>3. ASSUME NEW k \in Nat, k \in S PROVE k + 1 \in S
  <2>1. k <= n => \E g : Built(g, k, trees)
    BY <1>3
  <2>2. k + 1 <= n => \E g : Built(g, k + 1, trees)
    <3> SUFFICES ASSUME k + 1 <= n PROVE \E g : Built(g, k + 1, trees)
      OBVIOUS
    <3>1. k <= n
      BY <1>1
    <3> QED
      BY <2>1, <3>1, BuildOne
  <2> QED
    BY <2>2
<1>4. n \in S
  <2> HIDE DEF S
  <2> QED
    BY <1>1, <1>2, <1>3, InductionOnNat
<1>5. n <= n => \E g : Built(g, n, trees)
  BY <1>4
<1>6. PICK g : Built(g, n, trees)
  BY <1>1, <1>5
<1> HIDE DEF n
<1>7. /\ g = [i \in 0..n |-> g[i]]
      /\ \A i \in 0..n : g[i] = IF i = 0 THEN << >> ELSE g[i - 1] \o trees[i].leaves
  <2>1. g = [i \in 0..n |-> g[i]]
    BY <1>6 DEF Built
  <2>2. \A i \in 0..n : i = 0 \/ i \in 1..n
    BY <1>1
  <2> QED
    BY <1>6, <2>1, <2>2 DEF Built
<1>8. g = [i \in 0..n |-> IF i = 0 THEN << >> ELSE g[i - 1] \o trees[i].leaves]
  BY <1>7
<1>9. Flattens(g, trees)
  BY <1>8 DEF Flattens, n
<1> QED
  BY <1>9

\* What Flatten returns is made by such a function.
LEMMA FlattenMade ==
    ASSUME NEW trees \in Seq(TagTree)
    PROVE  \E f : Flattens(f, trees) /\ Flatten(trees) = f[Len(trees)]
<1> DEFINE f == CHOOSE f : Flattens(f, trees)
<1>1. Flattens(f, trees)
  BY FlattenExists
<1>2. Flatten(trees) = f[Len(trees)]
  BY DEF Flatten, Flattens
<1> QED
  BY <1>1, <1>2

LEMMA FlattensAt ==
    ASSUME NEW trees \in Seq(TagTree), NEW f, Flattens(f, trees)
    PROVE  f[0] = << >> /\ \A i \in 1..Len(trees) : f[i] = f[i - 1] \o trees[i].leaves
<1>1. Len(trees) \in Nat
  OBVIOUS
<1> QED
  BY <1>1 DEF Flattens

LEMMA FlattenType ==
    ASSUME NEW trees \in Seq(TagTree)
    PROVE  Flatten(trees) \in Seq(Tag)
<1>1. PICK f : Flattens(f, trees) /\ Flatten(trees) = f[Len(trees)]
  BY FlattenMade
<1> DEFINE n == Len(trees)
           S == {k \in Nat : k <= n => f[k] \in Seq(Tag)}
<1>2. n \in Nat
  OBVIOUS
<1>3. /\ f[0] = << >>
      /\ \A i \in 1..n : f[i] = f[i - 1] \o trees[i].leaves
  BY <1>1, FlattensAt
<1>4. 0 \in S
  <2>1. f[0] \in Seq(Tag)
    BY <1>3
  <2> QED
    BY <2>1
<1>5. ASSUME NEW k \in Nat, k \in S PROVE k + 1 \in S
  <2> SUFFICES ASSUME k + 1 <= n PROVE f[k + 1] \in Seq(Tag)
    OBVIOUS
  <2>1. f[k] \in Seq(Tag) /\ k + 1 \in 1..n
    BY <1>2, <1>5
  <2>2. trees[k + 1].leaves \in Seq(Tag)
    BY <2>1, TreeFacts
  <2>3. f[k + 1] = f[k] \o trees[k + 1].leaves
    <3>1. f[k + 1] = f[(k + 1) - 1] \o trees[k + 1].leaves
      BY <1>3, <2>1
    <3>2. (k + 1) - 1 = k
      OBVIOUS
    <3> QED
      BY <3>1, <3>2
  <2> QED
    BY <2>1, <2>2, <2>3
<1> HIDE DEF S
<1>6. n \in S
  BY <1>2, <1>4, <1>5, InductionOnNat
<1> QED
  BY <1>1, <1>2, <1>6 DEF S
\* An identifier that encode_choice finds is one of the CHOICE's identifiers.
LEMMA IdentifierType ==
    ASSUME NEW t \in Type, NEW tag, Matches(t, tag) # {}
    PROVE  Identifier(t, tag) \in Name
<1> DEFINE M == Matches(t, tag)
<1>1. Variants[t] \in Seq(TagTree) /\ Names[t] \in Seq(Name)
  BY TypesAssumption
<1>2. Flatten(Variants[t]) \in Seq(Tag)
  BY <1>1, FlattenType
<1>3. M \subseteq Nat /\ \A i \in M : i \in 1..Len(Names[t])
  BY <1>1, <1>2 DEF Matches
<1>4. \E i \in M : \A j \in M : i <= j
  BY <1>3, LeastElement
<1> DEFINE k == CHOOSE i \in M : \A j \in M : i <= j
<1>5. k \in M
  BY <1>4
<1>6. Identifier(t, tag) = Names[t][k]
  BY DEF Identifier
<1> HIDE DEF k, M
<1> QED
  BY <1>1, <1>3, <1>5, <1>6

LEMMA NewFacts == New \in Encoder /\ New.root_value = Absent
BY DEF New, Encoder

\* FrameOf, for a call that finds the running encoder
LEMMA NewFrame ==
    ASSUME NEW n \in Node, NEW i \in Nat, TypeOK
    PROVE  /\ FrameOf(n, i) \in Frame
           /\ FrameOf(n, i).node = n /\ FrameOf(n, i).next = i
           /\ FrameOf(n, i).items = << >>
           /\ FrameOf(n, i).enc = Len(encoders)
           /\ FrameOf(n, i).base = Len(Top(encoders).stack)
           /\ FrameOf(n, i).maps = Len(Top(encoders).constructed_stack)
           /\ Len(encoders) >= 1
<1>1. Top(encoders) \in Encoder /\ Len(encoders) \in Nat /\ Len(encoders) >= 1
  BY TopFacts DEF TypeOK
<1>2. Len(Top(encoders).stack) \in Nat /\ Len(Top(encoders).constructed_stack) \in Nat
  BY <1>1, EncoderFacts
<1> QED
  BY <1>1, <1>2 DEF FrameOf, Frame, E

\* The documents made so far
LEMMA PutType ==
    ASSUME DOMAIN doc \subseteq Node, \A n \in DOMAIN doc : doc[n] \in Value,
           NEW n \in Node, NEW v \in Value, Put(n, v)
    PROVE  DOMAIN doc' \subseteq Node /\ \A m \in DOMAIN doc' : doc'[m] \in Value
BY DEF Put

LEMMA InitStack == Init => StackInv
<1> SUFFICES ASSUME Init PROVE StackInv
  OBVIOUS
<1>1. root \in Node /\ root # Absent
  BY NodesAssumption DEF Init
<1>2. TypeOK
  BY <1>1, NewFacts DEF Init, TypeOK
<1>3. encoders # << >> /\ Top(encoders) = New /\ Len(encoders) = 1
  BY DEF Init, Top
<1>4. Running(frames, Top(encoders), Len(encoders), cur)
  BY <1>1, <1>3 DEF Init, Running, New
<1>5. CallsOK(frames) /\ Waiting(frames, encoders)
  BY DEF Init, CallsOK, Waiting
<1> QED
  BY <1>2, <1>4, <1>5 DEF StackInv, Heights, Init
-----------------------------------------------------------------------------
(***************************************************************************)
(* The heights, action by action.                                          *)
(***************************************************************************)
\* What a step that does not fail has to show
LEMMA StackStep ==
    ASSUME StackInv, UNCHANGED <<codec, root>>, res = "run", res' = "run",
           cur' \in Node \cup {Absent}, frames' \in Seq(Frame),
           encoders' \in Seq(Encoder), encoders' # << >>,
           DOMAIN doc' \subseteq Node, \A n \in DOMAIN doc' : doc'[n] \in Value,
           Heights(frames', encoders', cur')
    PROVE  StackInv'
<1>1. TypeOK'
  BY DEF StackInv, TypeOK
<1>2. root' = root
  OBVIOUS
<1>3. Heights(frames, encoders, cur)'
  BY <1>2 DEF Heights, CallsOK, Running, Waiting, Top, FrameOK, Calls, Under, AtEnc, AtBase,
              AtMaps, IsList, Left, KindOf, Pending
<1> QED
  BY <1>1, <1>3 DEF StackInv

\* A call under way that goes on
LEMMA ResumeFacts ==
    ASSUME StackInv, NEW kinds, Resume(kinds)
    PROVE  /\ frames \in Seq(Frame) /\ frames # << >> /\ cur = Absent
           /\ encoders \in Seq(Encoder) /\ encoders # << >>
           /\ F = Top(frames) /\ F \in Frame /\ FrameOK(F) /\ KindOf(F.node) \in kinds
           /\ F.node \in Node
           /\ E = Top(encoders) /\ E \in Encoder
           /\ CallsOK(frames) /\ Waiting(frames, encoders)
           /\ Len(encoders) = AtEnc(F) /\ Len(E.stack) = AtBase(F, 0)
           /\ Len(E.constructed_stack) = AtMaps(F)
           /\ IsList(F) /\ F.next > 1 => E.root_value = Child[F.node][F.next - 1]
<1>1. /\ frames \in Seq(Frame) /\ frames # << >> /\ cur = Absent
      /\ encoders \in Seq(Encoder) /\ encoders # << >> /\ KindOf(F.node) \in kinds
  BY DEF StackInv, TypeOK, Resume
<1>2. /\ CallsOK(frames) /\ Waiting(frames, encoders)
      /\ Running(frames, Top(encoders), Len(encoders), Absent)
  BY <1>1 DEF StackInv, Heights
<1>3. F = Top(frames) /\ E = Top(encoders)
  BY DEF F, E
<1>4. F \in Frame /\ FrameOK(F) /\ E \in Encoder
  BY <1>1, <1>2, <1>3, TopFrame, TopFacts
<1>5. F.node \in Node
  BY <1>4, FrameFacts
<1>6. /\ Len(encoders) = AtEnc(F) /\ Len(E.stack) = AtBase(F, 0)
      /\ Len(E.constructed_stack) = AtMaps(F)
      /\ IsList(F) /\ F.next > 1 => E.root_value = Child[F.node][F.next - 1]
  BY <1>1, <1>2, <1>3 DEF Running, Pending
<1> QED
  BY <1>1, <1>2, <1>3, <1>4, <1>5, <1>6

LEMMA CallTypes ==
    ASSUME StackInv, NEW kinds, Call(kinds)
    PROVE  /\ frames \in Seq(Frame) /\ encoders \in Seq(Encoder) /\ encoders # << >>
           /\ cur \in Node /\ KindOf(cur) \in kinds /\ res = "run"
           /\ E = Top(encoders) /\ E \in Encoder
           /\ Heights(frames, encoders, cur)
<1>1. /\ frames \in Seq(Frame) /\ encoders \in Seq(Encoder) /\ encoders # << >>
      /\ cur \in Node /\ KindOf(cur) \in kinds /\ res = "run"
      /\ Heights(frames, encoders, cur)
  BY DEF StackInv, TypeOK, Call
<1>2. E = Top(encoders) /\ E \in Encoder
  BY <1>1, TopFacts DEF E
<1> QED
  BY <1>1, <1>2

LEMMA EmptyMapType == EmptyMap \in Map
BY DEF EmptyMap, Map

\* Update, where the heights are right
LEMMA UpdateStep ==
    ASSUME NEW fr \in Seq(Frame), NEW es \in Seq(Encoder), es # << >>, NEW n \in Node,
           Heights(fr, es, n), res = "run", Update(es, n)
    PROVE  /\ encoders' = Replaced(es, Updated(Top(es), n)) /\ res' = "run"
           /\ encoders' \in Seq(Encoder) /\ encoders' # << >>
           /\ Heights(fr, encoders', Absent)
<1>1. encoders' = Replaced(es, Updated(Top(es), n))
  BY DEF Update, Replaced, Top
<1>2. /\ ~Mismatch(Top(es))
      /\ Replaced(es, Updated(Top(es), n)) \in Seq(Encoder)
      /\ Replaced(es, Updated(Top(es), n)) # << >>
      /\ Heights(fr, Replaced(es, Updated(Top(es), n)), Absent)
  BY FinishValue
<1>3. res' = "run"
  BY <1>2 DEF Update
<1> QED
  BY <1>1, <1>2, <1>3

LEMMA DocTypes ==
    ASSUME StackInv PROVE DOMAIN doc \subseteq Node /\ \A n \in DOMAIN doc : doc[n] \in Value
BY DEF StackInv, TypeOK

LEMMA EncodePrimitiveStack == StackInv /\ EncodePrimitive => StackInv'
<1> SUFFICES ASSUME StackInv, EncodePrimitive PROVE StackInv'
  OBVIOUS
<1>1. /\ frames \in Seq(Frame) /\ encoders \in Seq(Encoder) /\ encoders # << >>
      /\ cur \in Node /\ res = "run" /\ Heights(frames, encoders, cur)
  BY CallTypes DEF EncodePrimitive
<1>2. encoders' \in Seq(Encoder) /\ encoders' # << >> /\ res' = "run"
      /\ Heights(frames, encoders', Absent)
  BY <1>1, UpdateStep DEF EncodePrimitive
<1>3. [kind |-> "primitive", map |-> EmptyMap, items |-> << >>] \in Value
  BY EmptyMapType DEF Value
<1>4. DOMAIN doc' \subseteq Node /\ \A n \in DOMAIN doc' : doc'[n] \in Value
  BY <1>1, <1>3, DocTypes, PutType DEF EncodePrimitive
<1>5. frames' = frames /\ cur' = Absent /\ UNCHANGED <<codec, root>>
  BY DEF EncodePrimitive
<1> QED
  BY <1>1, <1>2, <1>4, <1>5, StackStep

\* The end of encode_sequence and encode_choice
LEMMA CloseStack ==
    ASSUME StackInv, NEW kinds, Resume(kinds), ~IsList(F), Left(F) = 0,
           NEW v \in Value, Close(v)
    PROVE  StackInv'
<1>1. /\ frames \in Seq(Frame) /\ frames # << >> /\ cur = Absent
      /\ encoders \in Seq(Encoder) /\ encoders # << >>
      /\ F = Top(frames) /\ F \in Frame /\ FrameOK(F) /\ F.node \in Node
      /\ E = Top(encoders) /\ E \in Encoder
      /\ CallsOK(frames) /\ Waiting(frames, encoders)
      /\ Len(encoders) = AtEnc(F) /\ Len(E.stack) = AtBase(F, 0)
      /\ Len(E.constructed_stack) = AtMaps(F)
  BY ResumeFacts
<1>2. F.enc \in Nat /\ F.base \in Nat /\ F.maps \in Nat
  BY <1>1, FrameFacts
<1>3. /\ Len(encoders) = F.enc /\ Len(E.stack) = F.base
      /\ Len(E.constructed_stack) = F.maps + 1
  BY <1>1, <1>2 DEF AtEnc, AtBase, AtMaps
<1> DEFINE e == [E EXCEPT !.constructed_stack = Front(@)]
           es == Replaced(encoders, e)
<1>4. E.constructed_stack \in Seq(Map) /\ E.constructed_stack # << >>
  BY <1>1, <1>2, <1>3, EncoderFacts
<1>5. Front(E.constructed_stack) \in Seq(Map) /\ Len(Front(E.constructed_stack)) = F.maps
  BY <1>2, <1>3, <1>4, FrontFacts
<1>6. e \in Encoder /\ Len(e.stack) = F.base /\ Len(e.constructed_stack) = F.maps
  BY <1>1, <1>3, <1>5 DEF Encoder
<1> HIDE DEF e
<1>7. /\ Front(frames) \in Seq(Frame) /\ es \in Seq(Encoder) /\ es # << >>
      /\ Heights(Front(frames), es, F.node)
  BY <1>1, <1>3, <1>6, CloseHeights
<1>8. /\ frames' = Front(frames) /\ Put(F.node, v) /\ Update(es, F.node)
      /\ UNCHANGED <<codec, root, cur>>
  BY <1>1, <1>4 DEF Close, Return, Replaced, Top, e
<1> HIDE DEF es
<1>9. res = "run"
  BY DEF Resume
<1>10. /\ encoders' \in Seq(Encoder) /\ encoders' # << >> /\ res' = "run"
       /\ Heights(Front(frames), encoders', Absent)
  BY <1>1, <1>7, <1>8, <1>9, UpdateStep
<1>11. DOMAIN doc' \subseteq Node /\ \A n \in DOMAIN doc' : doc'[n] \in Value
  BY <1>1, <1>8, DocTypes, PutType
<1> QED
  BY <1>1, <1>7, <1>8, <1>9, <1>10, <1>11, StackStep

LEMMA CloseSequenceStack == StackInv /\ CloseSequence => StackInv'
<1> SUFFICES ASSUME StackInv, CloseSequence PROVE StackInv'
  OBVIOUS
<1>1. /\ Resume(Constructed) /\ F.next > Len(Child[F.node])
      /\ Close([kind |-> "object", map |-> Top(E.constructed_stack), items |-> << >>])
  BY DEF CloseSequence
<1>2. /\ F \in Frame /\ FrameOK(F) /\ KindOf(F.node) \in Constructed /\ E \in Encoder
      /\ Len(E.constructed_stack) = AtMaps(F)
  BY <1>1, ResumeFacts
<1>3. ~IsList(F)
  BY <1>2 DEF IsList, Constructed
<1>4. Left(F) = 0
  <2>1. F.next \in Nat /\ Len(Child[F.node]) \in Nat /\ Left(F) \in Nat
    BY <1>2, CallFacts
  <2> QED
    BY <1>1, <2>1 DEF Left
<1>5. [kind |-> "object", map |-> Top(E.constructed_stack), items |-> << >>] \in Value
  <2>1. E.constructed_stack \in Seq(Map) /\ F.maps \in Nat
    BY <1>2, EncoderFacts, FrameFacts
  <2>2. E.constructed_stack # << >>
    BY <1>2, <1>3, <2>1 DEF AtMaps
  <2>3. Top(E.constructed_stack) \in Map
    BY <2>1, <2>2, TopFacts
  <2> QED
    BY <2>3 DEF Value
<1> QED
  BY <1>1, <1>3, <1>4, <1>5, CloseStack

LEMMA ChoiceMapType ==
    ASSUME NEW n, NEW map \in Map
    PROVE  ChoiceMap(n, map) \in Map
<1> DEFINE stored == {nm \in Name : map[nm] # Absent}
<1>1. stored # {} => map[CHOOSE s \in stored : TRUE] \in Node \cup {Absent}
  BY DEF Map
<1> QED
  BY <1>1 DEF ChoiceMap, Map

LEMMA CloseChoiceStack == StackInv /\ CloseChoice => StackInv'
<1> SUFFICES ASSUME StackInv, CloseChoice PROVE StackInv'
  OBVIOUS
<1> DEFINE v == [kind |-> IF codec = "jer" THEN "object" ELSE "choice",
                 map |-> ChoiceMap(F.node, Top(E.constructed_stack)), items |-> << >>]
<1>1. Resume({"choice"}) /\ Close(v)
  BY DEF CloseChoice
<1>2. /\ F \in Frame /\ FrameOK(F) /\ KindOf(F.node) = "choice" /\ E \in Encoder
      /\ Len(E.constructed_stack) = AtMaps(F) /\ F.node \in Node
  BY <1>1, ResumeFacts
<1>3. ~IsList(F)
  BY <1>2 DEF IsList
<1>4. Left(F) = 0
  <2>1. F.next = 2
    BY <1>2 DEF FrameOK
  <2>2. Len(Child[F.node]) = 1
    BY <1>2, NodeFacts
  <2> QED
    BY <2>1, <2>2 DEF Left
<1>5. v \in Value
  <2>1. E.constructed_stack \in Seq(Map) /\ F.maps \in Nat
    BY <1>2, EncoderFacts, FrameFacts
  <2>2. E.constructed_stack # << >>
    BY <1>2, <1>3, <2>1 DEF AtMaps
  <2>3. Top(E.constructed_stack) \in Map
    BY <2>1, <2>2, TopFacts
  <2>4. ChoiceMap(F.node, Top(E.constructed_stack)) \in Map
    BY <2>3, ChoiceMapType
  <2> QED
    BY <2>4 DEF Value
<1> HIDE DEF v
<1> QED
  BY <1>1, <1>3, <1>4, <1>5, CloseStack
LEMMA ReversedFacts ==
    ASSUME NEW S, NEW s \in Seq(S)
    PROVE  /\ Reversed(s) \in Seq(S) /\ Len(Reversed(s)) = Len(s)
           /\ \A i \in 1..Len(s) : Reversed(s)[i] = s[Len(s) + 1 - i]
BY DEF Reversed

LEMMA EncodeSequenceStack == StackInv /\ EncodeSequence => StackInv'
<1> SUFFICES ASSUME StackInv, EncodeSequence PROVE StackInv'
  OBVIOUS
<1>1. /\ frames \in Seq(Frame) /\ encoders \in Seq(Encoder) /\ encoders # << >>
      /\ cur \in Node /\ KindOf(cur) \in Constructed /\ res = "run"
      /\ E = Top(encoders) /\ E \in Encoder /\ Heights(frames, encoders, cur)
  BY CallTypes DEF EncodeSequence
<1> DEFINE g == FrameOf(cur, 1)
           names == Reversed(NamesOf(cur))
           e == [E EXCEPT !.stack = @ \o names, !.constructed_stack = Append(@, EmptyMap)]
<1>2. /\ g \in Frame /\ g.node = cur /\ g.next = 1 /\ g.enc = Len(encoders)
      /\ g.base = Len(E.stack) /\ g.maps = Len(E.constructed_stack) /\ Len(encoders) >= 1
  BY <1>1, NewFrame DEF StackInv
<1>3. names \in Seq(Name) /\ Len(names) = Len(Child[cur]) /\ Len(Child[cur]) \in Nat
  BY <1>1, NodeFacts, ReversedFacts
<1>4. e \in Encoder /\ Len(e.stack) = g.base + Len(Child[cur])
      /\ Len(e.constructed_stack) = g.maps + 1
  <2> HIDE DEF g, names
  <2>1. E.stack \in Seq(Name) /\ E.constructed_stack \in Seq(Map)
    BY <1>1, EncoderFacts
  <2>2. E.stack \o names \in Seq(Name) /\ Len(E.stack \o names) = Len(E.stack) + Len(names)
    <3> DEFINE s == E.stack
    <3>1. s \in Seq(Name)
      BY <2>1
    <3> HIDE DEF s
    <3>2. s \o names \in Seq(Name) /\ Len(s \o names) = Len(s) + Len(names)
      BY <1>3, <3>1
    <3> QED
      BY <3>2 DEF s
  <2>3. /\ Append(E.constructed_stack, EmptyMap) \in Seq(Map)
        /\ Len(Append(E.constructed_stack, EmptyMap)) = Len(E.constructed_stack) + 1
    BY <2>1, EmptyMapType
  <2>4. /\ e \in Encoder /\ e.stack = E.stack \o names
        /\ e.constructed_stack = Append(E.constructed_stack, EmptyMap)
    BY <1>1, <2>2, <2>3 DEF Encoder
  <2> QED
    BY <1>2, <1>3, <2>2, <2>3, <2>4
<1>5. FrameOK(g) /\ ~IsList(g) /\ Left(g) = Len(Child[cur])
  <2> HIDE DEF g
  <2> QED
    BY <1>1, <1>2, <1>3 DEF FrameOK, IsList, Left, Constructed
<1>6. encoders' = Replaced(encoders, e) /\ frames' = Append(frames, g) /\ cur' = Absent
      /\ UNCHANGED <<codec, root, doc, res>>
  <2>3. encoders' = Replaced(encoders, e)
    BY DEF EncodeSequence, Replaced
  <2> QED
    BY <2>3 DEF EncodeSequence
<1>7. Len(e.stack) = g.base + Left(g) + Pending(Absent)
  <2>1. g.base \in Nat /\ Pending(Absent) = 0
    BY <1>2, FrameFacts DEF Pending
  <2> HIDE DEF g, e
  <2> QED
    BY <1>3, <1>4, <1>5, <2>1
<1> HIDE DEF g, e
<1>8. /\ frames' \in Seq(Frame) /\ encoders' \in Seq(Encoder) /\ encoders' # << >>
      /\ Heights(frames', encoders', Absent)
  BY <1>1, <1>2, <1>4, <1>5, <1>6, <1>7, OpenHeights
<1> QED
  BY <1>1, <1>6, <1>8, DocTypes, StackStep

LEMMA EncodeChoiceStack == StackInv /\ EncodeChoice => StackInv'
<1> SUFFICES ASSUME StackInv, EncodeChoice PROVE StackInv'
  OBVIOUS
<1>1. /\ frames \in Seq(Frame) /\ encoders \in Seq(Encoder) /\ encoders # << >>
      /\ cur \in Node /\ KindOf(cur) = "choice" /\ res = "run"
      /\ E = Top(encoders) /\ E \in Encoder /\ Heights(frames, encoders, cur)
  BY CallTypes DEF EncodeChoice
<1> DEFINE g == FrameOf(cur, 2)
           id == Identifier(TypeOf[cur], TagOf(cur))
           e == [E EXCEPT !.stack = Append(@, id), !.constructed_stack = Append(@, EmptyMap)]
           c == Child[cur][1]
<1>2. /\ g \in Frame /\ g.node = cur /\ g.next = 2 /\ g.enc = Len(encoders)
      /\ g.base = Len(E.stack) /\ g.maps = Len(E.constructed_stack) /\ Len(encoders) >= 1
  BY <1>1, NewFrame DEF StackInv
<1>3. Len(Child[cur]) = 1 /\ c \in Node /\ TypeOf[cur] \in Type
  BY <1>1, NodeFacts
<1>3a. id \in Name
  BY <1>3, IdentifierType DEF EncodeChoice
<1>4. e \in Encoder /\ Len(e.stack) = g.base + 1 /\ Len(e.constructed_stack) = g.maps + 1
  <2> HIDE DEF g, id
  <2>1. E.stack \in Seq(Name) /\ E.constructed_stack \in Seq(Map)
    BY <1>1, EncoderFacts
  <2>2. Append(E.stack, id) \in Seq(Name) /\ Len(Append(E.stack, id)) = Len(E.stack) + 1
    BY <1>3a, <2>1
  <2>3. /\ Append(E.constructed_stack, EmptyMap) \in Seq(Map)
        /\ Len(Append(E.constructed_stack, EmptyMap)) = Len(E.constructed_stack) + 1
    BY <2>1, EmptyMapType
  <2>4. /\ e \in Encoder /\ e.stack = Append(E.stack, id)
        /\ e.constructed_stack = Append(E.constructed_stack, EmptyMap)
    BY <1>1, <2>2, <2>3 DEF Encoder
  <2> QED
    BY <1>2, <2>2, <2>3, <2>4
<1>5. FrameOK(g) /\ ~IsList(g) /\ Left(g) = 0
  <2>1. Matches(TypeOf[cur], TagOf(cur)) # {}
    BY DEF EncodeChoice
  <2> HIDE DEF g
  <2> QED
    BY <1>1, <1>2, <1>3, <2>1 DEF FrameOK, IsList, Left
<1>6. /\ encoders' = Replaced(encoders, e) /\ frames' = Append(frames, g) /\ cur' = c
      /\ UNCHANGED <<codec, root, doc, res>>
  <2>3. encoders' = Replaced(encoders, e)
    BY DEF EncodeChoice, Replaced
  <2> QED
    BY <2>3 DEF EncodeChoice
<1>7. c # Absent /\ Len(e.stack) = g.base + Left(g) + Pending(c)
  <2>1. g.base \in Nat /\ c # Absent /\ Pending(c) = 1
    BY <1>2, <1>3, FrameFacts, NodesAssumption DEF Pending
  <2> HIDE DEF g, e
  <2> QED
    BY <1>4, <1>5, <2>1
<1> HIDE DEF g, e
<1>8. g.next > 1 /\ c = Child[g.node][g.next - 1]
  BY <1>2
<1> HIDE DEF c
<1>9. /\ frames' \in Seq(Frame) /\ encoders' \in Seq(Encoder) /\ encoders' # << >>
      /\ Heights(frames', encoders', c)
  BY <1>1, <1>2, <1>4, <1>5, <1>6, <1>7, <1>8, OpenHeights
<1> QED
  BY <1>1, <1>3, <1>6, <1>9, DocTypes, StackStep

LEMMA EncodeListStack == StackInv /\ EncodeList => StackInv'
<1> SUFFICES ASSUME StackInv, EncodeList PROVE StackInv'
  OBVIOUS
<1>1. /\ frames \in Seq(Frame) /\ encoders \in Seq(Encoder) /\ encoders # << >>
      /\ cur \in Node /\ KindOf(cur) = "list" /\ res = "run"
      /\ E = Top(encoders) /\ E \in Encoder /\ Heights(frames, encoders, cur)
  BY CallTypes DEF EncodeList
<1> DEFINE g == FrameOf(cur, 1)
<1>2. /\ g \in Frame /\ g.node = cur /\ g.next = 1 /\ g.enc = Len(encoders)
      /\ g.base = Len(E.stack) /\ g.maps = Len(E.constructed_stack) /\ Len(encoders) >= 1
  BY <1>1, NewFrame DEF StackInv
<1>3. /\ frames' = Append(frames, g) /\ encoders' = Append(encoders, New) /\ cur' = Absent
      /\ UNCHANGED <<codec, root, doc, res>>
  BY DEF EncodeList
<1> HIDE DEF g
<1>4. FrameOK(g) /\ IsList(g)
  BY <1>1, <1>2, NodeFacts DEF FrameOK, IsList
<1>5. /\ frames' \in Seq(Frame) /\ encoders' \in Seq(Encoder) /\ encoders' # << >>
      /\ Heights(frames', encoders', Absent)
  BY <1>1, <1>2, <1>3, <1>4, NewFacts, OpenListHeights
<1> QED
  BY <1>1, <1>3, <1>5, DocTypes, StackStep

\* A frame moved on to its next component
LEMMA AdvancedFrame ==
    ASSUME NEW f \in Frame, FrameOK(f), f.next <= Len(Child[f.node]), KindOf(f.node) # "choice",
           NEW g \in Frame, g.node = f.node, g.next = f.next + 1, g.enc = f.enc
    PROVE  /\ FrameOK(g) /\ f.next \in Nat
           /\ g.next > 1 /\ g.next - 1 = f.next /\ f.next \in 1..Len(Child[f.node])
           /\ Left(g) = Left(f) - 1 /\ IsList(g) = IsList(f)
<1>1. /\ f.next \in Nat /\ f.next >= 1 /\ Len(Child[f.node]) \in Nat /\ Left(f) \in Nat
      /\ f.next = Len(Child[f.node]) + 1 - Left(f)
  BY CallFacts
<1>3. /\ g.next > 1 /\ g.next - 1 = f.next /\ f.next \in 1..Len(Child[f.node])
      /\ g.next \in 1..(Len(Child[f.node]) + 1)
  BY <1>1
<1>4. FrameOK(g)
  <2>1. g.enc >= 1
    BY DEF FrameOK
  <2> QED
    BY <1>3, <2>1 DEF FrameOK
<1>5. Left(g) = Left(f) - 1 /\ IsList(g) = IsList(f)
  BY <1>1 DEF Left, IsList
<1> QED
  BY <1>1, <1>3, <1>4, <1>5

LEMMA ReplaceSame ==
    ASSUME NEW S, NEW s \in Seq(S), s # << >>
    PROVE  Replaced(s, Top(s)) = s
BY DEF Replaced, Top

\* The frame that Advance leaves
Advanced == [F EXCEPT !.next = @ + 1]

LEMMA AdvancedFacts ==
    ASSUME StackInv, Resume(Constructed), F.next <= Len(Child[F.node]), Advance
    PROVE  /\ frames' = Replaced(frames, Advanced)
           /\ Advanced \in Frame /\ FrameOK(Advanced) /\ Advanced.node = F.node
           /\ Advanced.next = F.next + 1 /\ Advanced.items = F.items
           /\ Advanced.enc = F.enc /\ Advanced.base = F.base /\ Advanced.maps = F.maps
           /\ Advanced.next > 1 /\ Advanced.next - 1 = F.next
           /\ F.next \in 1..Len(Child[F.node])
           /\ Left(Advanced) = Left(F) - 1 /\ Left(F) \in Nat /\ Left(F) >= 1
           /\ ~IsList(Advanced) /\ ~IsList(F)
<1>1. /\ F \in Frame /\ FrameOK(F) /\ F = Top(frames) /\ KindOf(F.node) \in Constructed
      /\ frames \in Seq(Frame) /\ frames # << >>
  BY ResumeFacts
<1>2. F.items \in Seq(Node)
  BY <1>1, FrameFacts
<1>3. /\ Advanced \in Frame /\ FrameOK(Advanced) /\ Advanced.node = F.node
      /\ Advanced.next = F.next + 1 /\ Advanced.items = F.items
      /\ Advanced.enc = F.enc /\ Advanced.base = F.base /\ Advanced.maps = F.maps
      /\ Advanced.next > 1 /\ Advanced.next - 1 = F.next
      /\ F.next \in 1..Len(Child[F.node])
      /\ Left(Advanced) = Left(F) - 1 /\ IsList(Advanced) = IsList(F)
  <2>1. F.next + 1 \in Nat
    BY <1>1, FrameFacts
  <2>2. /\ Advanced \in Frame /\ Advanced.node = F.node /\ Advanced.next = F.next + 1
        /\ Advanced.items = F.items /\ Advanced.enc = F.enc
        /\ Advanced.base = F.base /\ Advanced.maps = F.maps
    BY <1>1, <2>1 DEF Advanced, Frame
  <2>3. KindOf(F.node) # "choice"
    BY <1>1 DEF Constructed
  <2> QED
    BY <1>1, <2>2, <2>3, AdvancedFrame
<1>4. Left(F) \in Nat /\ Left(F) >= 1
  <2>1. /\ Left(F) \in Nat /\ Len(Child[F.node]) \in Nat /\ F.next \in Nat
        /\ F.next = Len(Child[F.node]) + 1 - Left(F)
    BY <1>1, CallFacts
  <2> QED
    BY <2>1
<1>5. ~IsList(F)
  BY <1>1 DEF IsList, Constructed
<1>6. frames' = Replaced(frames, Advanced)
  <2>1. Advanced = [F EXCEPT !.next = @ + 1]
    BY DEF Advanced
  <2>2. frames' = [frames EXCEPT ![Len(frames)] = [F EXCEPT !.next = @ + 1]]
    BY <1>1 DEF Advance, Top
  <2> QED
    BY <2>1, <2>2 DEF Replaced
<1> QED
  BY <1>3, <1>4, <1>5, <1>6

LEMMA EncodeFieldStack == StackInv /\ EncodeField => StackInv'
<1> SUFFICES ASSUME StackInv, EncodeField PROVE StackInv'
  OBVIOUS
<1>0. /\ Resume(Constructed) /\ F.next <= Len(Child[F.node]) /\ Advance /\ res = "run"
      /\ cur' = Child[F.node][F.next] /\ cur' # Absent
      /\ UNCHANGED <<codec, root, encoders, doc, res>>
  BY DEF EncodeField, Resume
<1>1. /\ frames \in Seq(Frame) /\ frames # << >>
      /\ encoders \in Seq(Encoder) /\ encoders # << >>
      /\ F = Top(frames) /\ F \in Frame /\ FrameOK(F) /\ F.node \in Node
      /\ E = Top(encoders) /\ E \in Encoder
      /\ CallsOK(frames) /\ Waiting(frames, encoders)
      /\ Len(encoders) = AtEnc(F) /\ Len(E.stack) = AtBase(F, 0)
      /\ Len(E.constructed_stack) = AtMaps(F)
  BY <1>0, ResumeFacts
<1> DEFINE g == Advanced
           c == Child[F.node][F.next]
<1>2. /\ frames' = Replaced(frames, g) /\ g \in Frame /\ FrameOK(g) /\ g.node = F.node
      /\ g.enc = F.enc /\ g.base = F.base /\ g.maps = F.maps
      /\ g.next > 1 /\ g.next - 1 = F.next /\ F.next \in 1..Len(Child[F.node])
      /\ Left(g) = Left(F) - 1 /\ Left(F) \in Nat /\ ~IsList(g) /\ ~IsList(F)
  BY <1>0, AdvancedFacts
<1> HIDE DEF g
<1>3. c \in Node /\ c # Absent
  BY <1>0, <1>1, <1>2, NodeFacts
<1>4. Len(encoders) = AtEnc(g) /\ Len(E.stack) = AtBase(g, Pending(c))
      /\ Len(E.constructed_stack) = AtMaps(g)
  <2>1. F.base \in Nat
    BY <1>1, FrameFacts
  <2>2. Pending(c) = 1
    BY <1>3 DEF Pending
  <2>3. F.base + Left(F) + 0 = F.base + Left(g) + 1
    BY <1>2, <2>1
  <2> HIDE DEF c
  <2> QED
    BY <1>1, <1>2, <2>2, <2>3 DEF AtEnc, AtBase, AtMaps
<1>5. c = Child[g.node][g.next - 1]
  BY <1>2
<1>6. Replaced(encoders, E) = encoders
  BY <1>1, ReplaceSame
<1>7. cur' = c
  BY <1>0
<1> HIDE DEF c
<1>8. frames' \in Seq(Frame) /\ Heights(frames', encoders, c)
  BY <1>1, <1>2, <1>3, <1>4, <1>5, <1>6, AdvanceHeights
<1> QED
  BY <1>0, <1>1, <1>3, <1>7, <1>8, DocTypes, StackStep
\* encode_none takes the name of the field off the stack.
LEMMA EncodeNoneFacts ==
    ASSUME StackInv, EncodeNone
    PROVE  LET e == [E EXCEPT !.stack = Front(@)]
           IN  /\ encoders' = Replaced(encoders, e) /\ e \in Encoder
               /\ E.stack \in Seq(Name) /\ E.stack # << >>
               /\ e.stack = Front(E.stack) /\ e.constructed_stack = E.constructed_stack
               /\ Len(e.stack) = Len(E.stack) - 1
<1> DEFINE e == [E EXCEPT !.stack = Front(@)]
<1>0. Resume(Constructed) /\ F.next <= Len(Child[F.node]) /\ Advance
  BY DEF EncodeNone
<1>1. /\ E = Top(encoders) /\ E \in Encoder /\ F \in Frame
      /\ encoders \in Seq(Encoder) /\ encoders # << >> /\ Len(E.stack) = AtBase(F, 0)
  BY <1>0, ResumeFacts
<1>2. Left(F) \in Nat /\ Left(F) >= 1 /\ ~IsList(F) /\ F.base \in Nat
  BY <1>0, <1>1, AdvancedFacts, FrameFacts
<1>3. E.stack \in Seq(Name)
  BY <1>1, EncoderFacts
<1>4. E.stack # << >>
  BY <1>1, <1>2, <1>3 DEF AtBase
<1>5. Front(E.stack) \in Seq(Name) /\ Len(Front(E.stack)) = Len(E.stack) - 1
  BY <1>3, <1>4, FrontFacts
<1>6. e \in Encoder /\ e.stack = Front(E.stack) /\ e.constructed_stack = E.constructed_stack
  BY <1>1, <1>5 DEF Encoder
<1>7. encoders' = Replaced(encoders, e)
  <2>1. E = encoders[Len(encoders)]
    BY DEF E, Top
  <2> QED
    BY <1>4, <2>1 DEF EncodeNone, Replaced
<1> QED
  BY <1>3, <1>4, <1>5, <1>6, <1>7

LEMMA EncodeNoneStack == StackInv /\ EncodeNone => StackInv'
<1> SUFFICES ASSUME StackInv, EncodeNone PROVE StackInv'
  OBVIOUS
<1>0. /\ Resume(Constructed) /\ F.next <= Len(Child[F.node]) /\ Advance /\ res = "run"
      /\ UNCHANGED <<codec, root, cur, doc, res>>
  BY DEF EncodeNone, Resume
<1>1. /\ frames \in Seq(Frame) /\ frames # << >> /\ cur = Absent
      /\ encoders \in Seq(Encoder) /\ encoders # << >>
      /\ F = Top(frames) /\ F \in Frame /\ FrameOK(F) /\ F.node \in Node
      /\ E = Top(encoders) /\ E \in Encoder
      /\ CallsOK(frames) /\ Waiting(frames, encoders)
      /\ Len(encoders) = AtEnc(F) /\ Len(E.stack) = AtBase(F, 0)
      /\ Len(E.constructed_stack) = AtMaps(F)
  BY <1>0, ResumeFacts
<1> DEFINE g == Advanced
           e == [E EXCEPT !.stack = Front(@)]
<1>2. /\ frames' = Replaced(frames, g) /\ g \in Frame /\ FrameOK(g) /\ g.node = F.node
      /\ g.enc = F.enc /\ g.base = F.base /\ g.maps = F.maps
      /\ Left(g) = Left(F) - 1 /\ Left(F) \in Nat /\ ~IsList(g) /\ ~IsList(F)
  BY <1>0, AdvancedFacts
<1> HIDE DEF g
<1>3. /\ encoders' = Replaced(encoders, e) /\ e \in Encoder
      /\ e.constructed_stack = E.constructed_stack
      /\ Len(e.stack) = Len(E.stack) - 1
  BY EncodeNoneFacts
<1> HIDE DEF e
<1>4. Len(encoders) = AtEnc(g) /\ Len(e.stack) = AtBase(g, Pending(Absent))
      /\ Len(e.constructed_stack) = AtMaps(g)
  <2>1. F.base \in Nat /\ Pending(Absent) = 0
    BY <1>1, FrameFacts DEF Pending
  <2>2. F.base + Left(F) + 0 - 1 = F.base + Left(g) + 0
    BY <1>2, <2>1
  <2> QED
    BY <1>1, <1>2, <1>3, <2>1, <2>2 DEF AtEnc, AtBase, AtMaps
<1>5. /\ frames' \in Seq(Frame) /\ encoders' \in Seq(Encoder) /\ encoders' # << >>
      /\ Heights(frames', encoders', Absent)
  BY <1>1, <1>2, <1>3, <1>4, AdvanceHeights
<1> QED
  BY <1>0, <1>1, <1>5, DocTypes, StackStep

\* An item of a list that was encoded is the root value of its encoder.
LEMMA ItemFacts ==
    ASSUME StackInv, Resume({"list"})
    PROVE  /\ IsList(F) /\ ~NoRoot /\ Folded \in Seq(Node)
           /\ F.next > 1 => E.root_value = Child[F.node][F.next - 1] /\ E.root_value \in Node
<1>1. /\ F \in Frame /\ FrameOK(F) /\ F.node \in Node /\ KindOf(F.node) = "list"
      /\ IsList(F) /\ F.next > 1 => E.root_value = Child[F.node][F.next - 1]
  BY ResumeFacts
<1>2. IsList(F)
  BY <1>1 DEF IsList
<1>3. F.next \in Nat /\ F.items \in Seq(Node)
  BY <1>1, FrameFacts
<1>4. ASSUME F.next > 1 PROVE E.root_value \in Node
  <2>1. F.next - 1 \in 1..Len(Child[F.node])
    BY <1>1, <1>3, <1>4, NodeFacts DEF FrameOK
  <2> QED
    BY <1>1, <1>2, <1>4, <2>1, NodeFacts
<1>5. ~NoRoot
  BY <1>4, NodesAssumption DEF NoRoot
<1>6. Folded \in Seq(Node)
  <2>1. CASE F.next = 1
    BY <1>3, <2>1 DEF Folded
  <2>2. CASE F.next # 1
    <3>1. F.next > 1
      BY <1>1, <2>2, CallFacts
    <3> QED
      BY <1>3, <1>4, <2>2, <3>1, AppendFacts DEF Folded
  <2> QED
    BY <2>1, <2>2
<1> QED
  BY <1>1, <1>2, <1>4, <1>5, <1>6

ItemFrame == [F EXCEPT !.next = @ + 1, !.items = Folded]

LEMMA ItemFrameFacts ==
    ASSUME StackInv, EncodeItem
    PROVE  /\ frames' = Replaced(frames, ItemFrame)
           /\ ItemFrame \in Frame /\ FrameOK(ItemFrame) /\ ItemFrame.node = F.node
           /\ ItemFrame.next = F.next + 1 /\ ItemFrame.items = Folded
           /\ ItemFrame.enc = F.enc /\ ItemFrame.base = F.base /\ ItemFrame.maps = F.maps
           /\ ItemFrame.next > 1 /\ ItemFrame.next - 1 = F.next
           /\ F.next \in 1..Len(Child[F.node])
           /\ IsList(ItemFrame) /\ IsList(F)
<1>0. Resume({"list"}) /\ F.next <= Len(Child[F.node])
  BY DEF EncodeItem
<1>1. /\ F \in Frame /\ FrameOK(F) /\ KindOf(F.node) = "list"
  BY <1>0, ResumeFacts
<1>2. IsList(F) /\ Folded \in Seq(Node) /\ F.next + 1 \in Nat
  BY <1>0, <1>1, ItemFacts, FrameFacts
<1>3. /\ ItemFrame \in Frame /\ ItemFrame.node = F.node
      /\ ItemFrame.next = F.next + 1 /\ ItemFrame.items = Folded
      /\ ItemFrame.enc = F.enc /\ ItemFrame.base = F.base /\ ItemFrame.maps = F.maps
  BY <1>1, <1>2 DEF ItemFrame, Frame
<1>4. /\ FrameOK(ItemFrame) /\ ItemFrame.next > 1 /\ ItemFrame.next - 1 = F.next
      /\ F.next \in 1..Len(Child[F.node]) /\ IsList(ItemFrame)
  BY <1>0, <1>1, <1>2, <1>3, AdvancedFrame
<1>5. frames' = Replaced(frames, ItemFrame)
  BY DEF EncodeItem, ItemFrame, Replaced
<1> QED
  BY <1>2, <1>3, <1>4, <1>5

LEMMA EncodeItemStack == StackInv /\ EncodeItem => StackInv'
<1> SUFFICES ASSUME StackInv, EncodeItem PROVE StackInv'
  OBVIOUS
<1>0. /\ Resume({"list"}) /\ F.next <= Len(Child[F.node]) /\ res = "run"
      /\ cur' = Child[F.node][F.next] /\ encoders' = Replaced(encoders, New)
      /\ UNCHANGED <<codec, root, doc, res>>
  BY DEF EncodeItem, Resume, Replaced
<1>1. /\ frames \in Seq(Frame) /\ frames # << >>
      /\ encoders \in Seq(Encoder) /\ encoders # << >>
      /\ F = Top(frames) /\ F \in Frame /\ F.node \in Node /\ KindOf(F.node) = "list"
      /\ CallsOK(frames) /\ Waiting(frames, encoders)
      /\ Len(encoders) = AtEnc(F)
  BY <1>0, ResumeFacts
<1> DEFINE g == ItemFrame
           c == Child[F.node][F.next]
<1>2. /\ frames' = Replaced(frames, g) /\ g \in Frame /\ FrameOK(g) /\ g.node = F.node
      /\ g.enc = F.enc /\ g.base = F.base /\ g.maps = F.maps
      /\ g.next > 1 /\ g.next - 1 = F.next /\ F.next \in 1..Len(Child[F.node])
      /\ IsList(g) /\ IsList(F)
  BY ItemFrameFacts
<1> HIDE DEF g
<1>3. c \in Node /\ c # Absent
  BY <1>1, <1>2, NodeFacts, NodesAssumption
<1>4. /\ Len(encoders) = AtEnc(g) /\ Len(New.stack) = AtBase(g, Pending(c))
      /\ Len(New.constructed_stack) = AtMaps(g)
  <2>1. Len(New.stack) = 0 /\ Len(New.constructed_stack) = 0
    BY DEF New
  <2> QED
    BY <1>1, <1>2, <2>1 DEF AtEnc, AtBase, AtMaps
<1>5. c = Child[g.node][g.next - 1] /\ cur' = c
  BY <1>0, <1>2
<1> HIDE DEF c
<1>6. /\ frames' \in Seq(Frame) /\ encoders' \in Seq(Encoder) /\ encoders' # << >>
      /\ Heights(frames', encoders', c)
  BY <1>0, <1>1, <1>2, <1>3, <1>4, <1>5, NewFacts, AdvanceHeights, SMTT(30)
<1> QED
  BY <1>0, <1>3, <1>5, <1>6, DocTypes, StackStep

LEMMA CloseListStack == StackInv /\ CloseList => StackInv'
<1> SUFFICES ASSUME StackInv, CloseList PROVE StackInv'
  OBVIOUS
<1> DEFINE v == [kind |-> "array", map |-> EmptyMap, items |-> Folded]
<1>0. /\ Resume({"list"}) /\ res = "run" /\ frames' = Front(frames) /\ Put(F.node, v)
      /\ Update(Front(encoders), F.node) /\ UNCHANGED <<codec, root, cur>>
  BY DEF CloseList, Resume, Return
<1>1. /\ frames \in Seq(Frame) /\ frames # << >> /\ cur = Absent
      /\ encoders \in Seq(Encoder) /\ encoders # << >>
      /\ F = Top(frames) /\ F \in Frame /\ F.node \in Node
      /\ CallsOK(frames) /\ Waiting(frames, encoders)
      /\ Len(encoders) = AtEnc(F)
  BY <1>0, ResumeFacts
<1>2. IsList(F) /\ Folded \in Seq(Node)
  BY <1>0, ItemFacts
<1>3. Len(encoders) = F.enc + 1
  BY <1>1, <1>2 DEF AtEnc
<1>4. /\ Front(frames) \in Seq(Frame) /\ Front(encoders) \in Seq(Encoder)
      /\ Front(encoders) # << >> /\ Heights(Front(frames), Front(encoders), F.node)
  BY <1>1, <1>2, <1>3, CloseListHeights
<1>5. /\ encoders' \in Seq(Encoder) /\ encoders' # << >> /\ res' = "run"
      /\ Heights(Front(frames), encoders', Absent)
  BY <1>0, <1>1, <1>4, UpdateStep
<1>6. v \in Value
  BY <1>2, EmptyMapType DEF Value
<1> HIDE DEF v
<1>7. DOMAIN doc' \subseteq Node /\ \A n \in DOMAIN doc' : doc'[n] \in Value
  BY <1>0, <1>1, <1>6, DocTypes, PutType
<1> QED
  BY <1>0, <1>1, <1>4, <1>5, <1>7, StackStep

LEMMA FinishStack == StackInv /\ Finish => StackInv' /\ res' = "ok"
<1> SUFFICES ASSUME StackInv, Finish PROVE StackInv' /\ res' = "ok"
  OBVIOUS
<1>1. /\ res = "run" /\ cur = Absent /\ Returned
      /\ UNCHANGED <<codec, root, cur, frames, encoders, doc>>
      /\ res' = IF E.root_value = Absent THEN "noroot" ELSE "ok"
  BY DEF Finish
<1>2. frames = << >>
  <2> SUFFICES ASSUME frames # << >> PROVE FALSE
    OBVIOUS
  <2>1. KindOf(F.node) = "list" /\ NoRoot
    BY <1>1 DEF Returned
  <2>2. Resume({"list"})
    BY <1>1, <2>1 DEF Resume
  <2> QED
    BY <2>1, <2>2, ItemFacts
<1>3. E.root_value = root /\ root # Absent
  <2>1. Running(frames, Top(encoders), Len(encoders), cur)
    BY DEF StackInv, Heights
  <2>2. root \in Node
    BY NodesAssumption DEF StackInv, TypeOK
  <2> QED
    BY <1>1, <1>2, <2>1, <2>2, NodesAssumption DEF Running, E
<1>4. res' = "ok"
  BY <1>1, <1>3
<1>5. Heights(frames, encoders, cur)'
  BY <1>1 DEF StackInv, Heights, CallsOK, Running, Waiting, Top, FrameOK, Calls, Under, AtEnc,
              AtBase, AtMaps, IsList, Left, KindOf, Pending
<1>6. TypeOK'
  BY <1>1, <1>4 DEF StackInv, TypeOK
<1> QED
  BY <1>1, <1>2, <1>4, <1>5, <1>6 DEF StackInv

LEMMA RejectChoiceStack == StackInv /\ RejectChoice => StackInv'
BY DEF StackInv, RejectChoice, TypeOK, Heights, CallsOK, Running, Waiting, Top, FrameOK, Calls,
       Under, AtEnc, AtBase, AtMaps, IsList, Left, KindOf, Pending

LEMMA StutterStack == StackInv /\ UNCHANGED vars => StackInv'
BY DEF StackInv, vars, TypeOK, Heights, CallsOK, Running, Waiting, Top, FrameOK, Calls,
       Under, AtEnc, AtBase, AtMaps, IsList, Left, KindOf, Pending

LEMMA NextStack == StackInv /\ [Next]_vars => StackInv'
<1> SUFFICES ASSUME StackInv, [Next]_vars PROVE StackInv'
  OBVIOUS
<1>1. CASE EncodePrimitive \/ EncodeSequence \/ EncodeField \/ EncodeNone \/ CloseSequence
  BY <1>1, EncodePrimitiveStack, EncodeSequenceStack, EncodeFieldStack, EncodeNoneStack,
     CloseSequenceStack
<1>2. CASE EncodeChoice \/ RejectChoice \/ CloseChoice
  BY <1>2, EncodeChoiceStack, RejectChoiceStack, CloseChoiceStack
<1>3. CASE EncodeList \/ EncodeItem \/ CloseList \/ Finish
  BY <1>3, EncodeListStack, EncodeItemStack, CloseListStack, FinishStack
<1>4. CASE UNCHANGED vars
  BY <1>4, StutterStack
<1> QED
  BY <1>1, <1>2, <1>3, <1>4 DEF Next, Step, Stop

\* The stacks say what StacksMatch says.
LEMMA StackInvMatches == StackInv => StacksMatch
<1> SUFFICES ASSUME StackInv, res = "ok" PROVE encoders = <<[New EXCEPT !.root_value = root]>>
  BY DEF StackInv, StacksMatch
<1>1. /\ encoders \in Seq(Encoder) /\ encoders # << >> /\ frames = << >> /\ cur = Absent
      /\ Running(frames, Top(encoders), Len(encoders), cur)
  BY DEF StackInv, TypeOK, Heights
<1>2. /\ Len(encoders) = 1 /\ Len(E.stack) = 0 /\ Len(E.constructed_stack) = 0
      /\ E.root_value = root /\ E \in Encoder
  BY <1>1, TopFacts DEF Running, E
<1>3. E.stack = << >> /\ E.constructed_stack = << >>
  BY <1>2, EncoderFacts
<1>4. E = [New EXCEPT !.root_value = root]
  BY <1>2, <1>3 DEF Encoder, New
<1>5. encoders = <<E>>
  BY <1>1, <1>2 DEF E, Top
<1> QED
  BY <1>4, <1>5

\* StacksMatch: whatever a value nests in each other, neither encoder ever
\* reports "Internal stack mismatch!" or a missing root value, and it ends with
\* empty stacks and the root value it was called for.
THEOREM StacksCorrect == Spec => []StacksMatch
<1>1. Init => StackInv
  BY InitStack
<1>2. StackInv /\ [Next]_vars => StackInv'
  BY NextStack
<1>3. StackInv => StacksMatch
  BY StackInvMatches
<1> QED
  BY <1>1, <1>2, <1>3, PTL DEF Spec

-----------------------------------------------------------------------------
(***************************************************************************)
(* What the stacks hold.  A step changes the running encoder above what    *)
(* the calls below the innermost one hold of it.                           *)
(***************************************************************************)
\* es2 is es up to the heights b and m of the k-th encoder.
Agree(es, es2, k, b, m) ==
    /\ \A i \in 1..(k - 1) : es2[i] = es[i]
    /\ \A i \in 1..b : es2[k].stack[i] = es[k].stack[i]
    /\ \A i \in 1..m : es2[k].constructed_stack[i] = es[k].constructed_stack[i]

LEMMA UnderHolds ==
    ASSUME NEW f \in Frame, FrameOK(f), NEW es, NEW es2, NEW k \in Nat, NEW b \in Nat,
           NEW m \in Nat, Under(f, k, b, m), Agree(es, es2, k, b, m),
           NEW made, NEW made2, made \subseteq made2, Holds(f, es, 1, made)
    PROVE  Holds(f, es2, 1, made2)
<1>1. /\ f.enc \in Nat /\ f.enc >= 1 /\ f.base \in Nat /\ f.maps \in Nat /\ Left(f) \in Nat
  BY FrameFacts, CallFacts DEF FrameOK
<1>2. CASE IsList(f)
  BY <1>2 DEF Holds
<1>3. CASE ~IsList(f)
  <2> DEFINE x == es[f.enc]
             y == es2[f.enc]
             fb == f.base
             fl == Left(f)
             fm == f.maps
  <2>1. /\ \A i \in 1..(fb + fl + 1) : y.stack[i] = x.stack[i]
        /\ y.constructed_stack[fm + 1] = x.constructed_stack[fm + 1]
    <3>1. CASE f.enc < k
      <4>1. x = y
        BY <1>1, <3>1 DEF Agree
      <4> QED
        BY <4>1
    <3>2. CASE f.enc = k /\ fb + fl + 1 <= b /\ fm + 1 <= m
      <4>1. /\ \A i \in 1..b : y.stack[i] = x.stack[i]
            /\ \A i \in 1..m : y.constructed_stack[i] = x.constructed_stack[i]
        BY <3>2 DEF Agree
      <4>2. fb \in Nat /\ fl \in Nat /\ fm \in Nat
        BY <1>1
      <4> HIDE DEF x, y, fb, fl, fm
      <4>3. fm + 1 \in 1..m /\ \A i \in 1..(fb + fl + 1) : i \in 1..b
        BY <3>2, <4>2
      <4> QED
        BY <4>1, <4>3
    <3> QED
      BY <1>3, <3>1, <3>2 DEF Under
  <2>2. /\ HoldsNames(f, x, 1) /\ HoldsMap(f, x, 1)
        /\ KindOf(f.node) = "choice" => Given(f.node)[1] \in Name
        /\ \A j \in 1..(f.next - 1 - 1) : Child[f.node][j] \in made \cup {Absent}
    BY <1>3 DEF Holds
  <2>3. HoldsNames(f, y, 1)
    <3> SUFFICES ASSUME NEW i \in 1..(fl + 1)
                 PROVE  y.stack[fb + i] = Given(f.node)[Len(Child[f.node]) + 1 - i]
      BY DEF HoldsNames
    <3>1. x.stack[fb + i] = Given(f.node)[Len(Child[f.node]) + 1 - i]
      BY <2>2 DEF HoldsNames
    <3>2. fb \in Nat /\ fl \in Nat
      BY <1>1
    <3> HIDE DEF x, y, fb, fl
    <3>3. fb + i \in 1..(fb + fl + 1)
      BY <3>2
    <3> QED
      BY <2>1, <3>1, <3>3
  <2>4. HoldsMap(f, y, 1)
    BY <2>1, <2>2 DEF HoldsMap
  <2> QED
    BY <1>3, <2>2, <2>3, <2>4 DEF Holds
<1> QED
  BY <1>2, <1>3

\* All calls, under one that is made
LEMMA AllHold ==
    ASSUME NEW fr \in Seq(Frame), NEW es \in Seq(Encoder), es # << >>, NEW n \in Node,
           Heights(fr, es, n), NEW es2, NEW made, Contents(fr, es, n, made),
           Agree(es, es2, Len(es), Len(Top(es).stack), Len(Top(es).constructed_stack))
    PROVE  \A i \in 1..Len(fr) : Holds(fr[i], es2, 1, made)
<1> SUFFICES ASSUME NEW i \in 1..Len(fr) PROVE Holds(fr[i], es2, 1, made)
  OBVIOUS
<1>0. n # Absent /\ fr # << >>
  BY NodesAssumption
<1>1. CallsOK(fr) /\ Running(fr, Top(es), Len(es), n)
  BY DEF Heights
<1>2. /\ Len(es) = AtEnc(Top(fr)) /\ Len(Top(es).stack) = AtBase(Top(fr), 1)
      /\ Len(Top(es).constructed_stack) = AtMaps(Top(fr))
  BY <1>0, <1>1 DEF Running, Pending
<1>3. Under(fr[i], Len(es), Len(Top(es).stack), Len(Top(es).constructed_stack))
  BY <1>0, <1>1, <1>2, UnderNext
<1>4. /\ Len(es) \in Nat /\ Len(Top(es).stack) \in Nat /\ Len(Top(es).constructed_stack) \in Nat
  BY TopFacts, EncoderFacts
<1>5. fr[i] \in Frame /\ FrameOK(fr[i])
  BY <1>1 DEF CallsOK
<1>6. Holds(fr[i], es, 1, made)
  BY <1>0 DEF Contents, Pending
<1> QED
  BY <1>3, <1>4, <1>5, <1>6, UnderHolds

\* The calls below the innermost one
LEMMA LowerHold ==
    ASSUME NEW fr \in Seq(Frame), fr # << >>, CallsOK(fr), NEW es, NEW es2, NEW c,
           NEW made, NEW made2, made \subseteq made2, Contents(fr, es, c, made),
           Agree(es, es2, Top(fr).enc, Top(fr).base, Top(fr).maps)
    PROVE  \A i \in 1..(Len(fr) - 1) : fr[i] \in Frame /\ Holds(fr[i], es2, 1, made2)
<1> SUFFICES ASSUME NEW i \in 1..(Len(fr) - 1)
             PROVE  fr[i] \in Frame /\ Holds(fr[i], es2, 1, made2)
  OBVIOUS
<1> DEFINE f == Top(fr)
<1>1. f \in Frame /\ f = fr[Len(fr)] /\ Len(fr) \in Nat /\ Len(fr) \in 1..Len(fr)
  BY TopFrame
<1>2. i \in 1..Len(fr) /\ i < Len(fr)
  BY <1>1
<1>3. fr[i] \in Frame /\ FrameOK(fr[i])
  BY <1>2 DEF CallsOK
<1>4. Under(fr[i], f.enc, f.base, f.maps)
  BY <1>1, <1>2 DEF CallsOK
<1>5. Holds(fr[i], es, 1, made)
  BY <1>2 DEF Contents
<1>6. f.enc \in Nat /\ f.base \in Nat /\ f.maps \in Nat
  BY <1>1, FrameFacts
<1> QED
  BY <1>3, <1>4, <1>5, <1>6, UnderHolds

\* The names that a call pushes: one for each component, no two the same
Named(n) == KindOf(n) \in Constructed \/ (KindOf(n) = "choice" /\ Given(n)[1] \in Name)

LEMMA GivenFacts ==
    ASSUME NEW n \in Node, Named(n)
    PROVE  /\ Len(Child[n]) \in Nat /\ Len(Given(n)) = Len(Child[n])
           /\ \A i \in 1..Len(Child[n]) : Given(n)[i] \in Name
           /\ \A i, j \in 1..Len(Child[n]) : Given(n)[i] = Given(n)[j] => i = j
<1>1. CASE KindOf(n) \in Constructed
  <2>1. Given(n) = NamesOf(n)
    BY <1>1 DEF Given, Constructed
  <2>2. NamesOf(n) \in Seq(Name) /\ Len(Child[n]) \in Nat /\ Len(Child[n]) = Len(NamesOf(n))
    BY <1>1, NodeFacts
  <2>3. \A i, j \in 1..Len(NamesOf(n)) : NamesOf(n)[i] = NamesOf(n)[j] => i = j
    BY TypesAssumption, NodeFacts DEF NamesOf
  <2> QED
    BY <2>1, <2>2, <2>3
<1>2. CASE KindOf(n) = "choice" /\ Given(n)[1] \in Name
  <2>1. Given(n) = <<Identifier(TypeOf[n], TagOf(n))>> /\ Len(Child[n]) = 1
    BY <1>2, NodeFacts DEF Given
  <2>2. Len(Given(n)) = 1
    BY <2>1
  <2> HIDE DEF Given
  <2> QED
    BY <1>2, <2>1, <2>2
<1> QED
  BY <1>1, <1>2 DEF Named

LEMMA FilledNone ==
    ASSUME NEW n PROVE Filled(n, 0) = EmptyMap
<1>1. 1..0 = {}
  OBVIOUS
<1> QED
  BY <1>1 DEF Filled, EmptyMap

\* One component more
LEMMA FilledAt ==
    ASSUME NEW n \in Node, Named(n), NEW d \in 0..Len(Child[n]), NEW nm \in Name
    PROVE  /\ \A j \in 1..d : Given(n)[j] = nm => Filled(n, d)[nm] = Child[n][j]
           /\ (\A j \in 1..d : Given(n)[j] # nm) => Filled(n, d)[nm] = Absent
<1>0. Len(Child[n]) \in Nat /\ \A i, j \in 1..Len(Child[n]) : Given(n)[i] = Given(n)[j] => i = j
  BY GivenFacts
<1>1. \A i, j \in 1..d : Given(n)[i] = Given(n)[j] => i = j
  <2>1. 1..d \subseteq 1..Len(Child[n])
    BY <1>0
  <2> QED
    BY <1>0, <2>1
<1>2. Filled(n, d)[nm] = IF \E j \in 1..d : Given(n)[j] = nm
                         THEN Child[n][CHOOSE j \in 1..d : Given(n)[j] = nm] ELSE Absent
  BY DEF Filled
<1>3. ASSUME NEW j \in 1..d, Given(n)[j] = nm PROVE Filled(n, d)[nm] = Child[n][j]
  <2> DEFINE k == CHOOSE i \in 1..d : Given(n)[i] = nm
  <2>1. k \in 1..d /\ Given(n)[k] = nm
    BY <1>3
  <2>2. k = j
    BY <1>1, <1>3, <2>1
  <2> HIDE DEF k
  <2>3. Filled(n, d)[nm] = Child[n][k]
    BY <1>2, <1>3 DEF k
  <2> QED
    BY <2>2, <2>3
<1>4. (\A j \in 1..d : Given(n)[j] # nm) => Filled(n, d)[nm] = Absent
  BY <1>2
<1> QED
  BY <1>3, <1>4

LEMMA FilledType ==
    ASSUME NEW n, NEW d PROVE Filled(n, d) = [nm \in Name |-> Filled(n, d)[nm]]
BY DEF Filled

LEMMA FilledStep ==
    ASSUME NEW n \in Node, Named(n), NEW d \in 1..Len(Child[n])
    PROVE  Filled(n, d) = [Filled(n, d - 1) EXCEPT ![Given(n)[d]] = Child[n][d]]
<1>1. /\ Len(Child[n]) \in Nat /\ Given(n)[d] \in Name
      /\ \A i, j \in 1..Len(Child[n]) : Given(n)[i] = Given(n)[j] => i = j
  BY GivenFacts
<1> DEFINE A == Filled(n, d)
           B == Filled(n, d - 1)
           x == Given(n)[d]
           C == [B EXCEPT ![x] = Child[n][d]]
<1>2. d \in 0..Len(Child[n]) /\ d - 1 \in 0..Len(Child[n]) /\ d \in 1..d
  BY <1>1
<1>3. ASSUME NEW nm \in Name PROVE A[nm] = IF nm = x THEN Child[n][d] ELSE B[nm]
  <2>1. CASE nm = x
    BY <1>2, <2>1, FilledAt
  <2>2. CASE nm # x
    <3>1. CASE \E j \in 1..(d - 1) : Given(n)[j] = nm
      <4>1. PICK j \in 1..(d - 1) : Given(n)[j] = nm
        BY <3>1
      <4>2. j \in 1..d
        BY <1>1
      <4>3. A[nm] = Child[n][j] /\ B[nm] = Child[n][j]
        BY <1>2, <4>1, <4>2, FilledAt
      <4> QED
        BY <2>2, <4>3
    <3>2. CASE \A j \in 1..(d - 1) : Given(n)[j] # nm
      <4>1. \A j \in 1..d : Given(n)[j] # nm
        <5> SUFFICES ASSUME NEW j \in 1..d PROVE Given(n)[j] # nm
          OBVIOUS
        <5>1. j \in 1..(d - 1) \/ j = d
          BY <1>1
        <5> QED
          BY <2>2, <3>2, <5>1
      <4>2. A[nm] = Absent /\ B[nm] = Absent
        BY <1>2, <3>2, <4>1, FilledAt
      <4> QED
        BY <2>2, <4>2
    <3> QED
      BY <3>1, <3>2
  <2> QED
    BY <2>1, <2>2
<1>4. A = [nm \in Name |-> A[nm]] /\ B = [nm \in Name |-> B[nm]]
  BY FilledType
<1>5. x \in Name
  BY <1>1
<1> HIDE DEF A, B, x
<1>6. C = [nm \in Name |-> IF nm = x THEN Child[n][d] ELSE B[nm]]
  BY <1>4, <1>5
<1>7. A = C
  BY <1>3, <1>4, <1>6
<1> QED
  BY <1>7 DEF A, B, x

\* A component that is absent leaves the map as it is.
LEMMA FilledAbsent ==
    ASSUME NEW n \in Node, Named(n), NEW d \in 1..Len(Child[n]), Child[n][d] = Absent
    PROVE  Filled(n, d) = Filled(n, d - 1)
<1>1. /\ Len(Child[n]) \in Nat /\ Given(n)[d] \in Name
      /\ \A i, j \in 1..Len(Child[n]) : Given(n)[i] = Given(n)[j] => i = j
  BY GivenFacts
<1> DEFINE B == Filled(n, d - 1)
           x == Given(n)[d]
<1>2. B[x] = Absent
  <2>1. d - 1 \in 0..Len(Child[n])
    BY <1>1
  <2>2. \A j \in 1..(d - 1) : Given(n)[j] # x
    <3> SUFFICES ASSUME NEW j \in 1..(d - 1), Given(n)[j] = x PROVE FALSE
      OBVIOUS
    <3>1. j \in 1..Len(Child[n]) /\ j # d
      BY <1>1
    <3> QED
      BY <1>1, <3>1
  <2> QED
    BY <1>1, <2>1, <2>2, FilledAt
<1>3. B = [nm \in Name |-> B[nm]]
  BY FilledType
<1>4. Filled(n, d) = [B EXCEPT ![x] = Absent]
  BY FilledStep
<1> HIDE DEF B, x
<1>5. [B EXCEPT ![x] = Absent] = B
  BY <1>2, <1>3
<1> QED
  BY <1>4, <1>5 DEF B

\* The map of a call that is done
LEMMA FilledAll ==
    ASSUME NEW n \in Node, Named(n)
    PROVE  Filled(n, Len(Child[n])) = MapWith(Given(n), Child[n])
<1>1. Len(Given(n)) = Len(Child[n])
  BY GivenFacts
<1> QED
  BY <1>1 DEF Filled, MapWith

LEMMA ConcatLen ==
    ASSUME NEW S, NEW x \in Seq(S), NEW y \in Seq(S)
    PROVE  Len(x \o y) = Len(x) + Len(y)
OBVIOUS

LEMMA ConcatOne ==
    ASSUME NEW S, NEW x \in Seq(S), NEW y \in Seq(S), Len(y) = 1
    PROVE  /\ x \o y \in Seq(S) /\ Len(x \o y) = Len(x) + 1
           /\ \A i \in 1..Len(x) : (x \o y)[i] = x[i]
           /\ (x \o y)[Len(x) + 1] = y[1]
<1>1. x \o y \in Seq(S) /\ Len(x \o y) = Len(x) + 1
  <2>1. x \o y \in Seq(S)
    OBVIOUS
  <2>2. Len(x \o y) = Len(x) + Len(y)
    BY ConcatLen
  <2> QED
    BY <2>1, <2>2
<1>2. \A i \in 1..Len(x) : (x \o y)[i] = x[i]
  OBVIOUS
<1>3. (x \o y)[Len(x) + 1] = y[1]
  OBVIOUS
<1> QED
  BY <1>1, <1>2, <1>3

\* As far as every alternative has one tag, the flattened list has the tag of
\* the i-th alternative at i.
LEMMA FlattenPrefix ==
    ASSUME NEW trees \in Seq(TagTree), NEW p \in 0..Len(trees),
           \A i \in 1..p : Len(trees[i].leaves) = 1
    PROVE  /\ Len(Flatten(trees)) \in Nat /\ p <= Len(Flatten(trees))
           /\ \A i \in 1..p : Flatten(trees)[i] = trees[i].leaves[1]
<1>1. PICK f : Flattens(f, trees) /\ Flatten(trees) = f[Len(trees)]
  BY FlattenMade
<1> DEFINE n == Len(trees)
           One(k) == /\ f[k] \in Seq(Tag)
                     /\ IF k <= p THEN Len(f[k]) = k ELSE p <= Len(f[k])
                     /\ \A i \in 1..k : i <= p => f[k][i] = trees[i].leaves[1]
           S == {k \in Nat : k <= n => One(k)}
<1>2. n \in Nat /\ p \in Nat /\ p <= n
  OBVIOUS
<1>3. /\ f[0] = << >>
      /\ \A i \in 1..n : f[i] = f[i - 1] \o trees[i].leaves
  BY <1>1, FlattensAt
<1>4. 0 \in S
  <2>1. One(0)
    BY <1>2, <1>3
  <2> QED
    BY <2>1
<1>5. ASSUME NEW k \in Nat, k \in S PROVE k + 1 \in S
  <2> SUFFICES ASSUME k + 1 <= n PROVE One(k + 1)
    OBVIOUS
  <2>1. One(k) /\ k + 1 \in 1..n
    BY <1>2, <1>5
  <2> DEFINE x == f[k]
             y == trees[k + 1].leaves
  <2>2. y \in Seq(Tag) /\ (k + 1 <= p => Len(y) = 1)
    BY <1>2, <2>1, TreeFacts
  <2>3. f[k + 1] = x \o y
    <3>1. f[k + 1] = f[(k + 1) - 1] \o trees[k + 1].leaves
      BY <1>3, <2>1
    <3>2. (k + 1) - 1 = k
      OBVIOUS
    <3> QED
      BY <3>1, <3>2
  <2>4. /\ x \in Seq(Tag) /\ Len(x) \in Nat
        /\ IF k <= p THEN Len(x) = k ELSE p <= Len(x)
        /\ \A i \in 1..k : i <= p => x[i] = trees[i].leaves[1]
    BY <2>1
  <2>5. k + 1 <= p => y[1] = trees[k + 1].leaves[1]
    OBVIOUS
  <2>6. ~(k + 1 <= p) => p <= Len(x) /\ \A i \in 1..(k + 1) : i <= p => i \in 1..k
    BY <1>2, <2>4
  <2> HIDE DEF x, y
  <2>7. x \o y \in Seq(Tag) /\ Len(x \o y) = Len(x) + Len(y) /\ Len(y) \in Nat
    BY <2>2, <2>4, ConcatLen
  <2>8. \A i \in 1..Len(x) : (x \o y)[i] = x[i]
    BY <2>2, <2>4
  <2>9. CASE k + 1 <= p
    <3>1. /\ Len(x \o y) = k + 1 /\ (x \o y)[k + 1] = y[1]
          /\ \A i \in 1..k : (x \o y)[i] = x[i]
      BY <1>2, <2>2, <2>4, <2>9, ConcatOne, SMTT(30)
    <3>2. \A i \in 1..(k + 1) : i \in 1..k \/ i = k + 1
      OBVIOUS
    <3>3. \A i \in 1..(k + 1) : i <= p => (x \o y)[i] = trees[i].leaves[1]
      BY <2>4, <2>5, <2>9, <3>1, <3>2
    <3> QED
      BY <2>3, <2>7, <2>9, <3>1, <3>3
  <2>10. CASE ~(k + 1 <= p)
    <3>1. p <= Len(x \o y)
      BY <1>2, <2>4, <2>6, <2>7, <2>10
    <3>2. \A i \in 1..(k + 1) : i <= p => (x \o y)[i] = trees[i].leaves[1]
      BY <1>2, <2>4, <2>6, <2>8, <2>10
    <3> QED
      BY <2>3, <2>7, <2>10, <3>1, <3>2
  <2> QED
    BY <2>9, <2>10
<1> HIDE DEF S
<1>6. n \in S
  BY <1>2, <1>4, <1>5, InductionOnNat
<1>7. One(n)
  BY <1>2, <1>6 DEF S
<1>8. Len(f[n]) \in Nat /\ p <= Len(f[n])
  BY <1>2, <1>7
<1>9. \A i \in 1..p : i \in 1..n /\ i <= p
  BY <1>2
<1> QED
  BY <1>1, <1>7, <1>8, <1>9

\* An identifier is one of the CHOICE's
LEMMA SomeIdentifier ==
    ASSUME NEW n \in Node, KindOf(n) = "choice", Matches(TypeOf[n], TagOf(n)) # {}
    PROVE  \E i \in 1..Len(NamesOf(n)) : Given(n) = <<NamesOf(n)[i]>>

<1> DEFINE t == TypeOf[n]
           M == Matches(t, TagOf(n))
           k == CHOOSE i \in M : \A j \in M : i <= j
<1>1. t \in Type
  BY NodeFacts
<1>2. M # {} /\ M \subseteq Nat /\ \A i \in M : i \in 1..Len(Names[t])
  <2>1. Variants[t] \in Seq(TagTree) /\ Names[t] \in Seq(Name)
    BY <1>1, TypesAssumption
  <2>2. Flatten(Variants[t]) \in Seq(Tag)
    BY <2>1, FlattenType
  <2> QED
    BY <2>1, <2>2 DEF Matches
<1>3. k \in M
  <2>1. \E i \in M : \A j \in M : i <= j
    BY <1>2, LeastElement
  <2> HIDE DEF M
  <2> QED
    BY <2>1
<1>4. Identifier(t, TagOf(n)) = Names[t][k]
  BY DEF Identifier
<1> HIDE DEF k, M
<1>5. Given(n) = <<NamesOf(n)[k]>> /\ k \in 1..Len(NamesOf(n))
  BY <1>2, <1>3, <1>4 DEF Given, NamesOf
<1> QED
  BY <1>5

\* Where the alternative is in position, encode_choice finds its own.
LEMMA OwnIdentifier ==
    ASSUME NEW n \in Node, KindOf(n) = "choice", InPosition(n)
    PROVE  Given(n) = ComponentNames(n)
<1> DEFINE t == TypeOf[n]
           V == Variants[t]
           a == Alt[n]
           M == Matches(t, TagOf(n))
<1>1. t \in Type /\ a \in 1..Len(V)
  BY NodeFacts
<1>2. V \in Seq(TagTree) /\ Len(Names[t]) = Len(V) /\ Len(V) \in Nat /\ a \in 0..Len(V)
  BY <1>1, TypesAssumption DEF KindOf
<1>3. \A i \in 1..a : /\ i \in 1..Len(V) /\ ~V[i].choice /\ Len(V[i].leaves) = 1
                      /\ \A j \in 1..Len(V) : V[j].leaves = V[i].leaves => i = j
  <2>1. \A i \in 1..a : i \in 1..Len(V) /\ ~V[i].choice
    BY <1>1, <1>2 DEF InPosition
  <2> QED
    BY <1>1, <2>1, TypesAssumption
<1>4. a \in 1..a /\ TagOf(n) = V[a].leaves[1]
  BY <1>1, <1>2, <1>3 DEF TagOf, VariantTag
<1>5. ASSUME NEW j \in 1..a, V[j].leaves[1] = V[a].leaves[1] PROVE j = a
  <2>1. V[j].leaves \in Seq(Tag) /\ V[a].leaves \in Seq(Tag)
    BY <1>1, <1>2, <1>3, TreeFacts
  <2>2. Len(V[j].leaves) = 1 /\ Len(V[a].leaves) = 1
    BY <1>3, <1>4
  <2>3. V[j].leaves = V[a].leaves
    BY <1>5, <2>1, <2>2
  <2> QED
    BY <1>1, <1>3, <2>3
<1>6. /\ Len(Flatten(V)) \in Nat /\ a <= Len(Flatten(V))
      /\ \A i \in 1..a : Flatten(V)[i] = V[i].leaves[1]
  BY <1>2, <1>3, FlattenPrefix
<1>7. a \in M /\ M \subseteq Nat /\ \A j \in M : a <= j
  <2>1. M = {i \in 1..Len(Flatten(V)) : Flatten(V)[i] = V[a].leaves[1] /\ i <= Len(V)}
    BY <1>2, <1>4 DEF Matches
  <2>2. ASSUME NEW j \in M PROVE a <= j
    <3>1. j \in 1..Len(Flatten(V)) /\ Flatten(V)[j] = V[a].leaves[1]
      BY <2>1, <2>2
    <3>2. ~(j < a)
      <4> SUFFICES ASSUME j < a PROVE FALSE
        OBVIOUS
      <4>1. j \in 1..a
        BY <1>2, <1>6, <3>1
      <4> QED
        BY <1>2, <1>5, <1>6, <3>1, <4>1
    <3> QED
      BY <1>2, <1>6, <3>1, <3>2
  <2>3. a \in M
    BY <1>1, <1>2, <1>4, <1>6, <2>1
  <2> QED
    BY <1>6, <2>1, <2>2, <2>3
<1>8. Identifier(t, TagOf(n)) = Names[t][a]
  <2> HIDE DEF M
  <2>1. \A i \in M : (\A j \in M : i <= j) => i = a
    BY <1>2, <1>7
  <2>2. (CHOOSE i \in M : \A j \in M : i <= j) = a
    BY <1>7, <2>1
  <2> QED
    BY <2>2 DEF Identifier, M
<1> QED
  BY <1>8 DEF Given, ComponentNames, NamesOf

\* encode_choice of AVN takes the one value that its map holds.
LEMMA ChoiceMapSame ==
    ASSUME NEW n \in Node, KindOf(n) = "choice", Given(n)[1] \in Name
    PROVE  ChoiceMap(n, Filled(n, 1)) = Filled(n, 1)
<1> DEFINE x == Identifier(TypeOf[n], TagOf(n))
           m == Filled(n, 1)
           stored == {nm \in Name : m[nm] # Absent}
<1>1. Given(n) = <<x>> /\ Given(n)[1] = x /\ x \in Name
  BY DEF Given
<1>2. Len(Child[n]) = 1 /\ Child[n][1] \in Node /\ Child[n][1] # Absent
  BY NodeFacts, NodesAssumption
<1>3. Named(n) /\ 1 \in 0..Len(Child[n]) /\ 1 \in 1..1
  BY <1>2 DEF Named
<1>4. \A j \in 1..1 : j = 1
  OBVIOUS
<1>5. m[x] = Child[n][1] /\ \A nm \in Name : nm # x => m[nm] = Absent
  BY <1>1, <1>3, <1>4, FilledAt
<1>6. m = [nm \in Name |-> m[nm]]
  BY FilledType
<1> HIDE DEF m, x
<1>7. stored = {x}
  BY <1>1, <1>2, <1>5
<1>8. (CHOOSE s \in stored : TRUE) = x
  BY <1>7
<1>9. [nm \in Name |-> IF nm = x /\ stored # {} THEN m[CHOOSE s \in stored : TRUE] ELSE Absent] = m
  <2> HIDE DEF stored
  <2> QED
    BY <1>5, <1>6, <1>7, <1>8
<1>10. ChoiceMap(n, m) = m
  BY <1>9 DEF ChoiceMap, x
<1> QED
  BY <1>10 DEF m
-----------------------------------------------------------------------------
(***************************************************************************)
(* What the stacks hold when a value is finished.                          *)
(***************************************************************************)
LEMMA NamedFrame ==
    ASSUME NEW f \in Frame, FrameOK(f), ~IsList(f),
           KindOf(f.node) = "choice" => Given(f.node)[1] \in Name
    PROVE  f.node \in Node /\ Named(f.node)
<1>1. f.node \in Node /\ KindOf(f.node) \in TypeKind
  BY FrameFacts, NodeFacts
<1> QED
  BY <1>1 DEF FrameOK, IsList, Named, TypeKind, Constructed

\* The field of f that is encoded is n: its name is taken, and the map has it.
LEMMA FieldFinished ==
    ASSUME NEW f \in Frame, FrameOK(f), ~IsList(f), f.next > 1,
           NEW n \in Node, n = Child[f.node][f.next - 1],
           NEW e \in Encoder, Len(e.stack) = AtBase(f, 1), Len(e.constructed_stack) = AtMaps(f),
           KindOf(f.node) = "choice" => Given(f.node)[1] \in Name,
           HoldsNames(f, e, 1), HoldsMap(f, e, 1)
    PROVE  LET v == Updated(e, n)
           IN  /\ HoldsNames(f, v, 0) /\ HoldsMap(f, v, 0)
               /\ \A i \in 1..f.base : v.stack[i] = e.stack[i]
               /\ \A i \in 1..f.maps : v.constructed_stack[i] = e.constructed_stack[i]
<1> DEFINE v == Updated(e, n)
           fb == f.base
           fl == Left(f)
           fm == f.maps
           s == e.stack
           c == e.constructed_stack
           G == Given(f.node)
           h == Len(Child[f.node])
           nx == f.next
<1>1. fb \in Nat /\ fm \in Nat /\ fl \in Nat /\ h \in Nat /\ nx \in Nat /\ nx = h + 1 - fl
  BY FrameFacts, CallFacts
<1>2. s \in Seq(Name) /\ c \in Seq(Map)
  BY EncoderFacts
<1>3. Len(s) = fb + fl + 1 /\ Len(c) = fm + 1
  BY DEF AtBase, AtMaps
<1>4. s # << >> /\ c # << >>
  <2> HIDE DEF fb, fl, fm, s, c
  <2> QED
    BY <1>1, <1>2, <1>3
<1>5. /\ v.stack = Front(s)
      /\ \A i \in 1..(Len(c) - 1) : v.constructed_stack[i] = c[i]
      /\ v.constructed_stack[Len(c)] = [c[Len(c)] EXCEPT ![Top(s)] = n]
  BY <1>4, UpdatedField
<1>6. \A k \in 1..(fl + 1) : s[fb + k] = G[h + 1 - k]
  BY DEF HoldsNames
<1>7. c[fm + 1] = Filled(f.node, nx - 1 - 1)
  BY DEF HoldsMap
<1>8. f.node \in Node /\ Named(f.node)
  BY NamedFrame
<1>9. n = Child[f.node][nx - 1] /\ nx > 1
  OBVIOUS
<1> DEFINE vs == v.stack
           vc == v.constructed_stack
<1> HIDE DEF v, vs, vc, fb, fl, fm, s, c, G, h, nx
<1>10. /\ \A i \in 1..(fb + fl) : vs[i] = s[i]
       /\ Top(s) = G[nx - 1]
  <2>1. \A i \in 1..(Len(s) - 1) : Front(s)[i] = s[i]
    BY <1>2, <1>4, FrontFacts
  <2>2. Len(s) - 1 = fb + fl
    BY <1>1, <1>3
  <2>3. Top(s) = s[fb + (fl + 1)]
    BY <1>1, <1>3 DEF Top
  <2>4. s[fb + (fl + 1)] = G[nx - 1]
    <3>1. fl + 1 \in 1..(fl + 1) /\ h + 1 - (fl + 1) = nx - 1
      BY <1>1
    <3>2. s[fb + (fl + 1)] = G[h + 1 - (fl + 1)]
      BY <1>6, <3>1
    <3> QED
      BY <3>1, <3>2
  <2> QED
    BY <1>5, <2>1, <2>2, <2>3, <2>4 DEF vs
<1>11. \A k \in 1..(fl + 0) : vs[fb + k] = G[h + 1 - k]
  <2> SUFFICES ASSUME NEW k \in 1..(fl + 0) PROVE vs[fb + k] = G[h + 1 - k]
    OBVIOUS
  <2>1. k \in 1..(fl + 1) /\ fb + k \in 1..(fb + fl)
    BY <1>1
  <2> QED
    BY <1>6, <1>10, <2>1
<1>12. vc[fm + 1] = Filled(f.node, nx - 1 - 0)
  <2>1. nx - 1 \in 1..h
    BY <1>1, <1>9
  <2>2. Filled(f.node, nx - 1) = [Filled(f.node, nx - 1 - 1) EXCEPT ![G[nx - 1]] = n]
    BY <1>8, <1>9, <2>1, FilledStep DEF G, h
  <2>3. vc[fm + 1] = [Filled(f.node, nx - 1 - 1) EXCEPT ![G[nx - 1]] = n]
    BY <1>3, <1>5, <1>7, <1>10 DEF vc
  <2>4. nx - 1 - 0 = nx - 1
    BY <1>1
  <2> QED
    BY <2>2, <2>3, <2>4
<1>13. /\ \A i \in 1..fb : vs[i] = s[i]
       /\ \A i \in 1..fm : vc[i] = c[i]
  <2>1. \A i \in 1..fb : i \in 1..(fb + fl)
    BY <1>1
  <2>2. Len(c) - 1 = fm
    BY <1>1, <1>3
  <2> QED
    BY <1>5, <1>10, <2>1, <2>2 DEF vc
<1>14. HoldsNames(f, v, 0)
  BY <1>11 DEF HoldsNames, vs, fb, fl, G, h
<1>15. HoldsMap(f, v, 0)
  BY <1>12 DEF HoldsMap, vc, fm, nx
<1> QED
  BY <1>13, <1>14, <1>15 DEF v, vs, vc, s, c, fb, fm

\* The innermost call after the value n was finished
LEMMA TopFinished ==
    ASSUME NEW f \in Frame, FrameOK(f), f.next > 1,
           NEW n \in Node, n = Child[f.node][f.next - 1],
           NEW es \in Seq(Encoder), es # << >>, NEW made, Holds(f, es, 1, made),
           Len(es) = AtEnc(f), Len(Top(es).stack) = AtBase(f, 1),
           Len(Top(es).constructed_stack) = AtMaps(f)
    PROVE  LET u == Replaced(es, Updated(Top(es), n))
           IN  Holds(f, u, 0, made \cup {n}) /\ Agree(es, u, f.enc, f.base, f.maps)
<1> DEFINE e == Top(es)
           v == Updated(e, n)
           u == Replaced(es, v)
           made2 == made \cup {n}
<1>1. e \in Encoder /\ e = es[Len(es)]
  BY TopFacts
<1>2. /\ f.enc \in Nat /\ f.enc >= 1 /\ f.next \in Nat /\ f.node \in Node
  BY FrameFacts DEF FrameOK
<1>3. \A j \in 1..(f.next - 1 - 0) : Child[f.node][j] \in made2 \cup {Absent}
  <2> DEFINE nx == f.next
             ch == Child[f.node]
  <2>1. \A j \in 1..(nx - 1 - 1) : ch[j] \in made \cup {Absent}
    BY DEF Holds
  <2>2. ch[nx - 1] = n /\ nx \in Nat
    BY <1>2
  <2> HIDE DEF nx, ch
  <2>3. \A j \in 1..(nx - 1 - 0) : j \in 1..(nx - 1 - 1) \/ j = nx - 1
    BY <2>2
  <2>4. \A j \in 1..(nx - 1 - 0) : ch[j] \in made2 \cup {Absent}
    BY <2>1, <2>2, <2>3
  <2> QED
    BY <2>4 DEF nx, ch
<1>4. KindOf(f.node) = "choice" => Given(f.node)[1] \in Name
  BY DEF Holds
<1>5. CASE IsList(f)
  <2>1. HoldsItems(f)
    BY <1>5 DEF Holds
  <2>2. Len(es) = f.enc + 1
    BY <1>5 DEF AtEnc
  <2>3. \A i \in 1..f.enc : u[i] = es[i]
    <3>1. \A i \in 1..(Len(es) - 1) : u[i] = es[i]
      BY DEF Replaced
    <3> QED
      BY <1>2, <2>2, <3>1
  <2>4. Agree(es, u, f.enc, f.base, f.maps)
    <3> HIDE DEF u
    <3>1. u[f.enc] = es[f.enc] /\ \A i \in 1..(f.enc - 1) : u[i] = es[i]
      BY <1>2, <2>3
    <3> QED
      BY <3>1 DEF Agree
  <2> HIDE DEF made2, u
  <2> QED
    BY <1>3, <1>4, <1>5, <2>1, <2>4 DEF Holds, u, made2, v, e
<1>6. CASE ~IsList(f)
  <2>1. Len(es) = f.enc /\ es[f.enc] = e
    BY <1>1, <1>6 DEF AtEnc
  <2>2. HoldsNames(f, e, 1) /\ HoldsMap(f, e, 1)
    BY <1>6, <2>1 DEF Holds
  <2>3. /\ HoldsNames(f, v, 0) /\ HoldsMap(f, v, 0)
        /\ \A i \in 1..f.base : v.stack[i] = e.stack[i]
        /\ \A i \in 1..f.maps : v.constructed_stack[i] = e.constructed_stack[i]
    BY <1>1, <1>4, <1>6, <2>2, FieldFinished
  <2> HIDE DEF v
  <2>4. u[f.enc] = v /\ \A i \in 1..(f.enc - 1) : u[i] = es[i]
    BY <1>2, <2>1 DEF Replaced
  <2> HIDE DEF u, e
  <2>5. Agree(es, u, f.enc, f.base, f.maps)
    BY <2>1, <2>3, <2>4 DEF Agree
  <2>6. Holds(f, u, 0, made2)
    <3> HIDE DEF made2
    <3> QED
      BY <1>3, <1>4, <1>6, <2>3, <2>4 DEF Holds
  <2> QED
    BY <2>5, <2>6 DEF u, v, e
<1> QED
  BY <1>5, <1>6

LEMMA FinishContents ==
    ASSUME NEW fr \in Seq(Frame), NEW es \in Seq(Encoder), es # << >>, NEW n \in Node,
           Heights(fr, es, n), NEW made, Contents(fr, es, n, made)
    PROVE  Contents(fr, Replaced(es, Updated(Top(es), n)), Absent, made \cup {n})
<1> DEFINE u == Replaced(es, Updated(Top(es), n))
           made2 == made \cup {n}
           f == Top(fr)
<1> SUFFICES ASSUME fr # << >> PROVE Contents(fr, u, Absent, made2)
  <2>1. fr = << >> => Contents(fr, u, Absent, made2)
    BY DEF Contents
  <2> QED
    BY <2>1
<1>0. n # Absent
  BY NodesAssumption
<1>1. CallsOK(fr) /\ Running(fr, Top(es), Len(es), n)
  BY DEF Heights
<1>2. f \in Frame /\ FrameOK(f) /\ f = fr[Len(fr)] /\ Len(fr) \in Nat /\ Len(fr) \in 1..Len(fr)
  BY <1>1, TopFrame
<1>3. /\ Len(es) = AtEnc(f) /\ Len(Top(es).stack) = AtBase(f, 1)
      /\ Len(Top(es).constructed_stack) = AtMaps(f)
      /\ f.next > 1 /\ n = Child[f.node][f.next - 1]
  BY <1>0, <1>1 DEF Running, Pending
<1>4. Holds(f, es, 1, made)
  BY <1>0, <1>2 DEF Contents, Pending
<1>5. Holds(f, u, 0, made2) /\ Agree(es, u, f.enc, f.base, f.maps)
  BY <1>2, <1>3, <1>4, TopFinished
<1> HIDE DEF u
<1>6. made \subseteq made2
  OBVIOUS
<1> HIDE DEF made2
<1>7. \A i \in 1..(Len(fr) - 1) : Holds(fr[i], u, 1, made2)
  BY <1>1, <1>5, <1>6, LowerHold
<1>8. ASSUME NEW i \in 1..Len(fr)
      PROVE  Holds(fr[i], u, IF i < Len(fr) THEN 1 ELSE Pending(Absent), made2)
  <2>1. CASE i < Len(fr)
    <3>1. i \in 1..(Len(fr) - 1)
      BY <1>2, <2>1
    <3> QED
      BY <1>7, <2>1, <3>1
  <2>2. CASE i = Len(fr)
    <3>1. ~(i < Len(fr)) /\ Pending(Absent) = 0
      BY <1>2, <2>2 DEF Pending
    <3> QED
      BY <1>2, <1>5, <2>2, <3>1
  <2> QED
    BY <1>2, <2>1, <2>2
<1> QED
  BY <1>8 DEF Contents
-----------------------------------------------------------------------------
(***************************************************************************)
(* The contents, action by action.                                         *)
(***************************************************************************)
\* A call g is made.
LEMMA PushContents ==
    ASSUME NEW fr \in Seq(Frame), NEW es \in Seq(Encoder), es # << >>, NEW n \in Node,
           Heights(fr, es, n), NEW made, Contents(fr, es, n, made), NEW es2, NEW c,
           Agree(es, es2, Len(es), Len(Top(es).stack), Len(Top(es).constructed_stack)),
           NEW g \in Frame, Holds(g, es2, Pending(c), made)
    PROVE  Contents(Append(fr, g), es2, c, made)
<1> DEFINE t == Append(fr, g)
<1>1. /\ Len(t) = Len(fr) + 1 /\ \A i \in 1..Len(fr) : t[i] = fr[i]
      /\ t[Len(fr) + 1] = g
  BY AppendFacts
<1>2. Len(fr) \in Nat
  OBVIOUS
<1>3. \A i \in 1..Len(fr) : Holds(fr[i], es2, 1, made)
  BY AllHold
<1> HIDE DEF t
<1>4. ASSUME NEW i \in 1..Len(t)
      PROVE  Holds(t[i], es2, IF i < Len(t) THEN 1 ELSE Pending(c), made)
  <2>1. CASE i \in 1..Len(fr)
    <3>1. i < Len(t) /\ t[i] = fr[i]
      BY <1>1, <1>2, <2>1
    <3> QED
      BY <1>3, <2>1, <3>1
  <2>2. CASE i = Len(fr) + 1
    <3>1. ~(i < Len(t)) /\ t[i] = g
      BY <1>1, <1>2, <2>2
    <3> QED
      BY <3>1
  <2> QED
    BY <1>1, <1>2, <2>1, <2>2
<1>5. Contents(t, es2, c, made)
  BY <1>4 DEF Contents
<1> QED
  BY <1>5 DEF t

\* The innermost call goes on as g.
LEMMA ReplaceContents ==
    ASSUME NEW fr \in Seq(Frame), fr # << >>, CallsOK(fr), NEW es, NEW es2, NEW c, NEW c2,
           NEW made, Contents(fr, es, c, made),
           Agree(es, es2, Top(fr).enc, Top(fr).base, Top(fr).maps),
           NEW g \in Frame, Holds(g, es2, Pending(c2), made)
    PROVE  Contents(Replaced(fr, g), es2, c2, made)
<1> DEFINE t == Replaced(fr, g)
<1>1. /\ Len(t) = Len(fr) /\ \A i \in 1..(Len(fr) - 1) : t[i] = fr[i]
      /\ t[Len(fr)] = g
  BY ReplaceFacts
<1>2. Len(fr) \in Nat
  OBVIOUS
<1>3. \A i \in 1..(Len(fr) - 1) : Holds(fr[i], es2, 1, made)
  BY LowerHold
<1> HIDE DEF t
<1>4. ASSUME NEW i \in 1..Len(t)
      PROVE  Holds(t[i], es2, IF i < Len(t) THEN 1 ELSE Pending(c2), made)
  <2>1. CASE i \in 1..(Len(fr) - 1)
    <3>1. i < Len(t) /\ t[i] = fr[i]
      BY <1>1, <1>2, <2>1
    <3> QED
      BY <1>3, <2>1, <3>1
  <2>2. CASE i = Len(fr)
    <3>1. ~(i < Len(t)) /\ t[i] = g
      BY <1>1, <1>2, <2>2
    <3> QED
      BY <3>1
  <2> QED
    BY <1>1, <1>2, <2>1, <2>2
<1>5. Contents(t, es2, c2, made)
  BY <1>4 DEF Contents
<1> QED
  BY <1>5 DEF t

\* The innermost call returns.
LEMMA PopContents ==
    ASSUME NEW fr \in Seq(Frame), fr # << >>, CallsOK(fr), NEW es, NEW es2, NEW c,
           NEW made, Contents(fr, es, c, made), NEW n \in Node,
           Agree(es, es2, Top(fr).enc, Top(fr).base, Top(fr).maps)
    PROVE  Contents(Front(fr), es2, n, made)
<1> DEFINE t == Front(fr)
<1>1. Len(t) = Len(fr) - 1 /\ \A i \in 1..(Len(fr) - 1) : t[i] = fr[i]
  BY FrontFacts
<1>2. \A i \in 1..(Len(fr) - 1) : Holds(fr[i], es2, 1, made)
  BY LowerHold
<1>3. Pending(n) = 1
  BY NodesAssumption DEF Pending
<1> HIDE DEF t
<1>4. Contents(t, es2, n, made)
  BY <1>1, <1>2, <1>3 DEF Contents
<1> QED
  BY <1>4 DEF t

\* What the innermost call holds
LEMMA TopHolds ==
    ASSUME NEW fr \in Seq(Frame), fr # << >>, NEW es, NEW made, Contents(fr, es, Absent, made)
    PROVE  Holds(Top(fr), es, 0, made)
<1>1. Len(fr) \in 1..Len(fr) /\ ~(Len(fr) < Len(fr))
  OBVIOUS
<1> QED
  BY <1>1 DEF Contents, Pending, Top

\* What a value ought to hold does not change while it is encoded.
LEMMA FaithfulKept ==
    ASSUME UNCHANGED codec
    PROVE  \A m, w : Faithful(m, w)' = Faithful(m, w)
<1>1. \A m, names : Written(m, names)' = Written(m, names)
  BY DEF Written
<1>2. \A m : Expected(m)' = Expected(m)
  BY DEF Written, Expected
<1> QED
  BY <1>1, <1>2 DEF Faithful

\* What a step has to show that makes a value
LEMMA PutStep ==
    ASSUME ContentInv, UNCHANGED <<codec, root>>, res' = "run", NEW n \in Node, NEW v, Put(n, v),
           Contents(frames', encoders', cur', DOMAIN doc \cup {n}),
           frames' = << >> => n = root,
           Faithful(n, v),
           \A i \in 1..Len(Child[n]) : Child[n][i] \in DOMAIN doc \cup {Absent}
    PROVE  ContentInv'
<1>1. DOMAIN doc' = DOMAIN doc \cup {n}
  BY DEF Put
<1>2. doc'[n] = v /\ \A m \in DOMAIN doc : m # n => doc'[m] = doc[m]
  BY DEF Put
<1>3. Contents(frames, encoders, cur, DOMAIN doc)'
  BY <1>1 DEF Contents, Holds, HoldsNames, HoldsMap, HoldsItems
<1>4. \A m, w : Faithful(m, w)' = Faithful(m, w)
  BY FaithfulKept
<1>5. ASSUME NEW m \in DOMAIN doc'
      PROVE  /\ Faithful(m, doc'[m])
             /\ \A i \in 1..Len(Child[m]) : Child[m][i] \in DOMAIN doc' \cup {Absent}
  <2>1. CASE m = n
    BY <1>1, <1>2, <2>1
  <2>2. CASE m # n
    <3>1. m \in DOMAIN doc /\ doc'[m] = doc[m]
      BY <1>1, <1>2, <2>2
    <3>2. /\ Faithful(m, doc[m])
          /\ \A i \in 1..Len(Child[m]) : Child[m][i] \in DOMAIN doc \cup {Absent}
      BY <3>1 DEF ContentInv, EncodesFaithfully
    <3> QED
      BY <1>1, <3>1, <3>2
  <2> QED
    BY <2>1, <2>2
<1>6. EncodesFaithfully'
  BY <1>4, <1>5 DEF EncodesFaithfully
<1>7. ((frames = << >> /\ cur = Absent) => root \in DOMAIN doc)'
  BY <1>1
<1> QED
  BY <1>3, <1>6, <1>7 DEF ContentInv

\* and one that makes none
LEMMA KeepStep ==
    ASSUME ContentInv, UNCHANGED <<codec, root, doc>>,
           Contents(frames', encoders', cur', DOMAIN doc),
           (frames' = << >> /\ cur' = Absent) => frames = << >> /\ cur = Absent,
           res' = "ok" => frames' = << >> /\ cur' = Absent
    PROVE  ContentInv'
<1>1. Contents(frames, encoders, cur, DOMAIN doc)'
  BY DEF Contents, Holds, HoldsNames, HoldsMap, HoldsItems
<1>2. \A m, w : Faithful(m, w)' = Faithful(m, w)
  BY FaithfulKept
<1>3. ((frames = << >> /\ cur = Absent) => root \in DOMAIN doc)'
  BY DEF ContentInv
<1>4. EncodesFaithfully'
  BY <1>2, <1>3 DEF ContentInv, EncodesFaithfully
<1> QED
  BY <1>1, <1>3, <1>4 DEF ContentInv

LEMMA InitContent == Init => ContentInv
<1> SUFFICES ASSUME Init PROVE ContentInv
  OBVIOUS
<1>1. frames = << >> /\ doc = << >> /\ res = "run" /\ cur = root
  BY DEF Init
<1>2. Contents(frames, encoders, cur, DOMAIN doc)
  BY <1>1 DEF Contents
<1>3. root # Absent
  BY NodesAssumption DEF Init
<1>4. DOMAIN doc = {}
  BY <1>1
<1> QED
  BY <1>1, <1>2, <1>3, <1>4 DEF ContentInv, EncodesFaithfully

LEMMA EncodePrimitiveContent == StackInv /\ ContentInv /\ EncodePrimitive => ContentInv'
<1> SUFFICES ASSUME StackInv, ContentInv, EncodePrimitive PROVE ContentInv'
  OBVIOUS
<1> DEFINE v == [kind |-> "primitive", map |-> EmptyMap, items |-> << >>]
<1>1. /\ frames \in Seq(Frame) /\ encoders \in Seq(Encoder) /\ encoders # << >>
      /\ cur \in Node /\ KindOf(cur) = "primitive" /\ res = "run"
      /\ Heights(frames, encoders, cur)
  BY CallTypes DEF EncodePrimitive
<1>2. /\ Put(cur, v) /\ Update(encoders, cur) /\ cur' = Absent
      /\ UNCHANGED <<codec, root, frames>>
  BY DEF EncodePrimitive
<1>3. encoders' = Replaced(encoders, Updated(Top(encoders), cur)) /\ res' = "run"
  BY <1>1, <1>2, UpdateStep
<1>4. Contents(frames, encoders, cur, DOMAIN doc)
  BY DEF ContentInv
<1>5. Contents(frames, encoders', Absent, DOMAIN doc \cup {cur})
  BY <1>1, <1>3, <1>4, FinishContents
<1>6. Child[cur] = << >>
  BY <1>1, NodeFacts
<1>7. Faithful(cur, v)
  BY <1>1 DEF Faithful, Expected, Written, Constructed
<1>8. frames = << >> => cur = root
  BY <1>1, NodesAssumption DEF Heights, Running
<1> HIDE DEF v
<1> QED
  BY <1>1, <1>2, <1>3, <1>5, <1>6, <1>7, <1>8, PutStep

\* The end of encode_sequence and encode_choice
LEMMA CloseContent ==
    ASSUME StackInv, ContentInv, NEW kinds, Resume(kinds), ~IsList(F), Left(F) = 0,
           NEW v \in Value, Close(v), Faithful(F.node, v)
    PROVE  ContentInv'
<1>1. /\ frames \in Seq(Frame) /\ frames # << >> /\ cur = Absent
      /\ encoders \in Seq(Encoder) /\ encoders # << >>
      /\ F = Top(frames) /\ F \in Frame /\ FrameOK(F) /\ F.node \in Node
      /\ E = Top(encoders) /\ E \in Encoder
      /\ CallsOK(frames) /\ Waiting(frames, encoders)
      /\ Len(encoders) = AtEnc(F) /\ Len(E.stack) = AtBase(F, 0)
      /\ Len(E.constructed_stack) = AtMaps(F)
  BY ResumeFacts
<1>2. F.enc \in Nat /\ F.base \in Nat /\ F.maps \in Nat
  BY <1>1, FrameFacts
<1>3. /\ Len(encoders) = F.enc /\ Len(E.stack) = F.base
      /\ Len(E.constructed_stack) = F.maps + 1
  BY <1>1, <1>2 DEF AtEnc, AtBase, AtMaps
<1> DEFINE e == [E EXCEPT !.constructed_stack = Front(@)]
           es == Replaced(encoders, e)
<1>4. E.constructed_stack \in Seq(Map) /\ E.constructed_stack # << >>
  BY <1>1, <1>2, <1>3, EncoderFacts
<1>5. /\ Front(E.constructed_stack) \in Seq(Map) /\ Len(Front(E.constructed_stack)) = F.maps
      /\ \A i \in 1..F.maps : Front(E.constructed_stack)[i] = E.constructed_stack[i]
  <2> DEFINE s == E.constructed_stack
             fm == F.maps
  <2>1. s \in Seq(Map) /\ s # << >> /\ Len(s) = fm + 1 /\ fm \in Nat
    BY <1>2, <1>3, <1>4
  <2> HIDE DEF s, fm
  <2>2. Front(s) \in Seq(Map) /\ Len(Front(s)) = fm /\ \A i \in 1..fm : Front(s)[i] = s[i]
    BY <2>1, FrontFacts
  <2> QED
    BY <2>2 DEF s, fm
<1>6. /\ e \in Encoder /\ e.stack = E.stack /\ Len(e.stack) = F.base
      /\ Len(e.constructed_stack) = F.maps /\ e.constructed_stack = Front(E.constructed_stack)
  BY <1>1, <1>3, <1>5 DEF Encoder
<1> HIDE DEF e
<1>7. /\ Front(frames) \in Seq(Frame) /\ es \in Seq(Encoder) /\ es # << >>
      /\ Heights(Front(frames), es, F.node)
  BY <1>1, <1>3, <1>6, CloseHeights
<1>8. /\ frames' = Front(frames) /\ Put(F.node, v) /\ Update(es, F.node)
      /\ UNCHANGED <<codec, root, cur>>
  BY <1>1, <1>4 DEF Close, Return, Replaced, Top, e
<1>9. Agree(encoders, es, F.enc, F.base, F.maps)
  <2>1. es[F.enc] = e /\ \A i \in 1..(F.enc - 1) : es[i] = encoders[i]
    <3>1. /\ es[Len(encoders)] = e
          /\ \A i \in 1..(Len(encoders) - 1) : es[i] = encoders[i]
      <4>1. encoders \in Seq(Encoder) /\ encoders # << >> /\ e \in Encoder
        BY <1>1, <1>6
      <4> QED
        BY <4>1, ReplaceFacts
    <3> HIDE DEF es
    <3> QED
      BY <1>3, <3>1
  <2>2. encoders[F.enc] = E
    BY <1>1, <1>3 DEF Top
  <2> HIDE DEF es
  <2> QED
    BY <1>5, <1>6, <2>1, <2>2 DEF Agree
<1> HIDE DEF es
<1>10. res = "run"
  BY DEF Resume
<1>11. encoders' = Replaced(es, Updated(Top(es), F.node)) /\ res' = "run"
  BY <1>1, <1>7, <1>8, <1>10, UpdateStep
<1>12. Contents(frames, encoders, Absent, DOMAIN doc)
  BY <1>1 DEF ContentInv
<1>13. Contents(Front(frames), es, F.node, DOMAIN doc)
  BY <1>1, <1>9, <1>12, PopContents
<1>14. Contents(Front(frames), encoders', Absent, DOMAIN doc \cup {F.node})
  BY <1>1, <1>7, <1>11, <1>13, FinishContents
<1>15. Front(frames) = << >> => F.node = root
  BY <1>1, PopCall DEF Follows
<1>16. \A i \in 1..Len(Child[F.node]) : Child[F.node][i] \in DOMAIN doc \cup {Absent}
  <2>1. Holds(F, encoders, 0, DOMAIN doc)
    BY <1>1, <1>12, TopHolds
  <2>2. F.next - 1 - 0 = Len(Child[F.node])
    <3>1. F.next = Len(Child[F.node]) + 1 - Left(F) /\ Len(Child[F.node]) \in Nat
      BY <1>1, CallFacts
    <3> QED
      BY <3>1
  <2> QED
    BY <2>1, <2>2 DEF Holds
<1> QED
  BY <1>1, <1>8, <1>11, <1>14, <1>15, <1>16, PutStep

\* The map that is popped holds the components.
LEMMA CloseMap ==
    ASSUME StackInv, ContentInv, NEW kinds, Resume(kinds), ~IsList(F), Left(F) = 0
    PROVE  /\ F.node \in Node /\ Named(F.node)
           /\ Top(E.constructed_stack) = Filled(F.node, Len(Child[F.node]))
<1>1. /\ frames \in Seq(Frame) /\ frames # << >> /\ cur = Absent
      /\ F = Top(frames) /\ F \in Frame /\ FrameOK(F)
      /\ E = Top(encoders) /\ E \in Encoder
      /\ Len(encoders) = AtEnc(F) /\ Len(E.constructed_stack) = AtMaps(F)
  BY ResumeFacts
<1>2. Len(encoders) = F.enc /\ Len(E.constructed_stack) = F.maps + 1
  BY <1>1 DEF AtEnc, AtMaps
<1>3. Holds(F, encoders, 0, DOMAIN doc)
  BY <1>1, TopHolds DEF ContentInv
<1>4. encoders[F.enc] = E
  BY <1>1, <1>2 DEF Top
<1>5. /\ HoldsMap(F, E, 0)
      /\ KindOf(F.node) = "choice" => Given(F.node)[1] \in Name
  BY <1>3, <1>4 DEF Holds
<1>6. F.node \in Node /\ Named(F.node)
  BY <1>1, <1>5, NamedFrame
<1>7. F.next - 1 - 0 = Len(Child[F.node])
  <2>1. F.next = Len(Child[F.node]) + 1 - Left(F) /\ Len(Child[F.node]) \in Nat
    BY <1>1, CallFacts
  <2> QED
    BY <2>1
<1>8. Top(E.constructed_stack) = E.constructed_stack[F.maps + 1]
  BY <1>2 DEF Top
<1> QED
  BY <1>5, <1>6, <1>7, <1>8 DEF HoldsMap

LEMMA CloseSequenceContent == StackInv /\ ContentInv /\ CloseSequence => ContentInv'
<1> SUFFICES ASSUME StackInv, ContentInv, CloseSequence PROVE ContentInv'
  OBVIOUS
<1> DEFINE v == [kind |-> "object", map |-> Top(E.constructed_stack), items |-> << >>]
<1>1. Resume(Constructed) /\ F.next > Len(Child[F.node]) /\ Close(v)
  BY DEF CloseSequence
<1>2. /\ F \in Frame /\ FrameOK(F) /\ KindOf(F.node) \in Constructed /\ E \in Encoder
      /\ Len(E.constructed_stack) = AtMaps(F)
  BY <1>1, ResumeFacts
<1>3. ~IsList(F)
  BY <1>2 DEF IsList, Constructed
<1>4. Left(F) = 0
  <2>1. F.next \in Nat /\ Len(Child[F.node]) \in Nat /\ Left(F) \in Nat
    BY <1>2, CallFacts
  <2> QED
    BY <1>1, <2>1 DEF Left
<1>5. v \in Value
  <2>1. E.constructed_stack \in Seq(Map) /\ F.maps \in Nat
    BY <1>2, EncoderFacts, FrameFacts
  <2>2. E.constructed_stack # << >>
    BY <1>2, <1>3, <2>1 DEF AtMaps
  <2>3. Top(E.constructed_stack) \in Map
    BY <2>1, <2>2, TopFacts
  <2> QED
    BY <2>3 DEF Value
<1>6. /\ F.node \in Node /\ Named(F.node)
      /\ Top(E.constructed_stack) = Filled(F.node, Len(Child[F.node]))
  BY <1>1, <1>3, <1>4, CloseMap
<1>7. Top(E.constructed_stack) = MapWith(NamesOf(F.node), Child[F.node])
  <2>1. Given(F.node) = NamesOf(F.node)
    BY <1>2 DEF Given, Constructed
  <2> QED
    BY <1>6, <2>1, FilledAll
<1>8. Faithful(F.node, v)
  <2>1. KindOf(F.node) # "choice" /\ KindOf(F.node) # "list"
    BY <1>2 DEF Constructed
  <2>2. v = Expected(F.node)
    BY <1>2, <1>7, <2>1 DEF Expected, Written, ComponentNames
  <2> QED
    BY <2>1, <2>2 DEF Faithful
<1> HIDE DEF v
<1> QED
  BY <1>1, <1>3, <1>4, <1>5, <1>8, CloseContent

LEMMA CloseChoiceContent == StackInv /\ ContentInv /\ CloseChoice => ContentInv'
<1> SUFFICES ASSUME StackInv, ContentInv, CloseChoice PROVE ContentInv'
  OBVIOUS
<1> DEFINE m == ChoiceMap(F.node, Top(E.constructed_stack))
           v == [kind |-> IF codec = "jer" THEN "object" ELSE "choice",
                 map |-> m, items |-> << >>]
<1>1. Resume({"choice"}) /\ Close(v)
  BY DEF CloseChoice
<1>2. /\ F \in Frame /\ FrameOK(F) /\ KindOf(F.node) = "choice" /\ E \in Encoder
      /\ Len(E.constructed_stack) = AtMaps(F) /\ F.node \in Node
  BY <1>1, ResumeFacts
<1>3. ~IsList(F)
  BY <1>2 DEF IsList
<1>4. Left(F) = 0 /\ Len(Child[F.node]) = 1
  <2>1. F.next = 2
    BY <1>2 DEF FrameOK
  <2>2. Len(Child[F.node]) = 1
    BY <1>2, NodeFacts
  <2> QED
    BY <2>1, <2>2 DEF Left
<1>5. v \in Value
  <2>1. E.constructed_stack \in Seq(Map) /\ F.maps \in Nat
    BY <1>2, EncoderFacts, FrameFacts
  <2>2. E.constructed_stack # << >>
    BY <1>2, <1>3, <2>1 DEF AtMaps
  <2>3. Top(E.constructed_stack) \in Map
    BY <2>1, <2>2, TopFacts
  <2>4. m \in Map
    BY <2>3, ChoiceMapType
  <2> HIDE DEF m
  <2> QED
    BY <2>4 DEF Value
<1>6. Named(F.node) /\ Top(E.constructed_stack) = Filled(F.node, Len(Child[F.node]))
  BY <1>1, <1>3, <1>4, CloseMap
<1>7. m = Filled(F.node, 1)
  <2>1. Given(F.node)[1] \in Name
    BY <1>2, <1>6 DEF Named, Constructed
  <2> QED
    BY <1>2, <1>4, <1>6, <2>1, ChoiceMapSame
<1>8. m = MapWith(Given(F.node), Child[F.node])
  BY <1>2, <1>4, <1>6, <1>7, FilledAll
<1> HIDE DEF m
<1>9. Faithful(F.node, v)
  <2>1. v = Written(F.node, Given(F.node))
    <3>1. KindOf(F.node) \notin Constructed
      BY <1>2 DEF Constructed
    <3> HIDE DEF KindOf
    <3> QED
      BY <1>2, <1>8, <3>1 DEF Written
  <2> HIDE DEF v
  <2>2. InPosition(F.node) => v = Expected(F.node)
    BY <1>2, <2>1, OwnIdentifier DEF Expected
  <2>3. \E i \in 1..Len(NamesOf(F.node)) : Given(F.node) = <<NamesOf(F.node)[i]>>
    BY <1>2, SomeIdentifier DEF FrameOK
  <2> QED
    BY <2>1, <2>2, <2>3 DEF Faithful
<1> HIDE DEF v
<1> QED
  BY <1>1, <1>3, <1>4, <1>5, <1>9, CloseContent

\* A SEQUENCE, SET or CHOICE is opened as g: the names are pushed on e, and an
\* empty map, which makes it u.
Opens(g, e, u, names, b) ==
    /\ u.stack = e.stack \o names
    /\ u.constructed_stack = Append(e.constructed_stack, EmptyMap)
    /\ ~IsList(g) /\ g.base = Len(e.stack) /\ g.maps = Len(e.constructed_stack)
    /\ Left(g) + b = Len(names) /\ g.next - 1 - b = 0
    /\ \A k \in 1..Len(names) : names[k] = Given(g.node)[Len(Child[g.node]) + 1 - k]
    /\ KindOf(g.node) = "choice" => Given(g.node)[1] \in Name

LEMMA OpenHolds ==
    ASSUME NEW e \in Encoder, NEW u \in Encoder, NEW names \in Seq(Name), NEW es,
           NEW g \in Frame, es[g.enc] = u, NEW b, b \in {0, 1}, Opens(g, e, u, names, b)
    PROVE  /\ \A made : Holds(g, es, b, made)
           /\ \A i \in 1..Len(e.stack) : u.stack[i] = e.stack[i]
           /\ \A i \in 1..Len(e.constructed_stack) :
                    u.constructed_stack[i] = e.constructed_stack[i]
<1> DEFINE s == e.stack
           c == e.constructed_stack
           G == Given(g.node)
           h == Len(Child[g.node])
<1>1. s \in Seq(Name) /\ c \in Seq(Map)
  BY EncoderFacts
<1>2. /\ \A k \in 1..Len(names) : names[k] = G[h + 1 - k]
      /\ u.stack = s \o names /\ u.constructed_stack = Append(c, EmptyMap)
      /\ g.base = Len(s) /\ g.maps = Len(c)
      /\ ~IsList(g) /\ Left(g) + b = Len(names) /\ g.next - 1 - b = 0
      /\ KindOf(g.node) = "choice" => G[1] \in Name
  BY DEF Opens
<1> HIDE DEF s, c, G, h
<1>3. /\ \A i \in 1..Len(s) : (s \o names)[i] = s[i]
      /\ \A k \in 1..Len(names) : (s \o names)[Len(s) + k] = names[k]
  <2>1. \A i \in 1..Len(s) : (s \o names)[i] = s[i]
    BY <1>1
  <2>2. \A k \in 1..Len(names) : (s \o names)[Len(s) + k] = names[k]
    BY <1>1
  <2> QED
    BY <2>1, <2>2
<1>4. /\ \A i \in 1..Len(c) : Append(c, EmptyMap)[i] = c[i]
      /\ Append(c, EmptyMap)[Len(c) + 1] = EmptyMap
  BY <1>1, EmptyMapType, AppendFacts
<1>5. HoldsNames(g, u, b)
  BY <1>2, <1>3 DEF HoldsNames, G, h
<1>6. HoldsMap(g, u, b)
  BY <1>2, <1>4, FilledNone DEF HoldsMap
<1>7. \A made : \A j \in 1..(g.next - 1 - b) : Child[g.node][j] \in made \cup {Absent}
  BY <1>2
<1>8. \A made : Holds(g, es, b, made)
  BY <1>2, <1>5, <1>6, <1>7 DEF Holds, G
<1> QED
  BY <1>2, <1>3, <1>4, <1>8 DEF s, c

LEMMA EncodeSequenceContent == StackInv /\ ContentInv /\ EncodeSequence => ContentInv'
<1> SUFFICES ASSUME StackInv, ContentInv, EncodeSequence PROVE ContentInv'
  OBVIOUS
<1>1. /\ frames \in Seq(Frame) /\ encoders \in Seq(Encoder) /\ encoders # << >>
      /\ cur \in Node /\ KindOf(cur) \in Constructed /\ res = "run"
      /\ E = Top(encoders) /\ E \in Encoder /\ Heights(frames, encoders, cur)
  BY CallTypes DEF EncodeSequence
<1> DEFINE g == FrameOf(cur, 1)
           names == Reversed(NamesOf(cur))
           e == [E EXCEPT !.stack = @ \o names, !.constructed_stack = Append(@, EmptyMap)]
           es == Replaced(encoders, e)
<1>2. /\ g \in Frame /\ g.node = cur /\ g.next = 1 /\ g.enc = Len(encoders)
      /\ g.base = Len(E.stack) /\ g.maps = Len(E.constructed_stack) /\ Len(encoders) >= 1
  BY <1>1, NewFrame DEF StackInv
<1>3. /\ names \in Seq(Name) /\ Len(names) = Len(Child[cur]) /\ Len(Child[cur]) \in Nat
      /\ \A k \in 1..Len(names) : names[k] = NamesOf(cur)[Len(Child[cur]) + 1 - k]
  BY <1>1, NodeFacts, ReversedFacts
<1>4. Given(cur) = NamesOf(cur) /\ KindOf(cur) # "choice"
  BY <1>1 DEF Given, Constructed
<1>5. encoders' = es /\ frames' = Append(frames, g) /\ cur' = Absent
      /\ UNCHANGED <<codec, root, doc, res>>
  <2>1. encoders' = es
    BY DEF EncodeSequence, Replaced
  <2> QED
    BY <2>1 DEF EncodeSequence
<1> HIDE DEF g, names
<1>6. /\ e \in Encoder /\ e.stack = E.stack \o names
      /\ e.constructed_stack = Append(E.constructed_stack, EmptyMap)
  <2>1. E.stack \in Seq(Name) /\ E.constructed_stack \in Seq(Map)
    BY <1>1, EncoderFacts
  <2>2. E.stack \o names \in Seq(Name)
    BY <1>3, <2>1
  <2>3. Append(E.constructed_stack, EmptyMap) \in Seq(Map)
    BY <2>1, EmptyMapType
  <2> QED
    BY <1>1, <2>2, <2>3 DEF Encoder
<1> HIDE DEF e
<1>7. es[Len(encoders)] = e /\ \A i \in 1..(Len(encoders) - 1) : es[i] = encoders[i]
  BY <1>1, <1>6 DEF Replaced
<1> HIDE DEF es
<1>8. ~IsList(g) /\ Left(g) + 0 = Len(names) /\ g.next - 1 - 0 = 0
  BY <1>1, <1>2, <1>3 DEF IsList, Left, Constructed
<1>9. \A k \in 1..Len(names) : names[k] = Given(g.node)[Len(Child[g.node]) + 1 - k]
  BY <1>2, <1>3, <1>4
<1>10. /\ Holds(g, es, 0, DOMAIN doc)
       /\ \A i \in 1..Len(E.stack) : e.stack[i] = E.stack[i]
       /\ \A i \in 1..Len(E.constructed_stack) : e.constructed_stack[i] = E.constructed_stack[i]
  <2>1. Opens(g, E, e, names, 0)
    BY <1>2, <1>4, <1>6, <1>8, <1>9 DEF Opens
  <2>2. es[g.enc] = e /\ 0 \in {0, 1}
    BY <1>2, <1>7
  <2> QED
    BY <1>1, <1>2, <1>3, <1>6, <2>1, <2>2, OpenHolds
<1>11. Agree(encoders, es, Len(encoders), Len(E.stack), Len(E.constructed_stack))
  BY <1>1, <1>7, <1>10 DEF Agree, Top
<1>12. Contents(Append(frames, g), es, Absent, DOMAIN doc)
  <2>1. Pending(Absent) = 0
    BY DEF Pending
  <2> QED
    BY <1>1, <1>2, <1>10, <1>11, <2>1, PushContents DEF ContentInv
<1>13. frames' # << >> /\ res' # "ok"
  BY <1>1, <1>2, <1>5, AppendFacts
<1> QED
  BY <1>5, <1>12, <1>13, KeepStep

LEMMA EncodeChoiceContent == StackInv /\ ContentInv /\ EncodeChoice => ContentInv'
<1> SUFFICES ASSUME StackInv, ContentInv, EncodeChoice PROVE ContentInv'
  OBVIOUS
<1>1. /\ frames \in Seq(Frame) /\ encoders \in Seq(Encoder) /\ encoders # << >>
      /\ cur \in Node /\ KindOf(cur) = "choice" /\ res = "run"
      /\ E = Top(encoders) /\ E \in Encoder /\ Heights(frames, encoders, cur)
  BY CallTypes DEF EncodeChoice
<1> DEFINE g == FrameOf(cur, 2)
           id == Identifier(TypeOf[cur], TagOf(cur))
           e == [E EXCEPT !.stack = Append(@, id), !.constructed_stack = Append(@, EmptyMap)]
           es == Replaced(encoders, e)
           c == Child[cur][1]
<1>2. /\ g \in Frame /\ g.node = cur /\ g.next = 2 /\ g.enc = Len(encoders)
      /\ g.base = Len(E.stack) /\ g.maps = Len(E.constructed_stack) /\ Len(encoders) >= 1
  BY <1>1, NewFrame DEF StackInv
<1>3. Len(Child[cur]) = 1 /\ c \in Node /\ c # Absent /\ TypeOf[cur] \in Type
  BY <1>1, NodeFacts, NodesAssumption
<1>4. id \in Name /\ Given(cur) = <<id>>
  BY <1>1, <1>3, IdentifierType DEF EncodeChoice, Given
<1>5. /\ encoders' = es /\ frames' = Append(frames, g) /\ cur' = c
      /\ UNCHANGED <<codec, root, doc, res>>
  <2>1. encoders' = es
    BY DEF EncodeChoice, Replaced
  <2> QED
    BY <2>1 DEF EncodeChoice
<1> HIDE DEF g, id, c
<1>6. PICK names \in Seq(Name) :
        Len(names) = 1 /\ names[1] = id /\ Append(E.stack, id) = E.stack \o names
  <2>1. E.stack \in Seq(Name) /\ <<id>> \in Seq(Name)
    BY <1>1, <1>4, EncoderFacts
  <2>2. Len(<<id>>) = 1 /\ <<id>>[1] = id /\ Append(E.stack, id) = E.stack \o <<id>>
    BY <1>4, <2>1
  <2> QED
    BY <2>1, <2>2
<1>7. /\ e \in Encoder /\ e.stack = E.stack \o names
      /\ e.constructed_stack = Append(E.constructed_stack, EmptyMap)
  <2>1. E.stack \in Seq(Name) /\ E.constructed_stack \in Seq(Map)
    BY <1>1, EncoderFacts
  <2>2. Append(E.stack, id) \in Seq(Name)
    BY <1>4, <2>1
  <2>3. Append(E.constructed_stack, EmptyMap) \in Seq(Map)
    BY <2>1, EmptyMapType
  <2>4. /\ e \in Encoder /\ e.stack = Append(E.stack, id)
        /\ e.constructed_stack = Append(E.constructed_stack, EmptyMap)
    BY <1>1, <2>2, <2>3 DEF Encoder
  <2> QED
    BY <1>6, <2>4
<1> HIDE DEF e
<1>8. es[Len(encoders)] = e /\ \A i \in 1..(Len(encoders) - 1) : es[i] = encoders[i]
  BY <1>1, <1>7 DEF Replaced
<1> HIDE DEF es
<1>9. \A k \in 1..Len(names) : names[k] = Given(g.node)[Len(Child[g.node]) + 1 - k]
  BY <1>2, <1>3, <1>4, <1>6
<1>10. KindOf(g.node) = "choice" => Given(g.node)[1] \in Name
  BY <1>2, <1>4
<1>11. ~IsList(g) /\ Left(g) + 1 = Len(names) /\ g.next - 1 - 1 = 0
  BY <1>1, <1>2, <1>3, <1>6 DEF IsList, Left
<1>12. /\ Holds(g, es, 1, DOMAIN doc)
       /\ \A i \in 1..Len(E.stack) : e.stack[i] = E.stack[i]
       /\ \A i \in 1..Len(E.constructed_stack) : e.constructed_stack[i] = E.constructed_stack[i]
  <2>1. Opens(g, E, e, names, 1)
    BY <1>2, <1>7, <1>9, <1>10, <1>11 DEF Opens
  <2>2. es[g.enc] = e /\ 1 \in {0, 1}
    BY <1>2, <1>8
  <2> QED
    BY <1>1, <1>2, <1>6, <1>7, <2>1, <2>2, OpenHolds
<1>13. Agree(encoders, es, Len(encoders), Len(E.stack), Len(E.constructed_stack))
  BY <1>1, <1>8, <1>12 DEF Agree, Top
<1>14. Contents(Append(frames, g), es, c, DOMAIN doc)
  <2>1. Pending(c) = 1
    BY <1>3 DEF Pending
  <2> QED
    BY <1>1, <1>2, <1>12, <1>13, <2>1, PushContents DEF ContentInv
<1>15. frames' # << >> /\ res' # "ok"
  BY <1>1, <1>2, <1>5, AppendFacts
<1> QED
  BY <1>5, <1>14, <1>15, KeepStep

LEMMA EncodeListContent == StackInv /\ ContentInv /\ EncodeList => ContentInv'
<1> SUFFICES ASSUME StackInv, ContentInv, EncodeList PROVE ContentInv'
  OBVIOUS
<1>1. /\ frames \in Seq(Frame) /\ encoders \in Seq(Encoder) /\ encoders # << >>
      /\ cur \in Node /\ KindOf(cur) = "list" /\ res = "run"
      /\ E = Top(encoders) /\ E \in Encoder /\ Heights(frames, encoders, cur)
  BY CallTypes DEF EncodeList
<1> DEFINE g == FrameOf(cur, 1)
           es == Append(encoders, New)
<1>2. g \in Frame /\ g.node = cur /\ g.next = 1 /\ g.items = << >>
  BY <1>1, NewFrame DEF StackInv
<1>3. /\ frames' = Append(frames, g) /\ encoders' = es /\ cur' = Absent
      /\ UNCHANGED <<codec, root, doc, res>>
  BY DEF EncodeList
<1> HIDE DEF g
<1>4. \A i \in 1..Len(encoders) : es[i] = encoders[i]
  BY <1>1, NewFacts, AppendFacts
<1>5. Agree(encoders, es, Len(encoders), Len(E.stack), Len(E.constructed_stack))
  <2> HIDE DEF es
  <2>1. Len(encoders) \in 1..Len(encoders) /\ 1..(Len(encoders) - 1) \subseteq 1..Len(encoders)
    BY <1>1
  <2> QED
    BY <1>4, <2>1 DEF Agree
<1> HIDE DEF es
<1>6. Holds(g, es, Pending(Absent), DOMAIN doc)
  <2>1. IsList(g) /\ KindOf(g.node) # "choice" /\ Pending(Absent) = 0
    BY <1>1, <1>2 DEF IsList, Pending
  <2>2. HoldsItems(g)
    BY <1>2 DEF HoldsItems
  <2>3. \A j \in 1..(g.next - 1 - 0) : Child[g.node][j] \in DOMAIN doc \cup {Absent}
    BY <1>2
  <2> QED
    BY <2>1, <2>2, <2>3 DEF Holds
<1>7. Contents(Append(frames, g), es, Absent, DOMAIN doc)
  BY <1>1, <1>2, <1>5, <1>6, PushContents DEF ContentInv
<1>8. frames' # << >> /\ res' # "ok"
  BY <1>1, <1>2, <1>3, AppendFacts
<1> QED
  BY <1>3, <1>7, <1>8, KeepStep

\* The call f of encode_sequence goes on to its next component, as g.
Moved(f, g) ==
    /\ ~IsList(f) /\ ~IsList(g)
    /\ g.node = f.node /\ g.base = f.base /\ g.maps = f.maps /\ g.enc = f.enc
    /\ g.next - 1 = f.next /\ Left(g) = Left(f) - 1

\* A component of f is taken up: its name and its place in the map are pending.
LEMMA AdvanceHolds ==
    ASSUME NEW f \in Frame, FrameOK(f), NEW g \in Frame, Moved(f, g),
           NEW es, NEW made, Holds(f, es, 0, made)
    PROVE  Holds(g, es, 1, made)
<1> USE DEF Moved
<1> DEFINE e == es[f.enc]
<1>1. Left(f) \in Nat /\ f.next \in Nat
  BY CallFacts
<1>2. Left(g) + 1 = Left(f) + 0 /\ g.next - 1 - 1 = f.next - 1 - 0
  BY <1>1
<1>3. /\ HoldsNames(f, e, 0) /\ HoldsMap(f, e, 0)
      /\ KindOf(f.node) = "choice" => Given(f.node)[1] \in Name
      /\ \A j \in 1..(f.next - 1 - 0) : Child[f.node][j] \in made \cup {Absent}
  BY DEF Holds
<1> HIDE DEF e
<1>4. HoldsNames(g, e, 1)
  BY <1>2, <1>3 DEF HoldsNames
<1>5. HoldsMap(g, e, 1)
  BY <1>2, <1>3 DEF HoldsMap
<1>6. \A j \in 1..(g.next - 1 - 1) : Child[g.node][j] \in made \cup {Absent}
  BY <1>2, <1>3
<1> QED
  BY <1>3, <1>4, <1>5, <1>6 DEF Holds, e

LEMMA EncodeFieldContent == StackInv /\ ContentInv /\ EncodeField => ContentInv'
<1> SUFFICES ASSUME StackInv, ContentInv, EncodeField PROVE ContentInv'
  OBVIOUS
<1> DEFINE c == Child[F.node][F.next]
<1>0. /\ Resume(Constructed) /\ F.next <= Len(Child[F.node]) /\ Advance /\ res = "run"
      /\ cur' = c /\ c # Absent
      /\ UNCHANGED <<codec, root, encoders, doc, res>>
  BY DEF EncodeField, Resume
<1>1. /\ frames \in Seq(Frame) /\ frames # << >> /\ cur = Absent
      /\ F = Top(frames) /\ F \in Frame /\ FrameOK(F) /\ CallsOK(frames)
  BY <1>0, ResumeFacts
<1>2. /\ frames' = Replaced(frames, Advanced) /\ Advanced \in Frame /\ Advanced.node = F.node
      /\ Advanced.enc = F.enc /\ Advanced.base = F.base /\ Advanced.maps = F.maps
      /\ Advanced.next - 1 = F.next /\ Left(Advanced) = Left(F) - 1
      /\ ~IsList(Advanced) /\ ~IsList(F)
  BY <1>0, AdvancedFacts
<1> HIDE DEF c
<1>3. Contents(frames, encoders, Absent, DOMAIN doc)
  BY <1>1 DEF ContentInv
<1>4. Holds(F, encoders, 0, DOMAIN doc)
  BY <1>1, <1>3, TopHolds
<1>5. Holds(Advanced, encoders, Pending(c), DOMAIN doc)
  <2>1. Pending(c) = 1
    BY <1>0 DEF Pending
  <2> QED
    BY <1>1, <1>2, <1>4, <2>1, AdvanceHolds DEF Moved
<1>6. Agree(encoders, encoders, F.enc, F.base, F.maps)
  BY DEF Agree
<1>7. Contents(Replaced(frames, Advanced), encoders, c, DOMAIN doc)
  BY <1>1, <1>2, <1>3, <1>5, <1>6, ReplaceContents
<1> QED
  BY <1>0, <1>2, <1>7, KeepStep

\* encode_none: the name is taken, and the map stays as it is.
NameTaken(f, e, u) ==
    /\ f.next \in 1..Len(Child[f.node]) /\ Child[f.node][f.next] = Absent
    /\ e.stack \in Seq(Name) /\ e.stack # << >> /\ Len(e.stack) = f.base + Left(f)
    /\ u.stack = Front(e.stack)
    /\ u.constructed_stack = e.constructed_stack

LEMMA NoneHolds ==
    ASSUME NEW f \in Frame, FrameOK(f), NEW g \in Frame, Moved(f, g),
           NEW es, NEW es2, NEW made, Holds(f, es, 0, made), NameTaken(f, es[f.enc], es2[f.enc])
    PROVE  Holds(g, es2, 0, made)
<1> USE DEF Moved
<1> DEFINE e == es[f.enc]
           u == es2[f.enc]
           s == e.stack
           fb == f.base
           fl == Left(f)
           nx == f.next
           G == Given(f.node)
           h == Len(Child[f.node])
<1>1. fl \in Nat /\ nx \in Nat /\ fb \in Nat /\ h \in Nat /\ nx = h + 1 - fl
  BY CallFacts, FrameFacts
<1>2. /\ HoldsNames(f, e, 0) /\ HoldsMap(f, e, 0)
      /\ KindOf(f.node) = "choice" => Given(f.node)[1] \in Name
      /\ \A j \in 1..(nx - 1 - 0) : Child[f.node][j] \in made \cup {Absent}
  BY DEF Holds
<1>3. f.node \in Node /\ Named(f.node)
  BY <1>2, NamedFrame
<1>4. /\ s \in Seq(Name) /\ s # << >> /\ Len(s) = fb + fl /\ nx \in 1..h /\ u.stack = Front(s)
      /\ Left(g) = fl - 1 /\ g.base = fb /\ g.next - 1 = nx /\ Child[f.node][nx] = Absent
      /\ u.constructed_stack = e.constructed_stack
  BY DEF NameTaken
<1>5. \A k \in 1..(fl + 0) : s[fb + k] = G[h + 1 - k]
  BY <1>2 DEF HoldsNames
<1> HIDE DEF e, u, s, fb, fl, nx, G, h
<1>6. \A i \in 1..(fb + fl - 1) : u.stack[i] = s[i]
  <2>1. \A i \in 1..(Len(s) - 1) : Front(s)[i] = s[i]
    BY <1>4, FrontFacts
  <2> QED
    BY <1>1, <1>4, <2>1
<1>7. \A k \in 1..(fl - 1 + 0) : u.stack[fb + k] = G[h + 1 - k]
  <2> SUFFICES ASSUME NEW k \in 1..(fl - 1 + 0) PROVE u.stack[fb + k] = G[h + 1 - k]
    OBVIOUS
  <2>1. k \in 1..(fl + 0) /\ fb + k \in 1..(fb + fl - 1)
    BY <1>1
  <2> QED
    BY <1>5, <1>6, <2>1
<1>8. HoldsNames(g, u, 0)
  BY <1>4, <1>7 DEF HoldsNames, G, h
<1>9. HoldsMap(g, u, 0)
  <2>1. Filled(f.node, nx) = Filled(f.node, nx - 1)
    BY <1>3, <1>4, FilledAbsent DEF h
  <2>2. nx - 1 - 0 = nx - 1 /\ g.next - 1 - 0 = nx
    BY <1>1, <1>4
  <2>3. e.constructed_stack[f.maps + 1] = Filled(f.node, nx - 1 - 0)
    BY <1>2 DEF HoldsMap, nx
  <2> QED
    BY <1>4, <2>1, <2>2, <2>3 DEF HoldsMap
<1>10. \A j \in 1..(g.next - 1 - 0) : Child[g.node][j] \in made \cup {Absent}
  <2>1. \A j \in 1..(g.next - 1 - 0) : j \in 1..(nx - 1 - 0) \/ j = nx
    BY <1>1, <1>4
  <2> QED
    BY <1>2, <1>4, <2>1
<1> QED
  BY <1>2, <1>8, <1>9, <1>10 DEF Holds, u

\* What is below the names of the call stays.
LEMMA NoneKeeps ==
    ASSUME NEW f \in Frame, FrameOK(f), NEW e, NEW u, NameTaken(f, e, u)
    PROVE  \A i \in 1..f.base : u.stack[i] = e.stack[i]
<1> DEFINE s == e.stack
           fb == f.base
           fl == Left(f)
           nx == f.next
           h == Len(Child[f.node])
<1>1. fl \in Nat /\ nx \in Nat /\ fb \in Nat /\ h \in Nat /\ nx = h + 1 - fl
  BY CallFacts, FrameFacts
<1>2. s \in Seq(Name) /\ s # << >> /\ Len(s) = fb + fl /\ nx \in 1..h /\ u.stack = Front(s)
  BY DEF NameTaken
<1> HIDE DEF s, fb, fl, nx, h
<1>3. \A i \in 1..(Len(s) - 1) : Front(s)[i] = s[i]
  BY <1>2, FrontFacts
<1>4. \A i \in 1..fb : i \in 1..(Len(s) - 1)
  BY <1>1, <1>2
<1> QED
  BY <1>2, <1>3, <1>4 DEF s, fb

LEMMA EncodeNoneContent == StackInv /\ ContentInv /\ EncodeNone => ContentInv'
<1> SUFFICES ASSUME StackInv, ContentInv, EncodeNone PROVE ContentInv'
  OBVIOUS
<1> DEFINE e == [E EXCEPT !.stack = Front(@)]
<1>0. /\ Resume(Constructed) /\ F.next <= Len(Child[F.node]) /\ Advance /\ res = "run"
      /\ Child[F.node][F.next] = Absent
      /\ UNCHANGED <<codec, root, cur, doc, res>>
  BY DEF EncodeNone, Resume
<1>1. /\ frames \in Seq(Frame) /\ frames # << >> /\ cur = Absent
      /\ encoders \in Seq(Encoder) /\ encoders # << >>
      /\ F = Top(frames) /\ F \in Frame /\ FrameOK(F) /\ CallsOK(frames)
      /\ E = Top(encoders) /\ E \in Encoder
      /\ Len(encoders) = AtEnc(F) /\ Len(E.stack) = AtBase(F, 0)
  BY <1>0, ResumeFacts
<1>2. /\ frames' = Replaced(frames, Advanced) /\ Advanced \in Frame /\ Advanced.node = F.node
      /\ Advanced.enc = F.enc /\ Advanced.base = F.base /\ Advanced.maps = F.maps
      /\ Advanced.next - 1 = F.next /\ Left(Advanced) = Left(F) - 1
      /\ F.next \in 1..Len(Child[F.node]) /\ Left(F) \in Nat
      /\ ~IsList(Advanced) /\ ~IsList(F)
  BY <1>0, AdvancedFacts
<1>3. /\ encoders' = Replaced(encoders, e) /\ e \in Encoder
      /\ E.stack \in Seq(Name) /\ E.stack # << >>
      /\ e.stack = Front(E.stack) /\ e.constructed_stack = E.constructed_stack
  BY EncodeNoneFacts
<1> HIDE DEF e
<1>4. /\ Len(encoders) = F.enc /\ encoders[F.enc] = E
      /\ Len(E.stack) = F.base + Left(F)
  <2>1. Len(encoders) = F.enc
    BY <1>1, <1>2 DEF AtEnc
  <2>2. F.base \in Nat
    BY <1>1, FrameFacts
  <2>3. Len(E.stack) = F.base + Left(F)
    BY <1>1, <1>2, <2>2 DEF AtBase
  <2> QED
    BY <1>1, <2>1, <2>3 DEF Top
<1> DEFINE es == Replaced(encoders, e)
<1>5. es[F.enc] = e /\ \A i \in 1..(F.enc - 1) : es[i] = encoders[i]
  <2>1. /\ es[Len(encoders)] = e
        /\ \A i \in 1..(Len(encoders) - 1) : es[i] = encoders[i]
    <3>1. encoders \in Seq(Encoder) /\ encoders # << >> /\ e \in Encoder
      BY <1>1, <1>3
    <3> QED
      BY <3>1, ReplaceFacts
  <2> HIDE DEF es
  <2> QED
    BY <1>4, <2>1
<1> HIDE DEF es
<1>6. Contents(frames, encoders, Absent, DOMAIN doc)
  BY <1>1 DEF ContentInv
<1>7. Holds(F, encoders, 0, DOMAIN doc)
  BY <1>1, <1>6, TopHolds
<1>8. /\ Holds(Advanced, es, 0, DOMAIN doc)
      /\ \A i \in 1..F.base : es[F.enc].stack[i] = encoders[F.enc].stack[i]
  <2>1. Moved(F, Advanced)
    BY <1>2 DEF Moved
  <2>2. NameTaken(F, encoders[F.enc], es[F.enc])
    BY <1>0, <1>2, <1>3, <1>4, <1>5 DEF NameTaken
  <2>3. F \in Frame /\ FrameOK(F) /\ Advanced \in Frame
    BY <1>1, <1>2
  <2>4. Holds(Advanced, es, 0, DOMAIN doc)
    BY <1>7, <2>1, <2>2, <2>3, NoneHolds
  <2> QED
    BY <2>2, <2>3, <2>4, NoneKeeps
<1>9. Agree(encoders, es, F.enc, F.base, F.maps)
  BY <1>3, <1>4, <1>5, <1>8 DEF Agree
<1>10. Contents(Replaced(frames, Advanced), es, Absent, DOMAIN doc)
  <2>1. Pending(Absent) = 0
    BY DEF Pending
  <2> QED
    BY <1>1, <1>2, <1>6, <1>8, <1>9, <2>1, ReplaceContents
<1>11. frames' # << >>
  BY <1>1, <1>2, ReplaceFacts
<1> QED
  BY <1>0, <1>1, <1>2, <1>3, <1>10, <1>11, KeepStep DEF es

\* The item just encoded is folded in: the items are the components so far.
LEMMA FoldedItems ==
    ASSUME StackInv, ContentInv, Resume({"list"})
    PROVE  /\ Len(Folded) = F.next - 1
           /\ \A j \in 1..Len(Folded) : Folded[j] = Child[F.node][j]
           /\ \A j \in 1..(F.next - 1) : Child[F.node][j] \in DOMAIN doc \cup {Absent}
<1>1. /\ frames \in Seq(Frame) /\ frames # << >> /\ cur = Absent
      /\ F = Top(frames) /\ F \in Frame /\ FrameOK(F)
  BY ResumeFacts
<1>2. /\ IsList(F)
      /\ F.next > 1 => E.root_value = Child[F.node][F.next - 1] /\ E.root_value \in Node
  BY ItemFacts
<1>3. Holds(F, encoders, 0, DOMAIN doc)
  BY <1>1, TopHolds DEF ContentInv
<1>4. HoldsItems(F) /\ \A j \in 1..(F.next - 1 - 0) : Child[F.node][j] \in DOMAIN doc \cup {Absent}
  BY <1>2, <1>3 DEF Holds
<1> DEFINE s == F.items
           nx == F.next
           ch == Child[F.node]
           x == E.root_value
<1>5. s \in Seq(Node) /\ nx \in Nat /\ nx >= 1
  BY <1>1, FrameFacts, CallFacts
<1>6. /\ Len(s) = IF nx = 1 THEN 0 ELSE nx - 2
      /\ \A j \in 1..Len(s) : s[j] = ch[j]
  BY <1>4 DEF HoldsItems
<1>7. Folded = (IF nx = 1 THEN s ELSE Append(s, x)) /\ (nx > 1 => x = ch[nx - 1] /\ x \in Node)
  BY <1>2 DEF Folded
<1>8. \A j \in 1..(nx - 1) : ch[j] \in DOMAIN doc \cup {Absent}
  <2>1. nx - 1 - 0 = nx - 1
    BY <1>5
  <2> QED
    BY <1>4, <2>1
<1> HIDE DEF s, nx, ch, x
<1>9. Len(Folded) = nx - 1 /\ \A j \in 1..Len(Folded) : Folded[j] = ch[j]
  <2>1. CASE nx = 1
    BY <1>6, <1>7, <2>1
  <2>2. CASE nx > 1
    <3> DEFINE t == Append(s, x)
    <3>1. Folded = t /\ x \in Node /\ x = ch[nx - 1] /\ Len(s) = nx - 2
      BY <1>5, <1>6, <1>7, <2>2
    <3>2. Len(t) = Len(s) + 1 /\ t[Len(s) + 1] = x /\ \A j \in 1..Len(s) : t[j] = s[j]
      BY <1>5, <3>1, AppendFacts
    <3> HIDE DEF t
    <3>3. Len(t) = nx - 1 /\ Len(s) + 1 = nx - 1
      BY <1>5, <3>1, <3>2
    <3>4. \A j \in 1..(nx - 1) : j \in 1..Len(s) \/ j = nx - 1
      BY <1>5, <3>1
    <3>5. \A j \in 1..(nx - 1) : t[j] = ch[j]
      BY <1>6, <3>1, <3>2, <3>3, <3>4
    <3> QED
      BY <3>1, <3>3, <3>5
  <2> QED
    BY <1>5, <2>1, <2>2
<1> QED
  BY <1>8, <1>9 DEF nx, ch

LEMMA EncodeItemContent == StackInv /\ ContentInv /\ EncodeItem => ContentInv'
<1> SUFFICES ASSUME StackInv, ContentInv, EncodeItem PROVE ContentInv'
  OBVIOUS
<1> DEFINE c == Child[F.node][F.next]
           es == Replaced(encoders, New)
           g == ItemFrame
<1>0. /\ Resume({"list"}) /\ res = "run" /\ cur' = c /\ encoders' = es
      /\ UNCHANGED <<codec, root, doc, res>>
  BY DEF EncodeItem, Resume, Replaced
<1>1. /\ frames \in Seq(Frame) /\ frames # << >> /\ cur = Absent
      /\ encoders \in Seq(Encoder) /\ encoders # << >>
      /\ F = Top(frames) /\ F \in Frame /\ F.node \in Node /\ KindOf(F.node) = "list"
      /\ CallsOK(frames) /\ Len(encoders) = AtEnc(F)
  BY <1>0, ResumeFacts
<1>2. /\ frames' = Replaced(frames, g) /\ g \in Frame /\ g.node = F.node
      /\ g.next = F.next + 1 /\ g.items = Folded /\ F.next \in 1..Len(Child[F.node])
      /\ IsList(g) /\ IsList(F)
  BY ItemFrameFacts
<1> HIDE DEF g
<1>3. c \in Node /\ c # Absent
  BY <1>1, <1>2, NodeFacts, NodesAssumption
<1>4. F.next \in Nat /\ F.next >= 1 /\ F.enc \in Nat /\ Len(encoders) = F.enc + 1
  BY <1>1, <1>2, FrameFacts DEF AtEnc
<1>5. Contents(frames, encoders, Absent, DOMAIN doc)
  BY <1>1 DEF ContentInv
<1>6. /\ Len(Folded) = F.next - 1
      /\ \A j \in 1..Len(Folded) : Folded[j] = Child[F.node][j]
      /\ \A j \in 1..(F.next - 1) : Child[F.node][j] \in DOMAIN doc \cup {Absent}
  BY <1>0, FoldedItems
<1>7. HoldsItems(g)
  BY <1>2, <1>4, <1>6 DEF HoldsItems
<1>8. Holds(g, es, 1, DOMAIN doc)
  <2>1. g.next - 1 - 1 = F.next - 1
    BY <1>2, <1>4
  <2>2. KindOf(g.node) # "choice"
    BY <1>1, <1>2
  <2> QED
    BY <1>2, <1>6, <1>7, <2>1, <2>2 DEF Holds
<1>9. \A i \in 1..F.enc : es[i] = encoders[i]
  <2>1. \A i \in 1..(Len(encoders) - 1) : es[i] = encoders[i]
    <3>1. encoders \in Seq(Encoder) /\ encoders # << >> /\ New \in Encoder
      BY <1>1, NewFacts
    <3> QED
      BY <3>1, ReplaceFacts
  <2> HIDE DEF es
  <2>2. Len(encoders) - 1 = F.enc
    BY <1>4
  <2> QED
    BY <2>1, <2>2
<1> HIDE DEF c, es
<1>10. Agree(encoders, es, F.enc, F.base, F.maps)
  <2>1. F.enc >= 1
    BY <1>1, TopFrame DEF FrameOK
  <2>2. es[F.enc] = encoders[F.enc] /\ \A i \in 1..(F.enc - 1) : es[i] = encoders[i]
    BY <1>4, <1>9, <2>1
  <2> QED
    BY <2>2 DEF Agree
<1>11. Contents(Replaced(frames, g), es, c, DOMAIN doc)
  <2>1. Pending(c) = 1
    BY <1>3 DEF Pending
  <2> QED
    BY <1>1, <1>2, <1>5, <1>8, <1>10, <2>1, ReplaceContents
<1> QED
  BY <1>0, <1>2, <1>3, <1>11, KeepStep

LEMMA CloseListContent == StackInv /\ ContentInv /\ CloseList => ContentInv'
<1> SUFFICES ASSUME StackInv, ContentInv, CloseList PROVE ContentInv'
  OBVIOUS
<1> DEFINE v == [kind |-> "array", map |-> EmptyMap, items |-> Folded]
           es == Front(encoders)
<1>0. /\ Resume({"list"}) /\ res = "run" /\ frames' = Front(frames) /\ Put(F.node, v)
      /\ Update(es, F.node) /\ F.next > Len(Child[F.node]) /\ UNCHANGED <<codec, root, cur>>
  BY DEF CloseList, Resume, Return
<1>1. /\ frames \in Seq(Frame) /\ frames # << >> /\ cur = Absent
      /\ encoders \in Seq(Encoder) /\ encoders # << >>
      /\ F = Top(frames) /\ F \in Frame /\ FrameOK(F) /\ F.node \in Node
      /\ KindOf(F.node) = "list"
      /\ CallsOK(frames) /\ Waiting(frames, encoders) /\ Len(encoders) = AtEnc(F)
  BY <1>0, ResumeFacts
<1>2. IsList(F) /\ Folded \in Seq(Node)
  BY <1>0, ItemFacts
<1>3. F.enc \in Nat /\ F.enc >= 1 /\ Len(encoders) = F.enc + 1
  BY <1>1, <1>2, FrameFacts DEF AtEnc, FrameOK
<1>4. /\ Front(frames) \in Seq(Frame) /\ es \in Seq(Encoder)
      /\ es # << >> /\ Heights(Front(frames), es, F.node)
  BY <1>1, <1>2, <1>3, CloseListHeights
<1>5. \A i \in 1..F.enc : es[i] = encoders[i]
  <2>1. \A i \in 1..(Len(encoders) - 1) : es[i] = encoders[i]
    BY <1>1, FrontFacts
  <2> HIDE DEF es
  <2>2. Len(encoders) - 1 = F.enc
    BY <1>3
  <2> QED
    BY <2>1, <2>2
<1> HIDE DEF es, v
<1>6. encoders' = Replaced(es, Updated(Top(es), F.node)) /\ res' = "run"
  BY <1>0, <1>1, <1>4, UpdateStep
<1>7. Agree(encoders, es, F.enc, F.base, F.maps)
  <2>1. es[F.enc] = encoders[F.enc] /\ \A i \in 1..(F.enc - 1) : es[i] = encoders[i]
    BY <1>3, <1>5
  <2> QED
    BY <2>1 DEF Agree
<1>8. Contents(frames, encoders, Absent, DOMAIN doc)
  BY <1>1 DEF ContentInv
<1>9. Contents(Front(frames), es, F.node, DOMAIN doc)
  BY <1>1, <1>7, <1>8, PopContents
<1>10. Contents(Front(frames), encoders', Absent, DOMAIN doc \cup {F.node})
  BY <1>1, <1>4, <1>6, <1>9, FinishContents
<1>11. Front(frames) = << >> => F.node = root
  BY <1>1, PopCall DEF Follows
<1>12. F.next - 1 = Len(Child[F.node]) /\ Child[F.node] \in Seq(Node \cup {Absent})
  <2>1. F.next \in 1..(Len(Child[F.node]) + 1)
    BY <1>1 DEF FrameOK
  <2>2. Len(Child[F.node]) \in Nat /\ Child[F.node] \in Seq(Node \cup {Absent})
    BY <1>1, NodeFacts
  <2> QED
    BY <1>0, <2>1, <2>2
<1>13. /\ Len(Folded) = F.next - 1
       /\ \A j \in 1..Len(Folded) : Folded[j] = Child[F.node][j]
       /\ \A j \in 1..(F.next - 1) : Child[F.node][j] \in DOMAIN doc \cup {Absent}
  BY <1>0, FoldedItems
<1>14. Folded = Child[F.node]
  <2> DEFINE s == Folded
             t == Child[F.node]
  <2>1. s \in Seq(Node) /\ t \in Seq(Node \cup {Absent}) /\ Len(s) = Len(t)
        /\ \A j \in 1..Len(s) : s[j] = t[j]
    BY <1>2, <1>12, <1>13
  <2> HIDE DEF s, t
  <2>2. s = t
    BY <2>1
  <2> QED
    BY <2>2 DEF s, t
<1>15. Faithful(F.node, v)
  BY <1>1, <1>14 DEF Faithful, Expected, Written, Constructed, v
<1> QED
  BY <1>0, <1>1, <1>6, <1>10, <1>11, <1>12, <1>13, <1>15, PutStep

LEMMA FinishContent == StackInv /\ ContentInv /\ Finish => ContentInv'
<1> SUFFICES ASSUME StackInv, ContentInv, Finish PROVE ContentInv'
  OBVIOUS
<1>1. cur' = Absent /\ UNCHANGED <<codec, root, cur, frames, encoders, doc>>
  BY DEF Finish
<1>2. frames' = << >>
  BY FinishStack DEF StackInv
<1>3. Contents(frames', encoders', cur', DOMAIN doc)
  BY <1>1 DEF ContentInv
<1> QED
  BY <1>1, <1>2, <1>3, KeepStep

\* A step that leaves the stacks and the documents as they are
LEMMA SameContent ==
    ASSUME ContentInv, UNCHANGED <<codec, root, cur, frames, encoders, doc>>,
           res' = "ok" => res = "ok", StackInv
    PROVE  ContentInv'
<1>1. Contents(frames', encoders', cur', DOMAIN doc)
  BY DEF ContentInv
<1>2. res' = "ok" => frames' = << >> /\ cur' = Absent
  BY DEF StackInv
<1> QED
  BY <1>1, <1>2, KeepStep

LEMMA NextContent == StackInv /\ ContentInv /\ [Next]_vars => ContentInv'
<1> SUFFICES ASSUME StackInv, ContentInv, [Next]_vars PROVE ContentInv'
  OBVIOUS
<1>1. CASE EncodePrimitive \/ EncodeSequence \/ EncodeField \/ EncodeNone \/ CloseSequence
  BY <1>1, EncodePrimitiveContent, EncodeSequenceContent, EncodeFieldContent,
     EncodeNoneContent, CloseSequenceContent
<1>2. CASE EncodeChoice \/ CloseChoice
  BY <1>2, EncodeChoiceContent, CloseChoiceContent
<1>3. CASE RejectChoice
  BY <1>3, SameContent DEF RejectChoice
<1>4. CASE EncodeList \/ EncodeItem \/ CloseList \/ Finish
  BY <1>4, EncodeListContent, EncodeItemContent, CloseListContent, FinishContent
<1>5. CASE UNCHANGED vars
  BY <1>5, SameContent DEF vars
<1> QED
  BY <1>1, <1>2, <1>3, <1>4, <1>5 DEF Next, Step, Stop

\* EncodesFaithfully: whatever a value nests, every object, array and CHOICE
\* that is made holds each component under the component's own name, and
\* nothing else; every component was made too, and at the end the root was.  A
\* CHOICE whose alternative comes after an untagged CHOICE, or is one, is stored
\* whole as well, but under any of its identifiers: encode_choice takes a place
\* in the flattened list of tags for a place in IDENTIFIERS.
THEOREM EncodesCorrect == Spec => []EncodesFaithfully
<1>1. Init => StackInv /\ ContentInv
  BY InitStack, InitContent
<1>2. StackInv /\ ContentInv /\ [Next]_vars => (StackInv /\ ContentInv)'
  BY NextStack, NextContent
<1>3. ContentInv => EncodesFaithfully
  BY DEF ContentInv
<1> QED
  BY <1>1, <1>2, <1>3, PTL DEF Spec
=============================================================================
