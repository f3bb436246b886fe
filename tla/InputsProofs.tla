------------------------------ MODULE InputsProofs ------------------------------
(***************************************************************************)
(* Proofs about what the program reads once: durations, for an int64 of    *)
(* any width, any units and any texts, the objects the cache strips, for   *)
(* any values, and the settings of a process.                              *)
(***************************************************************************)
EXTENDS FlexibleDuration, ObjectTransform, Startup, FiniteSetTheorems, WellFoundedInduction, TLAPS

-----------------------------------------------------------------------------
(* The range of a duration.                                                 *)

LEMMA RangeTyped == Least \in Int /\ Largest \in Int /\ Largest - Least + 1 = Word /\ Least <= 0 /\ 0 <= Largest
BY WordAssumption DEF Least, Largest

\* Arithmetic of time.Duration never leaves the range of an int64.
LEMMA WrapInRange == ASSUME NEW x \in Int PROVE Wrap(x) \in Least .. Largest
<1>1. (x - Least) % Word \in 0 .. Word - 1
  BY RangeTyped, WordAssumption
<1>2. Least + ((x - Least) % Word) \in Least .. Largest
  BY <1>1, RangeTyped, WordAssumption
<1> QED
  BY <1>2, RangeTyped DEF Wrap

\* The parts of an element that is not refused are in range, too.
LEMMA PartsInRange ==
  ASSUME NEW e \in Elements, ~Refuses(e), NEW part \in Parts(e)
  PROVE  part \in Least .. Largest
<1>1. e.unit \in Units /\ e.num \in Nat
  BY DEF Elements, Refuses, Numbers
<1>2. e.num * Ticks[e.unit] \in Nat
  BY <1>1, UnitAssumption
<1>3. CASE e.unit \in Exact
  BY <1>1, <1>2, <1>3, RangeTyped DEF Parts, Refuses, InRange
<1>4. CASE e.unit \notin Exact
  BY <1>2, <1>4, RangeTyped DEF Parts, FromFloat
<1> QED
  BY <1>3, <1>4

\* Every step of the parser reads an element of the text.
LEMMA ElementRead ==
  ASSUME DurationTypeOK, next <= Len(text.elements)
  PROVE  next \in DOMAIN text.elements /\ text.elements[next] \in Elements
<1>1. text.elements \in Seq(Elements)
  BY DEF DurationTypeOK
<1> QED
  BY <1>1 DEF DurationTypeOK

LEMMA DurationStepTyped == ASSUME DurationTypeOK, [Next]_durationVars PROVE DurationTypeOK'
<1>1. CASE Fail
  BY <1>1 DEF Fail, DurationTypeOK
<1>2. CASE Add
  <2>1. PICK part \in Parts(text.elements[next]) : sum' = Wrap(sum + part)
    BY <1>2 DEF Add
  <2>2. text.elements[next] \in Elements /\ ~Refuses(text.elements[next])
    BY <1>2, ElementRead DEF Add
  <2>3. part \in Int /\ sum \in Int
    BY <2>1, <2>2, PartsInRange, RangeTyped DEF DurationTypeOK
  <2>4. sum' \in Least .. Largest
    BY <2>1, <2>3, WrapInRange
  <2> QED
    BY <1>2, <2>4 DEF Add, DurationTypeOK
<1>3. CASE Finish
  <2>1. sum \in Int /\ -sum \in Int
    BY RangeTyped DEF DurationTypeOK
  <2>2. sum' \in Least .. Largest
    BY <1>3, <2>1, WrapInRange DEF Finish, DurationTypeOK
  <2> QED
    BY <1>3, <2>2 DEF Finish, DurationTypeOK
<1>4. CASE UNCHANGED durationVars
  BY <1>4 DEF durationVars, DurationTypeOK
<1> QED
  BY <1>1, <1>2, <1>3, <1>4 DEF Next

LEMMA InitTyped == ASSUME Init PROVE DurationTypeOK
BY TextAssumption, RangeTyped DEF Init, DurationTypeOK

-----------------------------------------------------------------------------
(* When the parser gives up.                                                *)

Unreadable(t) == t.elements = <<>> \/ \E k \in DOMAIN t.elements : Refuses(t.elements[k])

\* The parser answers with an error if the text has no element or one it refuses,
\* and with a value otherwise: the part of ReadAsWritten that takes no sum.
RefusesUnreadable == answer # "none" => (answer = "error" <=> Unreadable(text))

\* What the parser has passed it could read.
Passed ==
  /\ \A k \in DOMAIN text.elements : k < next => ~Refuses(text.elements[k])
  /\ answer = "error" => Unreadable(text)
  /\ answer = "value" => ~Unreadable(text)

ParserInv == DurationTypeOK /\ Passed

LEMMA ParserGoesOn == ASSUME ParserInv, [Next]_durationVars PROVE ParserInv'
<1>1. DurationTypeOK'
  BY DurationStepTyped DEF ParserInv
<1>2. DurationTypeOK /\ Passed /\ text.elements \in Seq(Elements)
  BY DEF ParserInv, DurationTypeOK
<1>3. CASE Fail
  <2>1. Unreadable(text)
    BY <1>2, <1>3, ElementRead DEF Fail, Unreadable
  <2> QED
    BY <1>1, <1>2, <1>3, <2>1 DEF Fail, ParserInv, Passed, Unreadable
<1>4. CASE Add
  <2>1. ~Refuses(text.elements[next]) /\ next' = next + 1 /\ text' = text /\ answer' = answer
    BY <1>4 DEF Add
  <2>2. ASSUME NEW k \in DOMAIN text.elements, k < next' PROVE ~Refuses(text.elements[k])
    <3>1. k \in Nat /\ next \in Nat
      BY <1>2 DEF DurationTypeOK
    <3>2. k < next \/ k = next
      BY <2>1, <2>2, <3>1
    <3> QED
      BY <1>2, <2>1, <3>2 DEF Passed
  <2> QED
    BY <1>1, <1>2, <2>1, <2>2 DEF ParserInv, Passed, Unreadable
<1>5. CASE Finish
  <2>1. \A k \in DOMAIN text.elements : k \in Nat /\ k <= Len(text.elements)
    BY <1>2
  <2>2. Len(text.elements) \in Nat /\ next \in Nat /\ Len(text.elements) < next
    BY <1>2, <1>5 DEF Finish, DurationTypeOK
  <2>3. \A k \in DOMAIN text.elements : k < next
    BY <2>1, <2>2
  <2>4. ~Unreadable(text)
    BY <1>2, <1>5, <2>3 DEF Finish, Passed, Unreadable
  <2> QED
    BY <1>1, <1>2, <1>5, <2>4 DEF Finish, ParserInv, Passed, Unreadable
<1>6. CASE UNCHANGED durationVars
  BY <1>1, <1>2, <1>6 DEF durationVars, ParserInv, Passed, Unreadable
<1> QED
  BY <1>3, <1>4, <1>5, <1>6 DEF Next

\* No text is answered with a value that has an element the parser cannot read, at
\* whatever place, and no other text that has elements is refused.
THEOREM ReadableIsAnswered == Spec => []RefusesUnreadable
<1>1. Init => ParserInv
  <2>1. ASSUME Init PROVE Passed
    <3>1. text.elements \in Seq(Elements)
      BY <2>1, InitTyped DEF DurationTypeOK
    <3>2. \A k \in DOMAIN text.elements : ~(k < next)
      BY <2>1, <3>1 DEF Init
    <3> QED
      BY <2>1, <3>2 DEF Init, Passed
  <2> QED
    BY <2>1, InitTyped DEF ParserInv
<1>2. ParserInv /\ [Next]_durationVars => ParserInv'
  BY ParserGoesOn
<1>3. ParserInv => RefusesUnreadable
  BY DEF ParserInv, DurationTypeOK, Passed, RefusesUnreadable
<1> QED
  BY <1>1, <1>2, <1>3, PTL DEF Spec

-----------------------------------------------------------------------------
(* Sums over finite sets. Written is one, by the fold of the community modules, *)
(* and what a fold computes is found by induction, here as facts about sets:    *)
(* of numbers, of which the least that breaks a claim does not exist.           *)

LEMMA SetInduction ==
  ASSUME NEW P \in SUBSET Nat, 0 \in P, \A n \in P : n + 1 \in P
  PROVE  P = Nat
<1> SUFFICES ASSUME Nat \ P # {} PROVE FALSE
  OBVIOUS
<1>1. PICK n \in Nat \ P : \A m \in Nat \ P : ~(<<m, n>> \in OpToRel(<, Nat))
  <2> HIDE DEF OpToRel
  <2> QED
    BY NatLessThanWellFounded, WFMin
<1>2. n \in Nat /\ n \notin P /\ n # 0
  BY <1>1, Zenon
<1>3. n - 1 \in Nat /\ n - 1 < n /\ (n - 1) + 1 = n
  BY <1>2
<1>4. <<n - 1, n>> \in OpToRel(<, Nat)
  BY <1>2, <1>3 DEF OpToRel
<1>5. n - 1 \in P
  BY <1>1, <1>3, <1>4, Zenon
<1>6. (n - 1) + 1 \in P
  BY <1>5
<1> QED
  BY <1>2, <1>3, <1>6, Zenon

Pick(s) == CHOOSE x \in s : TRUE

\* The equation behind the fold: one element of a set, and the sum of the rest.
Equation(f, g, s) == IF s = {} THEN 0 ELSE f[Pick(s)] + g[s \ {Pick(s)}]

IsSum(D, f, g) == g = [s \in SUBSET D |-> Equation(f, g, s)]

LEMMA Rest ==
  ASSUME NEW D, IsFiniteSet(D), NEW s \in SUBSET D, NEW x \in s
  PROVE  /\ s \ {x} \in SUBSET D
         /\ Cardinality(s) \in Nat /\ Cardinality(s \ {x}) \in Nat
         /\ Cardinality(s) = Cardinality(s \ {x}) + 1
<1>1. IsFiniteSet(s)
  BY FS_Subset
<1>2. Cardinality(s) \in Nat /\ IsFiniteSet(s \ {x}) /\ Cardinality(s \ {x}) = Cardinality(s) - 1
  BY <1>1, FS_RemoveElement, FS_CardinalityType
<1>3. Cardinality(s \ {x}) \in Nat
  BY <1>2, FS_CardinalityType
<1> QED
  BY <1>2, <1>3

LEMMA Picked == ASSUME NEW s, s # {} PROVE Pick(s) \in s
BY DEF Pick

\* A finite set has a sum: the function the recursive definition chooses exists.
LEMMA SumExists ==
  ASSUME NEW D, IsFiniteSet(D), NEW f
  PROVE  \E g : IsSum(D, f, g)
<1> DEFINE Upto(n, g) == \A s \in SUBSET D : Cardinality(s) <= n => g[s] = Equation(f, g, s)
           P == {n \in Nat : \E g : Upto(n, g)}
<1>1. \A s \in SUBSET D : IsFiniteSet(s) /\ Cardinality(s) \in Nat /\ Cardinality(s) <= Cardinality(D)
  BY FS_Subset, FS_CardinalityType
<1>2. 0 \in P
  <2>1. Upto(0, [s \in SUBSET D |-> 0])
    <3> SUFFICES ASSUME NEW s \in SUBSET D, Cardinality(s) <= 0
                 PROVE  0 = Equation(f, [u \in SUBSET D |-> 0], s)
      OBVIOUS
    <3>1. s = {}
      BY <1>1, FS_EmptySet
    <3> QED
      BY <3>1 DEF Equation
  <2> QED
    BY <2>1
<1>3. ASSUME NEW n \in P PROVE n + 1 \in P
  <2>1. PICK g : Upto(n, g)
    BY <1>3
  <2> DEFINE h == [s \in SUBSET D |-> Equation(f, g, s)]
  <2>2. ASSUME NEW s \in SUBSET D, Cardinality(s) <= n + 1 PROVE h[s] = Equation(f, h, s)
    <3>1. CASE s = {}
      BY <3>1 DEF Equation
    <3>2. CASE s # {}
      <4> DEFINE r == s \ {Pick(s)}
      <4>1. r \in SUBSET D /\ Cardinality(r) <= n
        <5>1. Pick(s) \in s /\ n \in Nat
          BY <1>3, <3>2, Picked
        <5>2. /\ r \in SUBSET D
              /\ Cardinality(s) \in Nat /\ Cardinality(r) \in Nat /\ Cardinality(s) = Cardinality(r) + 1
          BY <5>1, Rest
        <5> QED
          BY <2>2, <5>1, <5>2
      <4>2. h[r] = g[r]
        BY <2>1, <4>1
      <4>3. h[s] = Equation(f, g, s)
        OBVIOUS
      <4> HIDE DEF h
      <4> QED
        BY <3>2, <4>2, <4>3 DEF Equation
    <3> QED
      BY <3>1, <3>2
  <2>3. Upto(n + 1, h)
    BY <2>2
  <2> HIDE DEF h, Upto
  <2> QED
    BY <1>3, <2>3
<1>4. Cardinality(D) \in P
  <2>1. Cardinality(D) \in Nat
    BY FS_CardinalityType
  <2> HIDE DEF P
  <2>2. P = Nat
    <3>1. P \in SUBSET Nat
      BY DEF P
    <3> QED
      BY <1>2, <1>3, <3>1, SetInduction
  <2> QED
    BY <2>1, <2>2
<1>5. PICK g : Upto(Cardinality(D), g)
  BY <1>4
<1> DEFINE h == [s \in SUBSET D |-> Equation(f, g, s)]
<1>6. \A s \in SUBSET D : h[s] = g[s]
  BY <1>1, <1>5
<1>7. ASSUME NEW s \in SUBSET D PROVE Equation(f, g, s) = Equation(f, h, s)
  <2>1. CASE s = {}
    BY <2>1 DEF Equation
  <2>2. CASE s # {}
    <3>1. s \ {Pick(s)} \in SUBSET D
      OBVIOUS
    <3> HIDE DEF h
    <3> QED
      BY <1>6, <2>2, <3>1 DEF Equation
  <2> QED
    BY <2>1, <2>2
<1>8. h = [s \in SUBSET D |-> Equation(f, h, s)]
  BY <1>7
<1> QED
  BY <1>8 DEF IsSum

LEMMA SumEquation ==
  ASSUME NEW D, NEW f, NEW g, IsSum(D, f, g), NEW s \in SUBSET D
  PROVE  g[s] = Equation(f, g, s)
BY DEF IsSum

\* Sums of natural numbers are natural numbers.
LEMMA SumTyped ==
  ASSUME NEW D, IsFiniteSet(D), NEW f \in [D -> Nat], NEW g, IsSum(D, f, g)
  PROVE  g \in [SUBSET D -> Nat]
<1> DEFINE P == {n \in Nat : \A s \in SUBSET D : Cardinality(s) = n => g[s] \in Nat}
<1>1. 0 \in P
  <2>1. ASSUME NEW s \in SUBSET D, Cardinality(s) = 0 PROVE g[s] \in Nat
    <3>1. s = {}
      BY <2>1, FS_Subset, FS_EmptySet
    <3> QED
      BY <3>1, SumEquation DEF Equation
  <2> QED
    BY <2>1
<1>2. ASSUME NEW n \in P PROVE n + 1 \in P
  <2>1. ASSUME NEW s \in SUBSET D, Cardinality(s) = n + 1 PROVE g[s] \in Nat
    <3>1. CASE s = {}
      BY <3>1, SumEquation DEF Equation
    <3>2. CASE s # {}
      <4> DEFINE r == s \ {Pick(s)}
      <4>1. Pick(s) \in s /\ f[Pick(s)] \in Nat
        BY <3>2, Picked
      <4>2. r \in SUBSET D /\ Cardinality(r) \in Nat /\ Cardinality(s) = Cardinality(r) + 1
        BY <4>1, Rest
      <4>3. Cardinality(r) = n
        BY <1>2, <2>1, <4>2
      <4>4. g[r] \in Nat
        BY <1>2, <4>2, <4>3
      <4>5. g[s] = f[Pick(s)] + g[r]
        BY <3>2, SumEquation DEF Equation
      <4> QED
        BY <4>1, <4>4, <4>5
    <3> QED
      BY <3>1, <3>2
  <2> QED
    BY <1>2, <2>1
<1>3. P \in SUBSET Nat
  OBVIOUS
<1>4. P = Nat
  <2> HIDE DEF P
  <2> QED
    BY <1>1, <1>2, <1>3, SetInduction
<1>5. ASSUME NEW s \in SUBSET D PROVE g[s] \in Nat
  <2>1. Cardinality(s) \in Nat
    BY FS_Subset, FS_CardinalityType
  <2> QED
    BY <1>4, <2>1
<1> QED
  BY <1>5 DEF IsSum

\* Any element may be the one that is added last.
LEMMA AnyLast ==
  ASSUME NEW D, IsFiniteSet(D), NEW f \in [D -> Nat], NEW g, IsSum(D, f, g),
         NEW s \in SUBSET D, NEW x \in s
  PROVE  g[s] = f[x] + g[s \ {x}]
<1> DEFINE P == {n \in Nat : \A u \in SUBSET D : Cardinality(u) = n =>
                               \A z \in u : g[u] = f[z] + g[u \ {z}]}
<1>1. 0 \in P
  <2>1. ASSUME NEW u \in SUBSET D, Cardinality(u) = 0 PROVE u = {}
    BY <2>1, FS_Subset, FS_EmptySet
  <2> QED
    BY <2>1
<1>2. ASSUME NEW n \in P PROVE n + 1 \in P
  <2>1. ASSUME NEW u \in SUBSET D, Cardinality(u) = n + 1, NEW z \in u
        PROVE  g[u] = f[z] + g[u \ {z}]
    <3> DEFINE y == Pick(u)
    <3>1. y \in u /\ g[u] = f[y] + g[u \ {y}]
      BY Picked, SumEquation DEF Equation
    <3> HIDE DEF y
    <3>2. CASE y = z
      BY <3>1, <3>2
    <3>3. CASE y # z
      <4>1. /\ u \ {z} \in SUBSET D /\ Cardinality(u \ {z}) \in Nat /\ Cardinality(u) = Cardinality(u \ {z}) + 1
            /\ u \ {y} \in SUBSET D /\ Cardinality(u \ {y}) \in Nat /\ Cardinality(u) = Cardinality(u \ {y}) + 1
        BY <3>1, Rest
      <4>2. Cardinality(u \ {z}) = n /\ Cardinality(u \ {y}) = n
        BY <1>2, <2>1, <4>1
      <4>3. y \in u \ {z} /\ z \in u \ {y} /\ (u \ {z}) \ {y} = (u \ {y}) \ {z}
        BY <3>1, <3>3
      <4> DEFINE r == (u \ {y}) \ {z}
      <4>4. g[u \ {z}] = f[y] + g[r] /\ g[u \ {y}] = f[z] + g[r]
        BY <1>2, <4>1, <4>2, <4>3
      <4>5. f[z] \in Nat /\ f[y] \in Nat /\ g[r] \in Nat
        <5>1. g \in [SUBSET D -> Nat] /\ r \in SUBSET D
          BY <4>1, SumTyped
        <5> HIDE DEF r
        <5> QED
          BY <3>1, <5>1
      <4> HIDE DEF r
      <4> QED
        BY <3>1, <4>4, <4>5
    <3> QED
      BY <3>2, <3>3
  <2> QED
    BY <1>2, <2>1
<1>3. P \in SUBSET Nat
  OBVIOUS
<1>4. P = Nat
  <2> HIDE DEF P
  <2> QED
    BY <1>1, <1>2, <1>3, SetInduction
<1>5. Cardinality(s) \in P /\ Cardinality(s) = Cardinality(s)
  BY <1>4, FS_Subset, FS_CardinalityType
<1> QED
  BY <1>5

-----------------------------------------------------------------------------
(* What the elements of a text add up to.                                   *)

\* How long an element of a text is, as it is written.
Length(t, k) == t.elements[k].num * Ticks[t.elements[k].unit]

\* The sums of the first elements of a text: none leaves the whole behind.
PrefixSums(t, p) ==
  LET n == Len(t.elements) IN
  /\ p \in [0 .. n -> Nat]
  /\ p[0] = 0
  /\ p[n] = Written(t)
  /\ \A k \in 1 .. n : p[k] = p[k - 1] + Length(t, k)
  /\ \A k \in 0 .. n : p[k] <= p[n]

\* The lengths of a text the parser can read are natural numbers.
LEMMA LengthTyped ==
  ASSUME NEW t \in [neg : BOOLEAN, elements : Seq(Elements)],
         \A k \in DOMAIN t.elements : ~Refuses(t.elements[k])
  PROVE  \A k \in DOMAIN t.elements : Length(t, k) \in Nat
<1> SUFFICES ASSUME NEW k \in DOMAIN t.elements PROVE Length(t, k) \in Nat
  OBVIOUS
<1> DEFINE e == t.elements[k]
<1>1. e \in Elements /\ ~Refuses(e)
  OBVIOUS
<1> HIDE DEF e
<1>2. e.unit \in Units /\ e.num \in Nat
  BY <1>1 DEF Elements, Refuses, Numbers
<1>3. Ticks[e.unit] \in Nat
  BY <1>2, UnitAssumption
<1>4. e.num * Ticks[e.unit] \in Nat
  BY <1>2, <1>3
<1> QED
  BY <1>4 DEF Length, e

\* Every prefix of a sum of natural numbers is at most the sum.
LEMMA PrefixesGrow ==
  ASSUME NEW n \in Nat, NEW p \in [0 .. n -> Nat], \A k \in 1 .. n : p[k - 1] <= p[k]
  PROVE  \A k \in 0 .. n : p[k] <= p[n]
<1> DEFINE P == {d \in Nat : d <= n => p[n - d] <= p[n]}
<1>1. 0 \in P
  OBVIOUS
<1>2. ASSUME NEW d \in P PROVE d + 1 \in P
  <2>1. d \in Nat /\ d + 1 \in Nat
    OBVIOUS
  <2>2. ASSUME d + 1 <= n PROVE p[n - (d + 1)] <= p[n]
    <3>1. n - d \in 1 .. n /\ (n - d) - 1 = n - (d + 1) /\ n - (d + 1) \in 0 .. n /\ n \in 0 .. n
      BY <2>1, <2>2
    <3>2. p[n - (d + 1)] <= p[n - d] /\ p[n - d] <= p[n]
      BY <2>1, <2>2, <3>1
    <3>3. p[n - (d + 1)] \in Nat /\ p[n - d] \in Nat /\ p[n] \in Nat
      BY <3>1
    <3> QED
      BY <3>2, <3>3
  <2> QED
    BY <2>1, <2>2
<1>3. P \in SUBSET Nat
  OBVIOUS
<1>4. P = Nat
  <2> HIDE DEF P
  <2> QED
    BY <1>1, <1>2, <1>3, SetInduction
<1>5. ASSUME NEW k \in 0 .. n PROVE p[k] <= p[n]
  <2>1. n - k \in Nat /\ n - k <= n /\ n - (n - k) = k
    OBVIOUS
  <2> QED
    BY <1>4, <2>1
<1> QED
  BY <1>5

\* The fold behind Written, for a text the parser can read: the sums of the first
\* elements, each the one before and one element more, and none more than the whole.
LEMMA WrittenIsSum ==
  ASSUME NEW t \in [neg : BOOLEAN, elements : Seq(Elements)],
         \A k \in DOMAIN t.elements : ~Refuses(t.elements[k])
  PROVE  \E p : PrefixSums(t, p)
<1> DEFINE n == Len(t.elements)
           D == 1 .. n
           f == [k \in D |-> Length(t, k)]
           g == CHOOSE h : IsSum(D, f, h)
           p == [k \in 0 .. n |-> g[1 .. k]]
<1>1. DOMAIN t.elements = D /\ n \in Nat
  OBVIOUS
<1>2. IsFiniteSet(D)
  BY <1>1, FS_Interval
<1>3. f \in [D -> Nat]
  BY <1>1, LengthTyped
<1>4. IsSum(D, f, g)
  <2> HIDE DEF D, f
  <2> QED
    BY <1>2, SumExists
<1>5. Written(t) = g[D]
  <2>1. Written(t) = (CHOOSE h : h = [s \in SUBSET D |->
          IF s = {} THEN 0 ELSE Length(t, CHOOSE x \in s : TRUE) + h[s \ {CHOOSE x \in s : TRUE}]])[D]
    BY <1>1 DEF Written, MapThenSumSet, MapThenFoldSet, Length
  <2>2. ASSUME NEW h
        PROVE  IsSum(D, f, h) <=> h = [s \in SUBSET D |->
          IF s = {} THEN 0 ELSE Length(t, CHOOSE x \in s : TRUE) + h[s \ {CHOOSE x \in s : TRUE}]]
    <3>1. ASSUME NEW s \in SUBSET D
          PROVE  Equation(f, h, s) = IF s = {} THEN 0 ELSE Length(t, CHOOSE x \in s : TRUE) + h[s \ {CHOOSE x \in s : TRUE}]
      <4>1. s # {} => f[Pick(s)] = Length(t, Pick(s))
        BY Picked
      <4> HIDE DEF f
      <4> QED
        BY <4>1 DEF Equation, Pick
    <3> HIDE DEF D, f
    <3>2. [s \in SUBSET D |-> Equation(f, h, s)] = [s \in SUBSET D |->
            IF s = {} THEN 0 ELSE Length(t, CHOOSE x \in s : TRUE) + h[s \ {CHOOSE x \in s : TRUE}]]
      BY <3>1
    <3> QED
      BY <3>2 DEF IsSum
  <2> HIDE DEF D, f
  <2>3. g = (CHOOSE h : h = [s \in SUBSET D |->
          IF s = {} THEN 0 ELSE Length(t, CHOOSE x \in s : TRUE) + h[s \ {CHOOSE x \in s : TRUE}]])
    BY <2>2, Zenon
  <2> QED
    BY <2>1, <2>3
<1> HIDE DEF g
<1>6. g \in [SUBSET D -> Nat]
  <2> HIDE DEF D, f
  <2> QED
    BY <1>2, <1>3, <1>4, SumTyped
<1>7. g[{}] = 0
  <2> HIDE DEF D, f
  <2> QED
    BY <1>4, SumEquation DEF Equation
<1>8. \A s \in SUBSET D : \A x \in s : g[s] = f[x] + g[s \ {x}]
  <2> HIDE DEF D, f
  <2>1. ASSUME NEW s \in SUBSET D, NEW x \in s PROVE g[s] = f[x] + g[s \ {x}]
    BY <1>2, <1>3, <1>4, AnyLast
  <2> QED
    BY <2>1
<1>9. p \in [0 .. n -> Nat] /\ p[0] = 0 /\ p[n] = g[D]
  <2>1. \A k \in 0 .. n : 1 .. k \in SUBSET D
    BY <1>1
  <2>2. 1 .. 0 = {} /\ 0 \in 0 .. n /\ n \in 0 .. n
    BY <1>1
  <2> HIDE DEF n
  <2> QED
    BY <1>6, <1>7, <2>1, <2>2
<1>10. ASSUME NEW k \in 1 .. n PROVE p[k] = p[k - 1] + Length(t, k) /\ p[k - 1] <= p[k]
  <2>1. /\ k \in 0 .. n /\ k - 1 \in 0 .. n /\ k \in 1 .. k /\ 1 .. k \in SUBSET D
        /\ (1 .. k) \ {k} = 1 .. (k - 1)
    BY <1>1
  <2>2. g[1 .. k] = f[k] + g[1 .. (k - 1)]
    BY <1>8, <2>1
  <2>3. p[k] = g[1 .. k] /\ p[k - 1] = g[1 .. (k - 1)] /\ f[k] = Length(t, k)
    BY <2>1
  <2>4. f[k] \in Nat /\ p[k] \in Nat /\ p[k - 1] \in Nat
    BY <1>3, <1>9, <2>1
  <2> HIDE DEF f, p
  <2> QED
    BY <2>2, <2>3, <2>4
<1>11. \A k \in 0 .. n : p[k] <= p[n]
  <2> HIDE DEF p, n
  <2> QED
    BY <1>1, <1>9, <1>10, PrefixesGrow
<1> HIDE DEF p
<1>12. PrefixSums(t, p)
  BY <1>5, <1>9, <1>10, <1>11 DEF PrefixSums
<1> QED
  BY <1>12

\* As long as a text can be read and an int64 holds what it says, the sum is that of
\* the elements passed, and with the answer that of all, with the sign.
SumSoFar ==
  /\ next <= Len(text.elements) + 1
  /\ \A p : ~Unreadable(text) /\ InRange(Written(text)) /\ PrefixSums(text, p) =>
       /\ answer = "none" => sum = p[next - 1]
       /\ answer = "value" => sum = IF text.neg THEN -Written(text) ELSE Written(text)

SumInv == ParserInv /\ SumSoFar

\* A number in range is not changed, nor is the negative of one that is positive.
LEMMA WrapKeeps ==
  ASSUME NEW x \in Int, InRange(x) PROVE Wrap(x) = x /\ Wrap(-x) = -x
<1>1. Least <= x /\ x <= Largest /\ Least <= -x /\ -x <= Largest
  BY RangeTyped, WordAssumption DEF InRange, Least, Largest
<1> QED
  BY <1>1 DEF Wrap

\* An element adds its length, if that is in range.
LEMMA PartIsLength ==
  ASSUME NEW t, NEW k, InRange(Length(t, k)) PROVE Parts(t.elements[k]) = {Length(t, k)}
BY DEF InRange, Parts, FromFloat, Length

LEMMA SumGoesOn == ASSUME SumInv, [Next]_durationVars PROVE SumInv'
<1>1. ParserInv'
  BY ParserGoesOn DEF SumInv
<1>2. text.elements \in Seq(Elements) /\ text.neg \in BOOLEAN /\ next \in Nat \ {0}
  BY DEF SumInv, ParserInv, DurationTypeOK
<1> DEFINE n == Len(text.elements)
<1>3. n \in Nat /\ next <= n + 1
  BY <1>2 DEF SumInv, SumSoFar
<1>4. ASSUME NEW p, ~Unreadable(text), InRange(Written(text)), PrefixSums(text, p)
      PROVE  /\ answer = "none" => sum = p[next - 1]
             /\ answer = "value" => sum = IF text.neg THEN -Written(text) ELSE Written(text)
  BY <1>4 DEF SumInv, SumSoFar
<1>5. CASE Fail
  BY <1>1, <1>3, <1>4, <1>5 DEF Fail, SumInv, SumSoFar
<1>6. CASE Add
  <2>1. next' = next + 1 /\ text' = text /\ answer' = "none" /\ answer = "none" /\ next <= n
    BY <1>6 DEF Add
  <2>2. ASSUME NEW p, ~Unreadable(text), InRange(Written(text)), PrefixSums(text, p)
        PROVE  sum' = p[next]
    <3>1. next \in 1 .. n /\ next \in 0 .. n /\ next - 1 \in 0 .. n
      BY <1>2, <1>3, <2>1
    <3>2. /\ p[next] \in Nat /\ p[next - 1] \in Nat /\ p[n] = Written(text)
          /\ p[next] = p[next - 1] + Length(text, next) /\ p[next] <= p[n]
      BY <2>2, <3>1 DEF PrefixSums
    <3>3. Length(text, next) \in Nat
      <4>1. DOMAIN text.elements = 1 .. n /\ text \in [neg : BOOLEAN, elements : Seq(Elements)]
        BY <1>2 DEF SumInv, ParserInv, DurationTypeOK
      <4> QED
        BY <2>2, <3>1, <4>1, LengthTyped DEF Unreadable
    <3>4. InRange(p[next]) /\ InRange(Length(text, next))
      BY <2>2, <3>2, <3>3, RangeTyped DEF InRange
    <3>5. sum = p[next - 1]
      BY <1>4, <2>1, <2>2
    <3>6. sum' = Wrap(sum + Length(text, next))
      BY <1>6, <3>4, PartIsLength DEF Add
    <3> QED
      BY <3>2, <3>3, <3>4, <3>5, <3>6, WrapKeeps
  <2>3. (next + 1) - 1 = next /\ next + 1 <= n + 1
    BY <1>2, <1>3, <2>1
  <2> QED
    BY <1>1, <2>1, <2>2, <2>3 DEF SumInv, SumSoFar
<1>7. CASE Finish
  <2>1. /\ next' = next /\ text' = text /\ answer' = "value" /\ answer = "none" /\ next > n
        /\ sum' = IF text.neg THEN Wrap(-sum) ELSE sum
    BY <1>7 DEF Finish
  <2>2. next - 1 = n
    BY <1>2, <1>3, <2>1
  <2>3. ASSUME NEW p, ~Unreadable(text), InRange(Written(text)), PrefixSums(text, p)
        PROVE  sum' = IF text.neg THEN -Written(text) ELSE Written(text)
    <3>1. sum = Written(text)
      BY <1>4, <2>1, <2>2, <2>3 DEF PrefixSums
    <3>2. Wrap(-Written(text)) = -Written(text)
      BY <2>3, WrapKeeps DEF InRange
    <3> QED
      BY <2>1, <3>1, <3>2
  <2> QED
    BY <1>1, <1>3, <2>1, <2>3 DEF SumInv, SumSoFar
<1>8. CASE UNCHANGED durationVars
  BY <1>1, <1>3, <1>4, <1>8 DEF durationVars, SumInv, SumSoFar
<1> QED
  BY <1>5, <1>6, <1>7, <1>8 DEF Next

\* Whatever the text, the units and the width of an int64: the parser reads a text
\* as it is written, no element lost, none counted twice, the sign on all of them,
\* and the sum never leaves the range while the whole is in it.
THEOREM ParserReadsAsWritten == Spec => []ReadAsWritten
<1>1. Init => SumInv
  <2> SUFFICES ASSUME Init PROVE SumInv
    OBVIOUS
  <2>1. DurationTypeOK /\ text.elements \in Seq(Elements)
    BY InitTyped DEF DurationTypeOK
  <2>2. Passed
    <3>1. \A k \in DOMAIN text.elements : ~(k < next)
      BY <2>1 DEF Init
    <3> QED
      BY <3>1 DEF Init, Passed
  <2>3. SumSoFar
    BY <2>1 DEF Init, SumSoFar, PrefixSums
  <2> QED
    BY <2>1, <2>2, <2>3 DEF SumInv, ParserInv
<1>2. SumInv /\ [Next]_durationVars => SumInv'
  BY SumGoesOn
<1>3. SumInv => ReadAsWritten
  <2> SUFFICES ASSUME SumInv, answer # "none" PROVE
        /\ answer = "error" <=> Unreadable(text)
        /\ ~Unreadable(text) /\ InRange(Written(text)) =>
             sum = IF text.neg THEN -Written(text) ELSE Written(text)
    BY DEF ReadAsWritten, Unreadable
  <2>1. /\ answer \in {"value", "error"} /\ text \in [neg : BOOLEAN, elements : Seq(Elements)]
        /\ answer = "error" <=> Unreadable(text)
    BY DEF SumInv, ParserInv, DurationTypeOK, Passed
  <2>2. ASSUME ~Unreadable(text), InRange(Written(text))
        PROVE  sum = IF text.neg THEN -Written(text) ELSE Written(text)
    <3>1. PICK p : PrefixSums(text, p)
      BY <2>1, <2>2, WrittenIsSum DEF Unreadable
    <3> QED
      BY <2>1, <2>2, <3>1 DEF SumInv, SumSoFar
  <2> QED
    BY <2>1, <2>2
<1> QED
  BY <1>1, <1>2, <1>3, PTL DEF Spec

-----------------------------------------------------------------------------
(* The cache.                                                               *)

\* What the event filter looks at is kept.
LEMMA ViewKept == ASSUME NEW o \in CachedObject PROVE View(Transform(o)) = View(o)
<1>1. CASE o.unstructured = FALSE
  BY <1>1 DEF Transform
<1>2. CASE o.unstructured = TRUE
  <2> DEFINE a == o.annotations
             b == Transform(o).annotations
  <2>1. b = [k \in Kept \cap DOMAIN a |-> a[k]]
    BY <1>2 DEF CachedObject, Transform, Only
  <2>2. "ttl" \in Kept /\ "lease-start" \in Kept
    BY DEF Kept
  <2>3. \A k \in {"ttl", "lease-start"} :
          (k \in DOMAIN b <=> k \in DOMAIN a) /\ (k \in DOMAIN a => b[k] = a[k])
    BY <2>1, <2>2
  <2> HIDE DEF a, b
  <2>4. View(Transform(o)) = << IF "ttl" \in DOMAIN b THEN b["ttl"] ELSE Absent,
                                IF "lease-start" \in DOMAIN b THEN b["lease-start"] ELSE Absent >>
    BY DEF View, b
  <2>5. View(o) = << IF "ttl" \in DOMAIN a THEN a["ttl"] ELSE Absent,
                     IF "lease-start" \in DOMAIN a THEN a["lease-start"] ELSE Absent >>
    BY DEF View, a
  <2> QED
    BY <2>3, <2>4, <2>5
<1> QED
  BY <1>1, <1>2 DEF CachedObject

\* Typed objects pass as they are, and unstructured ones have no label or condition
\* the program reads.
LEMMA RestKept ==
  ASSUME NEW o \in CachedObject
  PROVE  Transform(o).label = o.label /\ Transform(o).condition = o.condition
BY DEF CachedObject, Transform

\* For all values of annotations, labels and conditions and any two versions of an
\* object: those who read through the cache decide as on the objects themselves.
THEOREM NothingNeededIsStripped == ChangeInit => StripsNothingNeeded
<1> SUFFICES ASSUME ChangeInit PROVE StripsNothingNeeded
  OBVIOUS
<1>1. old \in CachedObject /\ new \in CachedObject
  BY DEF ChangeInit
<1>2. View(Transform(old)) = View(old) /\ View(Transform(new)) = View(new)
  BY <1>1, ViewKept
<1> QED
  BY <1>1, <1>2, RestKept DEF StripsNothingNeeded

-----------------------------------------------------------------------------
(* Start-up.                                                                *)

\* A flag decides without the variable.
LEMMA FlagDecides ==
  ASSUME NEW s \in Settings, s.leaderElect, NEW w \in EnvWords
  PROVE  Outcome([s EXCEPT !.envElect = w]) = Outcome(s)
<1> DEFINE t == [s EXCEPT !.envElect = w]
<1>1. /\ t.leaderElect = s.leaderElect /\ t.electNamespace = s.electNamespace
      /\ t.envNamespace = s.envNamespace /\ t.pod = s.pod /\ t.version = s.version
      /\ t.optInKey = s.optInKey /\ t.optInValue = s.optInValue
  BY DEF Settings
<1> HIDE DEF t
<1>2. parseParameters(t) = parseParameters(s) /\ parseParameters(s).leader
  BY <1>1 DEF parseParameters
<1>3. parseLeaderElectionConfig(TRUE, parseParameters(s).namespace, t)
        = parseLeaderElectionConfig(TRUE, parseParameters(s).namespace, s)
  BY DEF parseLeaderElectionConfig
<1> QED
  BY <1>1, <1>2, <1>3 DEF Outcome, OptIn, PodNamespace, parseParameters, t

\* Without the flag, a word for true asks for a leader, whichever of the two
\* functions reads it, and a word for false for none.
LEMMA WordDecides ==
  ASSUME NEW s \in Settings, ~s.leaderElect
  PROVE  LET namespace == First(s.electNamespace, s.envNamespace)
             lock      == First(namespace, PodNamespace(s))
         IN /\ IsTrue(s.envElect) =>
                 Outcome(s) = IF s.version = "" \/ lock = ""
                              THEN [runs |-> FALSE]
                              ELSE [runs |-> TRUE, leader |-> TRUE, optIn |-> OptIn(s), lock |-> lock]
            /\ IsFalse(s.envElect) =>
                 Outcome(s) = IF s.version = ""
                              THEN [runs |-> FALSE]
                              ELSE [runs |-> TRUE, leader |-> FALSE, optIn |-> OptIn(s), lock |-> ""]
<1> DEFINE namespace == First(s.electNamespace, s.envNamespace)
           lock      == First(namespace, PodNamespace(s))
           params    == parseParameters(s)
           config    == parseLeaderElectionConfig(params.leader, params.namespace, s)
<1>1. /\ params = [leader |-> params.leader, namespace |-> namespace]
      /\ TurnsOn(s.envElect) => params.leader = TRUE
      /\ ~TurnsOn(s.envElect) => params.leader = FALSE
  <2>1. params = [leader |-> s.leaderElect \/ TurnsOn(s.envElect), namespace |-> namespace]
    BY DEF parseParameters
  <2>2. TurnsOn(s.envElect) => (s.leaderElect \/ TurnsOn(s.envElect)) = TRUE
    OBVIOUS
  <2>3. ~TurnsOn(s.envElect) => (s.leaderElect \/ TurnsOn(s.envElect)) = FALSE
    OBVIOUS
  <2> HIDE DEF params
  <2>4. params.leader = (s.leaderElect \/ TurnsOn(s.envElect)) /\ params.namespace = namespace
    BY <2>1
  <2> QED
    BY <2>1, <2>2, <2>3, <2>4, Zenon
<1>2. namespace # "refused" /\ lock # "refused" /\ First(lock, PodNamespace(s)) = lock
  BY DEF First, PodNamespace, Settings
<1>3. Outcome(s) =
        IF config = Refused \/ s.version = "" \/ (config.leader /\ First(config.namespace, PodNamespace(s)) = "")
        THEN [runs |-> FALSE]
        ELSE [runs |-> TRUE, leader |-> config.leader, optIn |-> OptIn(s),
              lock |-> IF config.leader THEN First(config.namespace, PodNamespace(s)) ELSE ""]
  BY DEF Outcome
<1> HIDE DEF lock, namespace
<1>4. ASSUME IsFalse(s.envElect)
      PROVE  config.leader = FALSE /\ config # Refused
  <2>1. params.leader = FALSE /\ params.namespace = namespace
    <3>1. ~TurnsOn(s.envElect)
      BY <1>4 DEF IsFalse, TurnsOn
    <3> QED
      BY <1>1, <3>1
  <2> HIDE DEF params
  <2>2. config = [leader |-> FALSE, namespace |-> namespace]
    BY <1>4, <2>1 DEF parseLeaderElectionConfig, IsFalse, IsTrue
  <2> HIDE DEF config
  <2> QED
    BY <1>2, <2>2 DEF Refused
<1>5. ASSUME IsTrue(s.envElect)
      PROVE  \/ config = Refused /\ lock = ""
             \/ /\ config.leader = TRUE /\ config # Refused
                /\ First(config.namespace, PodNamespace(s)) = lock
  <2>1. CASE TurnsOn(s.envElect)
    <3>1. params.leader = TRUE /\ params.namespace = namespace
      BY <1>1, <2>1
    <3> HIDE DEF params
    <3>2. config = [leader |-> TRUE, namespace |-> namespace]
      BY <3>1 DEF parseLeaderElectionConfig
    <3> HIDE DEF config
    <3> QED
      BY <3>2 DEF Refused, lock
  <2>2. CASE ~TurnsOn(s.envElect)
    <3>1. params.leader = FALSE /\ params.namespace = namespace
      BY <1>1, <2>2
    <3> HIDE DEF params
    <3>2. s.envElect # "" /\ ~IsFalse(s.envElect)
      BY <1>5 DEF IsTrue, IsFalse
    <3>3. config = IF namespace = "" /\ s.pod = "outside" THEN Refused
                   ELSE [leader |-> TRUE, namespace |-> lock]
      BY <1>5, <3>1, <3>2 DEF parseLeaderElectionConfig, lock
    <3>4. namespace = "" /\ s.pod = "outside" => lock = ""
      BY DEF lock, First, PodNamespace
    <3> HIDE DEF config
    <3> QED
      BY <1>2, <3>3, <3>4 DEF Refused
  <2> QED
    BY <2>1, <2>2
<1> HIDE DEF config
<1>6. ASSUME IsFalse(s.envElect)
      PROVE  Outcome(s) = IF s.version = ""
                          THEN [runs |-> FALSE]
                          ELSE [runs |-> TRUE, leader |-> FALSE, optIn |-> OptIn(s), lock |-> ""]
  BY <1>3, <1>4, <1>6
<1>7. ASSUME IsTrue(s.envElect)
      PROVE  Outcome(s) = IF s.version = "" \/ lock = ""
                          THEN [runs |-> FALSE]
                          ELSE [runs |-> TRUE, leader |-> TRUE, optIn |-> OptIn(s), lock |-> lock]
  BY <1>3, <1>5, <1>7
<1> QED
  BY <1>6, <1>7 DEF lock, namespace

\* Two functions read LEASE_LEADER_ELECTION by different rules. Whatever else is
\* set and wherever the process runs, two words for the same boolean never make
\* a difference to whether it runs, elects a leader, and where its lock lives.
THEOREM SpellingMakesNoDifference == StartupInit => SpellingsAgree
<1> SUFFICES ASSUME StartupInit, NEW w \in EnvWords, SameWord(settings.envElect, w)
             PROVE  Outcome([settings EXCEPT !.envElect = w]) = Outcome(settings)
  BY DEF SpellingsAgree
<1> DEFINE other == [settings EXCEPT !.envElect = w]
<1>1. settings \in Settings
  BY DEF StartupInit
<1>2. CASE settings.leaderElect
  BY <1>1, <1>2, FlagDecides
<1>3. CASE ~settings.leaderElect
  <2>1. /\ other \in Settings /\ other.envElect = w /\ ~other.leaderElect
        /\ other.electNamespace = settings.electNamespace
        /\ other.envNamespace = settings.envNamespace
        /\ other.pod = settings.pod /\ other.version = settings.version
        /\ other.optInKey = settings.optInKey /\ other.optInValue = settings.optInValue
    BY <1>1, <1>3 DEF Settings
  <2> HIDE DEF other
  <2>2. PodNamespace(other) = PodNamespace(settings) /\ OptIn(other) = OptIn(settings)
    BY <2>1 DEF PodNamespace, OptIn
  <2>3. \/ IsTrue(settings.envElect) /\ IsTrue(other.envElect)
        \/ IsFalse(settings.envElect) /\ IsFalse(other.envElect)
    BY <2>1 DEF SameWord
  <2>4. Outcome(other) = Outcome(settings)
    BY <1>1, <1>3, <2>1, <2>2, <2>3, WordDecides
  <2> QED
    BY <2>4 DEF other
<1> QED
  BY <1>2, <1>3
=============================================================================
