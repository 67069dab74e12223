-------------------------- MODULE FixedUnits_proofs --------------------------
(* Rounding gives the nearest integer, ties going away from zero, for all  *)
(* integers; the current is therefore nearest for every calibration and    *)
(* every size of the result. The register codes of limits and readings     *)
(* bear what was meant: the field of a code is read back whatever its      *)
(* width, and sums, windows and power come out in range.                   *)
EXTENDS FixedUnits, FiniteSetTheorems, FunctionTheorems, TLAPS

(* The quotient that \div rounds down *)
LEMMA QuotientRemainder ==
  ASSUME NEW a \in Int, NEW d \in Nat \ {0}
  PROVE  /\ a \div d \in Int
         /\ (a \div d) * d <= a
         /\ a < (a \div d) * d + d
OBVIOUS

(* _roundDivide of a numerator that is not negative *)
LEMMA RoundUpwards ==
  ASSUME NEW n \in Nat, NEW d \in Nat \ {0}
  PROVE  LET q == (n + d \div 2) \div d
         IN q \in Int /\ 2 * Distance(q * d, n) <= d
<1> DEFINE h == d \div 2
           q == (n + h) \div d
<1>1. h \in Nat /\ 2 * h <= d /\ d < 2 * h + 2
  OBVIOUS
<1>2. q \in Int /\ q * d <= n + h /\ n + h < q * d + d
  BY <1>1, QuotientRemainder
<1>3. q * d \in Int
  BY <1>2
<1> HIDE DEF q, h
<1>4. ASSUME NEW m \in Int, m <= n + h, n + h < m + d
      PROVE  2 * Distance(m, n) <= d
  BY <1>1, <1>4 DEF Distance
<1>5. 2 * Distance(q * d, n) <= d
  BY <1>2, <1>3, <1>4
<1> QED BY <1>2, <1>5 DEF q, h

(* Distance does not change under a change of sign. *)
LEMMA DistanceNegated ==
  ASSUME NEW a \in Int, NEW b \in Int
  PROVE  Distance(-a, -b) = Distance(a, b) /\ Distance(a, b) = Distance(b, a)
BY DEF Distance

(* _roundDivide changes sign with its numerator. *)
LEMMA RoundDivideNegated ==
  ASSUME NEW n \in Int, NEW d \in Nat \ {0}
  PROVE  RoundDivide(-n, d) = -RoundDivide(n, d) /\ RoundDivide(n, d) \in Int
<1>1. d \div 2 \in Nat /\ d > 0
  OBVIOUS
<1> DEFINE h == d \div 2
<1> HIDE DEF h
<1>2. h \in Nat
  BY <1>1 DEF h
<1>3. CASE n > 0
  <2>1. RoundDivide(n, d) = (n + h) \div d
    BY <1>1, <1>2, <1>3 DEF RoundDivide, Truncated, h
  <2>2. RoundDivide(-n, d) = -((n + h) \div d)
    <3>1. -n - h < 0 /\ -(-n - h) = n + h /\ ~(-n >= 0)
      BY <1>2, <1>3
    <3> QED BY <1>1, <3>1 DEF RoundDivide, Truncated, h
  <2>3. (n + h) \div d \in Int
    BY <1>2, QuotientRemainder
  <2> QED BY <2>1, <2>2, <2>3
<1>4. CASE n = 0
  <2>1. h \div d = 0
    <3>1. h < d /\ h >= 0
      BY DEF h
    <3>2. (h \div d) * d <= h /\ h < (h \div d) * d + d /\ h \div d \in Int
      BY <1>2, QuotientRemainder
    <3>3. h \div d < 1
      BY <3>1, <3>2, <1>2
    <3>4. h \div d > -1
      BY <3>1, <3>2, <1>2
    <3> QED BY <3>2, <3>3, <3>4
  <2>2. RoundDivide(0, d) = 0
    BY <1>1, <1>2, <2>1 DEF RoundDivide, Truncated, h
  <2> QED BY <1>4, <2>2
<1>5. CASE n < 0
  <2>1. RoundDivide(n, d) = -((-n + h) \div d)
    <3>1. n - h < 0 /\ -(n - h) = -n + h /\ ~(n >= 0)
      BY <1>2, <1>5
    <3> QED BY <1>1, <3>1 DEF RoundDivide, Truncated, h
  <2>2. RoundDivide(-n, d) = (-n + h) \div d
    BY <1>1, <1>2, <1>5 DEF RoundDivide, Truncated, h
  <2>3. (-n + h) \div d \in Int
    BY <1>2, <1>5, QuotientRemainder
  <2> QED BY <2>1, <2>2, <2>3
<1> QED BY <1>3, <1>4, <1>5

(* _roundDivide is within half a denominator of the exact quotient. *)
THEOREM RoundDivideNearest ==
  ASSUME NEW n \in Int, NEW d \in Nat \ {0}
  PROVE  2 * Distance(RoundDivide(n, d) * d, n) <= d
<1>1. ASSUME NEW m \in Nat
      PROVE  2 * Distance(RoundDivide(m, d) * d, m) <= d
  <2>1. RoundDivide(m, d) = (m + d \div 2) \div d
    BY DEF RoundDivide, Truncated
  <2> QED BY <2>1, RoundUpwards
<1>2. CASE n >= 0
  BY <1>1, <1>2
<1>3. CASE n < 0
  <2>1. -n \in Nat
    BY <1>3
  <2>2. 2 * Distance(RoundDivide(-n, d) * d, -n) <= d
    BY <1>1, <2>1
  <2>3. RoundDivide(-n, d) * d = -(RoundDivide(n, d) * d)
    BY RoundDivideNegated
  <2>4. RoundDivide(n, d) * d \in Int
    BY RoundDivideNegated
  <2> QED BY <2>2, <2>3, <2>4, DistanceNegated
<1> QED BY <1>2, <1>3

(* A quotient beyond an integer puts the product beyond its multiple.      *)
LEMMA ProductBeyond ==
  ASSUME NEW q \in Int, NEW m \in Int, NEW d \in Nat, q >= m + 1
  PROVE  q * d \in Int /\ m * d \in Int /\ q * d >= m * d + d
OBVIOUS

(* A result that does not fit in an integer comes of an exact value that   *)
(* is at least half a denominator beyond the largest.                      *)
LEMMA OverflowIsReal ==
  ASSUME NEW n \in Int, NEW d \in Nat \ {0}, ~InInt(RoundDivide(n, d))
  PROVE  2 * (Distance(n, 0) - IntMax * d) >= d
<1> DEFINE q == RoundDivide(n, d)
<1>1. q \in Int /\ 2 * Distance(q * d, n) <= d /\ IntMax \in Nat
  BY RoundDivideNegated, RoundDivideNearest, FixedUnitsAssumption DEF FixedUnitsAssumption
<1>2. q >= IntMax + 1 \/ -q >= IntMax + 1
  BY <1>1 DEF InInt
<1> HIDE DEF q
<1>3. q * d \in Int /\ IntMax * d \in Int /\ (-q) * d = -(q * d)
  BY <1>1
<1>4. CASE q >= IntMax + 1
  <2>1. q * d >= IntMax * d + d
    BY <1>1, <1>4, ProductBeyond
  <2> QED BY <1>1, <1>3, <2>1 DEF Distance
<1>5. CASE -q >= IntMax + 1
  <2>1. -(q * d) >= IntMax * d + d
    <3>1. -q \in Int
      BY <1>1
    <3>2. (-q) * d >= IntMax * d + d
      BY <1>1, <1>5, <3>1, ProductBeyond
    <3> QED BY <1>3, <3>2
  <2> QED BY <1>1, <1>3, <2>1 DEF Distance
<1> QED BY <1>2, <1>4, <1>5

(* The input stays an integer. *)
LEMMA InputIsInt == Spec => []TypeOK
<1>1. Init => TypeOK
  <2>1. ASSUME NEW range \in Ranges, input \in range[1] .. range[2]
        PROVE  input \in Int
    BY <2>1
  <2> QED BY <2>1 DEF Init, TypeOK
<1>2. TypeOK /\ [Advance]_input => TypeOK'
  BY DEF TypeOK, Advance
<1> QED BY <1>1, <1>2, PTL DEF Spec

(* calculateCurrentMilliAmps: the nearest integer, refused only if it does *)
(* not fit, and odd in the direction, for every shunt voltage, resistance  *)
(* and size of the result.                                                 *)
THEOREM CurrentCorrect == Spec => []CurrentIsNearest
<1>1. TypeOK => CurrentIsNearest
  <2> SUFFICES ASSUME TypeOK, NEW c \in Calibrations
      PROVE
        LET result == calculateCurrentMilliAmps(input, c)
            exact == input * 1000 * c.direction
            reversed == calculateCurrentMilliAmps(input, [c EXCEPT !.direction = -@])
        IN /\ result.ok => 2 * Distance(result.value * c.resistance, exact) <= c.resistance
           /\ result.ok /\ reversed.ok => reversed.value = -result.value
           /\ ~result.ok => \/ c.resistance = 0
                            \/ 2 * (Distance(exact, 0) - IntMax * c.resistance) >= c.resistance
    BY DEF CurrentIsNearest
  <2> DEFINE R == c.resistance
             exact == input * 1000 * c.direction
             reverse == [c EXCEPT !.direction = -@]
             q == RoundDivide(exact, R)
  <2>1. /\ input \in Int /\ c.direction \in {1, -1} /\ R \in Nat
        /\ reverse.resistance = R /\ reverse.direction = -c.direction
    BY FixedUnitsAssumption DEF TypeOK, Calibrations, FixedUnitsAssumption
  <2>2. exact \in Int /\ input * 1000 * reverse.direction = -exact
    BY <2>1
  <2>3. calculateCurrentMilliAmps(input, c)
          = IF R # 0 /\ InInt(q) THEN OkResult(q) ELSE ErrorResult
    BY DEF calculateCurrentMilliAmps
  <2>4. calculateCurrentMilliAmps(input, reverse)
          = IF R # 0 /\ InInt(RoundDivide(-exact, R))
              THEN OkResult(RoundDivide(-exact, R)) ELSE ErrorResult
    BY <2>1, <2>2 DEF calculateCurrentMilliAmps
  <2> HIDE DEF exact, reverse, R
  <2>5. CASE R = 0
    BY <2>3, <2>4, <2>5 DEF ErrorResult, R
  <2>6. CASE R # 0
    <3>1. /\ 2 * Distance(q * R, exact) <= R
          /\ RoundDivide(-exact, R) = -q
          /\ ~InInt(q) => 2 * (Distance(exact, 0) - IntMax * R) >= R
      BY <2>1, <2>2, <2>6, RoundDivideNearest, RoundDivideNegated, OverflowIsReal
    <3> HIDE DEF q
    <3>2. calculateCurrentMilliAmps(input, c).ok
            => InInt(q) /\ calculateCurrentMilliAmps(input, c).value = q
      BY <2>3 DEF OkResult, ErrorResult
    <3>3. ~calculateCurrentMilliAmps(input, c).ok => ~InInt(q)
      BY <2>3, <2>6 DEF OkResult, ErrorResult
    <3>4. calculateCurrentMilliAmps(input, reverse).ok
            => calculateCurrentMilliAmps(input, reverse).value = -q
      BY <2>4, <3>1 DEF OkResult, ErrorResult
    <3> QED BY <3>1, <3>2, <3>3, <3>4 DEF exact, reverse, R
  <2> QED BY <2>5, <2>6
<1> QED BY <1>1, InputIsInt, PTL

-----------------------------------------------------------------------------
(* Powers of two: 2^n counts the subsets of a set of n elements *)

(* The interval that starts at one above m and has n members *)
LEMMA IntervalCount ==
  ASSUME NEW m \in Nat, NEW n \in Nat
  PROVE  IsFiniteSet(m + 1 .. m + n) /\ Cardinality(m + 1 .. m + n) = n
<1>1. m + 1 \in Int /\ m + n \in Int
  OBVIOUS
<1>2. /\ IsFiniteSet(m + 1 .. m + n)
      /\ Cardinality(m + 1 .. m + n)
           = IF m + 1 > m + n THEN 0 ELSE (m + n) - (m + 1) + 1
  BY <1>1, FS_Interval
<1> QED
  BY <1>2

(* A finite set of n elements has 2^n subsets: one more element doubles them *)
LEMMA SubsetCount ==
  ASSUME NEW m \in Nat, NEW n \in Nat
  PROVE  /\ IsFiniteSet(SUBSET (m + 1 .. m + n))
         /\ Cardinality(SUBSET (m + 1 .. m + n)) = 2 ^ n
<1>1. IsFiniteSet(m + 1 .. m + n) /\ Cardinality(m + 1 .. m + n) = n
  BY IntervalCount
<1>2. /\ IsFiniteSet(SUBSET (m + 1 .. m + n))
      /\ Cardinality(SUBSET (m + 1 .. m + n)) = 2 ^ Cardinality(m + 1 .. m + n)
  BY <1>1, FS_SUBSET
<1> QED
  BY <1>1, <1>2

(* A power of two is positive. *)
LEMMA PowerIsPositive ==
  ASSUME NEW n \in Nat
  PROVE  2 ^ n \in Nat \ {0}
<1> DEFINE S == SUBSET (0 + 1 .. 0 + n)
<1>1. IsFiniteSet(S) /\ Cardinality(S) = 2 ^ n
  BY SubsetCount
<1>2. S # {}
  OBVIOUS
<1> HIDE DEF S
<1>3. Cardinality(S) \in Nat /\ Cardinality(S) # 0
  BY <1>1, <1>2, FS_CardinalityType, FS_EmptySet
<1> QED
  BY <1>1, <1>3

(* Powers add in the exponent: a subset of m + n elements is one of the    *)
(* first m and one of the last n.                                          *)
LEMMA PowerOfSum ==
  ASSUME NEW m \in Nat, NEW n \in Nat
  PROVE  2 ^ (m + n) = 2 ^ m * 2 ^ n
<1> DEFINE A == 0 + 1 .. 0 + m
           B == m + 1 .. m + n
           C == 0 + 1 .. 0 + (m + n)
           joined == [p \in (SUBSET A) \X (SUBSET B) |-> p[1] \cup p[2]]
<1>1. m + n \in Nat /\ 0 \in Nat
  OBVIOUS
<1>2. /\ IsFiniteSet(SUBSET A) /\ Cardinality(SUBSET A) = 2 ^ m
      /\ IsFiniteSet(SUBSET B) /\ Cardinality(SUBSET B) = 2 ^ n
      /\ Cardinality(SUBSET C) = 2 ^ (m + n)
  BY <1>1, SubsetCount
<1>3. C = A \cup B /\ A \cap B = {}
  OBVIOUS
<1> HIDE DEF A, B, C
<1>4. /\ IsFiniteSet((SUBSET A) \X (SUBSET B))
      /\ Cardinality((SUBSET A) \X (SUBSET B)) = 2 ^ m * 2 ^ n
  BY <1>2, FS_Product
<1>5. joined \in [(SUBSET A) \X (SUBSET B) -> SUBSET C]
  BY <1>3
<1>6. ASSUME NEW p \in (SUBSET A) \X (SUBSET B), NEW q \in (SUBSET A) \X (SUBSET B),
             joined[p] = joined[q]
      PROVE  p = q
  <2>1. p[1] \cup p[2] = q[1] \cup q[2]
    BY <1>6
  <2>2. p[1] \subseteq A /\ p[2] \subseteq B /\ q[1] \subseteq A /\ q[2] \subseteq B
    BY <1>6
  <2>3. p[1] = q[1] /\ p[2] = q[2]
    BY <1>3, <2>1, <2>2
  <2> QED
    BY <1>6, <2>3
<1>7. ASSUME NEW u \in SUBSET C
      PROVE  \E p \in (SUBSET A) \X (SUBSET B) : joined[p] = u
  <2>1. <<u \cap A, u \cap B>> \in (SUBSET A) \X (SUBSET B)
    OBVIOUS
  <2>2. joined[<<u \cap A, u \cap B>>] = (u \cap A) \cup (u \cap B)
    BY <2>1
  <2>3. (u \cap A) \cup (u \cap B) = u
    BY <1>3
  <2> QED
    BY <2>1, <2>2, <2>3
<1>8. ExistsBijection((SUBSET A) \X (SUBSET B), SUBSET C)
  <2> DEFINE pairs == (SUBSET A) \X (SUBSET B)
             all == SUBSET C
  <2>1. /\ joined \in [pairs -> all]
        /\ \A a, b \in pairs : joined[a] = joined[b] => a = b
        /\ \A t \in all : \E s \in pairs : joined[s] = t
    BY <1>5, <1>6, <1>7, Zenon
  <2> HIDE DEF joined, pairs, all
  <2>2. joined \in Bijection(pairs, all)
    BY <2>1, Fun_IsBij
  <2> QED
    BY <2>2, Zenon DEF ExistsBijection, pairs, all
<1>9. Cardinality(SUBSET C) = Cardinality((SUBSET A) \X (SUBSET B))
  BY <1>4, <1>8, FS_Bijection
<1> QED
  BY <1>2, <1>4, <1>9

(* The widths of a field, in words *)
LEMMA FieldWidths ==
  ASSUME NEW shift \in Nat, NEW width \in Nat \ {0}, shift + width = WordBits
  PROVE  /\ 2 ^ shift \in Nat \ {0} /\ 2 ^ (width - 1) \in Nat \ {0}
         /\ 2 ^ width \in Nat \ {0} /\ Word \in Nat \ {0}
         /\ 2 ^ width = 2 * 2 ^ (width - 1)
         /\ Word = 2 ^ shift * 2 ^ width
<1>1. width - 1 \in Nat /\ 1 \in Nat /\ 1 + (width - 1) = width
  OBVIOUS
<1>2. WordBits \in Nat
  OBVIOUS
<1>3. /\ 2 ^ shift \in Nat \ {0} /\ 2 ^ (width - 1) \in Nat \ {0}
      /\ 2 ^ width \in Nat \ {0} /\ Word \in Nat \ {0}
  BY <1>1, <1>2, PowerIsPositive DEF Word
<1>4. 2 ^ (1 + (width - 1)) = 2 ^ 1 * 2 ^ (width - 1)
  BY <1>1, PowerOfSum
<1>5. 2 ^ 1 = 2
  OBVIOUS
<1>6. 2 ^ (shift + width) = 2 ^ shift * 2 ^ width
  BY PowerOfSum
<1> QED
  BY <1>1, <1>3, <1>4, <1>5, <1>6 DEF Word

-----------------------------------------------------------------------------
(* A code in its field of a register *)

(* Division with remainder is unique. *)
LEMMA DivisionIs ==
  ASSUME NEW a \in Int, NEW d \in Nat \ {0}, NEW q \in Int, NEW r \in 0 .. d - 1,
         a = q * d + r
  PROVE  a \div d = q /\ a % d = r
<1> DEFINE k == a \div d
<1>1. k \in Int /\ k * d <= a /\ a < k * d + d /\ a % d = a - k * d
  OBVIOUS
<1> HIDE DEF k
<1>2. k * d \in Int /\ q * d \in Int
  BY <1>1
<1>3. ~(k >= q + 1)
  <2> SUFFICES ASSUME k >= q + 1 PROVE FALSE
    OBVIOUS
  <2>1. k * d >= q * d + d
    BY <1>1, ProductBeyond
  <2> QED
    BY <1>1, <1>2, <2>1
<1>4. ~(q >= k + 1)
  <2> SUFFICES ASSUME q >= k + 1 PROVE FALSE
    OBVIOUS
  <2>1. q * d >= k * d + d
    BY <1>1, ProductBeyond
  <2> QED
    BY <1>1, <1>2, <2>1
<1>5. k = q
  BY <1>1, <1>3, <1>4
<1> QED
  BY <1>1, <1>2, <1>5 DEF k

(* A code that fits its field is read back from the register as it was     *)
(* written, and the bits below the field are zero.                         *)
LEMMA CodeIsReadBack ==
  ASSUME NEW shift \in Nat, NEW width \in Nat \ {0}, shift + width = WordBits,
         NEW code \in Int, InField(code, width)
  PROVE  LET raw == ((code % Word) * 2 ^ shift) % Word IN
         /\ SignExtendField(raw, shift, width) = code
         /\ raw = (code % 2 ^ width) * 2 ^ shift
<1> DEFINE S == 2 ^ shift
           F == 2 ^ width
           H == 2 ^ (width - 1)
           u == IF code >= 0 THEN code ELSE code + F
           raw == ((code % Word) * S) % Word
<1>1. S \in Nat \ {0} /\ H \in Nat \ {0} /\ F \in Nat \ {0} /\ F = 2 * H /\ Word = S * F
  BY FieldWidths
<1>2. -H <= code /\ code < H
  BY DEF InField
<1>a. SignExtendField(raw, shift, width)
        = LET value == (raw \div S) % F IN IF value >= H THEN value - F ELSE value
  BY DEF SignExtendField
<1> HIDE DEF S, F, H
<1>3. -F <= code /\ code < F
  BY <1>1, <1>2
<1>4. /\ raw = u * S /\ (raw \div S) % F = u /\ code % F = u
  <2>0. S \in Nat \ {0} /\ F \in Nat \ {0} /\ -F <= code /\ code < F
    BY <1>1, <1>3
  <2> USE <2>0
  <2>1. Word \in Nat \ {0} /\ Word >= F /\ u \in 0 .. F - 1
    BY <1>1
  <2>2. code * S \in Int /\ u * S \in Int /\ F * S = Word
    BY <1>1, <2>1
  <2>3. u * S \in 0 .. Word - 1
    <3>1. u * S >= 0
      BY <2>1
    <3>2. (u + 1) * S = u * S + S /\ (u + 1) * S <= F * S
      BY <2>1
    <3> QED
      BY <2>1, <2>2, <3>1, <3>2
  <2>4. raw = u * S
    <3>1. CASE code >= 0
      <4>1. code = 0 * Word + code /\ code \in 0 .. Word - 1 /\ 0 \in Int
        BY <2>1, <3>1
      <4>2. code % Word = code
        BY <2>1, <4>1, DivisionIs
      <4>3. u = code
        BY <3>1
      <4> DEFINE r == u * S
      <4>4. r = 0 * Word + r /\ r \in 0 .. Word - 1 /\ r \in Int /\ 0 \in Int
        BY <2>1, <2>2, <2>3
      <4>5. r % Word = r
        <5> HIDE DEF r
        <5> QED
          BY <2>1, <4>4, DivisionIs
      <4> QED
        BY <4>2, <4>3, <4>5
    <3>2. CASE code < 0
      <4>1. code = (-1) * Word + (code + Word) /\ code + Word \in 0 .. Word - 1 /\ -1 \in Int
        BY <2>1, <3>2
      <4>2. code % Word = code + Word
        BY <2>1, <4>1, DivisionIs
      <4>3. u = code + F
        BY <3>2
      <4>4. u * S = code * S + Word
        BY <2>2, <4>3
      <4>5. (code + Word) * S = (S - 1) * Word + u * S
        <5>1. (code + Word) * S = code * S + Word * S
          BY <2>1
        <5>2. (S - 1) * Word = Word * S - Word
          BY <2>1
        <5>3. Word * S \in Int
          BY <2>1
        <5> QED
          BY <2>1, <2>2, <4>4, <5>1, <5>2, <5>3
      <4>6. (code + Word) * S \in Int /\ S - 1 \in Int
        BY <2>1
      <4> DEFINE a == (code + Word) * S
                 q == S - 1
                 r == u * S
      <4>7. a % Word = r
        <5>1. a \in Int /\ q \in Int /\ r \in 0 .. Word - 1 /\ a = q * Word + r
          BY <2>3, <4>5, <4>6
        <5> HIDE DEF a, q, r
        <5> QED
          BY <2>1, <5>1, DivisionIs
      <4> QED
        BY <4>2, <4>7
    <3> QED
      BY <3>1, <3>2
  <2>5. raw \div S = u
    <3>1. raw = u * S + 0 /\ 0 \in 0 .. S - 1 /\ u \in Int /\ raw \in Int
      BY <2>1, <2>2, <2>4
    <3> QED
      BY <3>1, DivisionIs
  <2>6. u % F = u
    <3>1. u = 0 * F + u /\ u \in Int /\ 0 \in Int
      BY <2>1
    <3> QED
      BY <2>1, <3>1, DivisionIs
  <2>7. code % F = u
    <3>1. CASE code >= 0
      BY <2>6, <3>1
    <3>2. CASE code < 0
      <4>1. code = (-1) * F + u /\ -1 \in Int
        BY <3>2
      <4> QED
        BY <2>1, <4>1, DivisionIs
    <3> QED
      BY <3>1, <3>2
  <2> QED
    BY <2>4, <2>5, <2>6, <2>7
<1> HIDE DEF raw
<1>5. (IF u >= H THEN u - F ELSE u) = code
  BY <1>1, <1>2
<1> HIDE DEF u
<1>6. SignExtendField(raw, shift, width) = code
  BY <1>4, <1>5, <1>a
<1>7. raw = (code % F) * S
  BY <1>4
<1> QED
  BY <1>6, <1>7 DEF raw, S, F

(* What a register shows of a field is a code that fits the field, and     *)
(* names the bits of the field.                                            *)
LEMMA FieldIsShown ==
  ASSUME NEW shift \in Nat, NEW width \in Nat \ {0}, shift + width = WordBits,
         NEW raw \in 0 .. Word - 1
  PROVE  LET code == SignExtendField(raw, shift, width) IN
         /\ code \in Int /\ InField(code, width)
         /\ (code % 2 ^ width) * 2 ^ shift = raw - (raw % 2 ^ shift)
<1> DEFINE S == 2 ^ shift
           F == 2 ^ width
           H == 2 ^ (width - 1)
           v == raw \div S
           code == SignExtendField(raw, shift, width)
<1>1. S \in Nat \ {0} /\ H \in Nat \ {0} /\ F \in Nat \ {0} /\ F = 2 * H /\ Word = S * F
  BY FieldWidths
<1>a. code = LET value == v % F IN IF value >= H THEN value - F ELSE value
  BY DEF SignExtendField
<1>b. InField(code, width) <=> code >= -H /\ code < H
  BY DEF InField
<1> HIDE DEF S, F, H, code
<1>2. v \in Int /\ v * S <= raw /\ raw < v * S + S /\ raw % S = raw - v * S
  BY <1>1
<1> HIDE DEF v
<1>3. v \in 0 .. F - 1
  <2>1. v * S \in Int /\ F * S = Word /\ Word \in Nat /\ raw \in Nat
    BY <1>1, <1>2
  <2>2. ~(v >= F)
    <3> SUFFICES ASSUME v >= F PROVE FALSE
      OBVIOUS
    <3>1. v * S >= F * S
      BY <1>1, <1>2
    <3> QED
      BY <1>2, <2>1, <3>1
  <2>3. ~(v <= -1)
    <3> SUFFICES ASSUME v <= -1 PROVE FALSE
      OBVIOUS
    <3>1. v * S <= -S
      BY <1>1, <1>2
    <3> QED
      BY <1>1, <1>2, <2>1, <3>1
  <2> QED
    BY <1>1, <1>2, <2>2, <2>3
<1>4. v % F = v
  <2>1. v = 0 * F + v /\ 0 \in Int
    BY <1>1, <1>2
  <2> QED
    BY <1>1, <1>2, <1>3, <2>1, DivisionIs
<1>5. code = IF v >= H THEN v - F ELSE v
  BY <1>4, <1>a
<1>6. code \in Int /\ code >= -H /\ code < H
  BY <1>1, <1>3, <1>5
<1>7. code % F = v
  <2>1. CASE v >= H
    <3>1. code = (-1) * F + v /\ -1 \in Int
      BY <1>1, <1>2, <1>5, <2>1
    <3> QED
      BY <1>1, <1>3, <1>6, <3>1, DivisionIs
  <2>2. CASE v < H
    BY <1>1, <1>3, <1>4, <1>5, <2>2
  <2> QED
    BY <1>1, <1>2, <2>1, <2>2
<1>8. (code % F) * S = raw - (raw % S)
  <2>1. v * S \in Int
    BY <1>1, <1>2
  <2> QED
    BY <1>2, <1>7, <2>1
<1> QED
  BY <1>6, <1>8, <1>b DEF code, S, F

-----------------------------------------------------------------------------
(* Rounding against the limits of a field *)

(* What a number that is not negative is rounded to is at most k exactly   *)
(* if the number is less than half a step above k steps.                   *)
LEMMA RoundAtMost ==
  ASSUME NEW n \in Nat, NEW d \in Nat \ {0}, NEW k \in Int, k >= -1
  PROVE  /\ RoundDivide(n, d) \in Nat
         /\ RoundDivide(n, d) <= k <=> 2 * (n - k * d) < d
<1> DEFINE h == d \div 2
           q == (n + h) \div d
<1>1. h \in Nat /\ 2 * h <= d /\ d < 2 * h + 2
  OBVIOUS
<1>2. RoundDivide(n, d) = q
  BY DEF RoundDivide, Truncated
<1>3. q \in Int /\ q * d <= n + h /\ n + h < q * d + d
  BY <1>1, QuotientRemainder
<1> HIDE DEF q, h
<1>4. q * d \in Int /\ k * d \in Int
  BY <1>3
<1>5. q >= 0
  <2> SUFFICES ASSUME q <= -1 PROVE FALSE
    BY <1>3
  <2>1. q * d <= -d
    BY <1>3
  <2> QED
    BY <1>1, <1>3, <1>4, <2>1
<1>6. q <= k => n + h < k * d + d
  <2> SUFFICES ASSUME q <= k PROVE n + h < k * d + d
    OBVIOUS
  <2>1. q * d <= k * d
    BY <1>3
  <2> QED
    BY <1>1, <1>3, <1>4, <2>1
<1>7. q >= k + 1 => k * d + d <= n + h
  <2> SUFFICES ASSUME q >= k + 1 PROVE k * d + d <= n + h
    OBVIOUS
  <2>1. q * d >= k * d + d
    BY <1>3, ProductBeyond
  <2> QED
    BY <1>1, <1>3, <1>4, <2>1
<1>8. n + h < k * d + d <=> 2 * (n - k * d) < d
  BY <1>1, <1>4
<1> QED
  BY <1>2, <1>3, <1>5, <1>6, <1>7, <1>8, <1>1, <1>4

(* A code is in its field exactly if the value is less than half a step    *)
(* beyond the largest and the smallest of the field.                       *)
LEMMA InFieldIsNear ==
  ASSUME NEW v \in Int, NEW lsb \in Nat \ {0}, NEW H \in Nat \ {0}
  PROVE  RoundDivide(v, lsb) >= -H /\ RoundDivide(v, lsb) < H
           <=> 2 * (v - (H - 1) * lsb) < lsb /\ 2 * (-H * lsb - v) < lsb
<1> DEFINE q == RoundDivide(v, lsb)
           top == (H - 1) * lsb
           bottom == H * lsb
<1>1. q \in Int /\ RoundDivide(-v, lsb) = -q
  BY RoundDivideNegated
<1>2. top \in Nat /\ bottom \in Nat /\ bottom = top + lsb /\ -H * lsb = -bottom
  OBVIOUS
<1>3. CASE v >= 0
  <2>1. H - 1 \in Int /\ H - 1 >= -1
    OBVIOUS
  <2>2. q \in Nat /\ (q <= H - 1 <=> 2 * (v - top) < lsb)
    BY <1>3, <2>1, RoundAtMost
  <2> HIDE DEF q, top, bottom
  <2>3. 2 * (-bottom - v) < lsb
    BY <1>2, <1>3
  <2>4. (q >= -H /\ q < H) <=> q <= H - 1
    BY <2>2
  <2> QED
    BY <1>2, <2>2, <2>3, <2>4 DEF q, top, bottom
<1>4. CASE v < 0
  <2>1. H \in Int /\ H >= -1 /\ -v \in Nat
    BY <1>4
  <2>2. RoundDivide(-v, lsb) \in Nat /\ (RoundDivide(-v, lsb) <= H <=> 2 * (-v - bottom) < lsb)
    BY <2>1, RoundAtMost
  <2> HIDE DEF q, top, bottom
  <2>3. -q \in Nat /\ (-q <= H <=> 2 * (-v - bottom) < lsb)
    BY <1>1, <2>2
  <2>4. 2 * (v - top) < lsb
    BY <1>2, <1>4
  <2>5. (q >= -H /\ q < H) <=> -q <= H
    BY <1>1, <2>3
  <2> QED
    BY <1>2, <2>3, <2>4, <2>5 DEF q, top, bottom
<1> QED
  BY <1>3, <1>4

(* Whole steps are rounded to their number. *)
LEMMA WholeSteps ==
  ASSUME NEW c \in Int, NEW lsb \in Nat \ {0}
  PROVE  RoundDivide(c * lsb, lsb) = c
<1>1. ASSUME NEW k \in Nat PROVE RoundDivide(k * lsb, lsb) = k
  <2> DEFINE n == k * lsb
  <2>1. n \in Nat /\ k \in Int /\ k >= -1 /\ k - 1 \in Int /\ k - 1 >= -1
    OBVIOUS
  <2>2. (k - 1) * lsb = n - lsb
    OBVIOUS
  <2>3. /\ RoundDivide(n, lsb) \in Nat
        /\ RoundDivide(n, lsb) <= k <=> 2 * (n - k * lsb) < lsb
        /\ RoundDivide(n, lsb) <= k - 1 <=> 2 * (n - (k - 1) * lsb) < lsb
    <3> HIDE DEF n
    <3> QED
      BY <2>1, RoundAtMost
  <2>4. n = k * lsb
    OBVIOUS
  <2> HIDE DEF n
  <2>5. 2 * (n - k * lsb) < lsb /\ ~(2 * (n - (k - 1) * lsb) < lsb)
    BY <2>1, <2>2, <2>4
  <2> QED
    BY <2>1, <2>3, <2>5 DEF n
<1>2. CASE c >= 0
  BY <1>1, <1>2
<1>3. CASE c < 0
  <2>1. -c \in Nat /\ c * lsb \in Int /\ (-c) * lsb = -(c * lsb)
    BY <1>3
  <2>2. RoundDivide(-(c * lsb), lsb) = -c
    BY <1>1, <2>1
  <2>3. RoundDivide(-(c * lsb), lsb) = -RoundDivide(c * lsb, lsb)
        /\ RoundDivide(c * lsb, lsb) \in Int
    BY <2>1, RoundDivideNegated
  <2> QED
    BY <2>2, <2>3
<1> QED
  BY <1>2, <1>3

(* Rounding keeps the order of numbers that are not negative. *)
LEMMA RoundIsMonotone ==
  ASSUME NEW a \in Nat, NEW b \in Nat, a <= b, NEW d \in Nat \ {0}
  PROVE  RoundDivide(a, d) <= RoundDivide(b, d)
<1> DEFINE k == RoundDivide(b, d)
<1>1. k \in Nat
  <2>1. 0 \in Int /\ 0 >= -1
    OBVIOUS
  <2> QED
    BY <2>1, RoundAtMost
<1>2. k \in Int /\ k >= -1
  BY <1>1
<1>3. k <= k <=> 2 * (b - k * d) < d
  BY <1>2, RoundAtMost
<1>4. RoundDivide(a, d) <= k <=> 2 * (a - k * d) < d
  <2> HIDE DEF k
  <2> QED
    BY <1>2, RoundAtMost
<1> HIDE DEF k
<1>5. k * d \in Int
  BY <1>1
<1>6. 2 * (a - k * d) < d
  BY <1>1, <1>3, <1>5
<1> QED
  BY <1>4, <1>6 DEF k

-----------------------------------------------------------------------------
(* Encoding *)

(* A value that is encoded is shown by the register as the nearest step.   *)
LEMMA EncodedIsShown ==
  ASSUME NEW v \in Int, NEW lsb \in Nat \ {0}, NEW shift \in Nat,
         NEW width \in Nat \ {0}, shift + width = WordBits
  PROVE  LET e == Encode(v, lsb, shift, width)
             code == RoundDivide(v, lsb)
         IN /\ e.ok <=> InField(code, width)
            /\ e.ok => SignExtendField(e.value, shift, width) = code
<1> DEFINE e == Encode(v, lsb, shift, width)
           code == RoundDivide(v, lsb)
           raw == ((code % Word) * 2 ^ shift) % Word
<1>1. code \in Int
  BY RoundDivideNegated
<1>2. e = IF InField(code, width) THEN OkResult(raw) ELSE ErrorResult
  BY DEF Encode
<1>3. InField(code, width) => SignExtendField(raw, shift, width) = code
  <2> HIDE DEF code
  <2> QED
    BY <1>1, CodeIsReadBack
<1> HIDE DEF e, code, raw
<1>4. /\ InField(code, width) => e.ok /\ e.value = raw
      /\ ~InField(code, width) => ~e.ok
  BY <1>2 DEF OkResult, ErrorResult
<1> QED
  BY <1>3, <1>4 DEF e, code

(* A limit that is accepted is encoded as the code nearest to it *)
LEMMA EncodedIsNearest ==
  ASSUME NEW v \in Int, NEW lsb \in Nat \ {0}, NEW shift \in Nat,
         NEW width \in Nat \ {0}, shift + width = WordBits
  PROVE  LET e == Encode(v, lsb, shift, width)
         IN Nearest(v, e, SignExtendField(e.value, shift, width) * lsb, lsb, width)
<1> DEFINE e == Encode(v, lsb, shift, width)
           code == RoundDivide(v, lsb)
           H == 2 ^ (width - 1)
<1>1. H \in Nat \ {0}
  BY FieldWidths
<1>2. /\ e.ok <=> InField(code, width)
      /\ e.ok => SignExtendField(e.value, shift, width) = code
  BY EncodedIsShown
<1>3. 2 * Distance(code * lsb, v) <= lsb
  BY RoundDivideNearest
<1>4. InField(code, width) <=> code >= -H /\ code < H
  BY DEF InField
<1>5. code >= -H /\ code < H <=> 2 * (v - (H - 1) * lsb) < lsb /\ 2 * (-H * lsb - v) < lsb
  <2> HIDE DEF H
  <2> QED
    BY <1>1, InFieldIsNear
<1>6. e.ok <=> 2 * (v - (H - 1) * lsb) < lsb /\ 2 * (-H * lsb - v) < lsb
  <2> HIDE DEF e, code, H
  <2> QED
    BY <1>2, <1>4, <1>5
<1>7. e.ok => 2 * Distance(SignExtendField(e.value, shift, width) * lsb, v) <= lsb
  <2> HIDE DEF e, code
  <2> QED
    BY <1>2, <1>3
<1> QED
  BY <1>6, <1>7, Zenon DEF Nearest

(* A register's field survives being decoded and encoded. *)
LEMMA FieldIsEncodedBack ==
  ASSUME NEW raw \in 0 .. Word - 1, NEW lsb \in Nat \ {0}, NEW shift \in Nat,
         NEW width \in Nat \ {0}, shift + width = WordBits
  PROVE  Encode(SignExtendField(raw, shift, width) * lsb, lsb, shift, width)
           = OkResult(raw - (raw % 2 ^ shift))
<1> DEFINE code == SignExtendField(raw, shift, width)
           back == ((code % Word) * 2 ^ shift) % Word
           rest == raw - (raw % 2 ^ shift)
<1>1. /\ code \in Int /\ InField(code, width)
      /\ (code % 2 ^ width) * 2 ^ shift = rest
  BY FieldIsShown
<1> HIDE DEF code
<1>2. RoundDivide(code * lsb, lsb) = code
  BY <1>1, WholeSteps
<1>3. back = (code % 2 ^ width) * 2 ^ shift
  BY <1>1, CodeIsReadBack
<1>4. Encode(code * lsb, lsb, shift, width) = OkResult(back)
  BY <1>1, <1>2, Zenon DEF Encode
<1> QED
  BY <1>1, <1>3, <1>4, Zenon DEF code

(* The widths and steps of the registers *)
LEMMA FieldsOfTheRegisters ==
  /\ DataShift \in Nat /\ DataBits \in Nat \ {0} /\ DataShift + DataBits = WordBits
  /\ SumShift \in Nat /\ SumBits \in Nat \ {0} /\ SumShift + SumBits = WordBits
  /\ ShuntLsb \in Nat \ {0} /\ BusLsb \in Nat \ {0} /\ MaximumBus \in Nat
  /\ \E steps \in Nat : MaximumBus = steps * BusLsb
  BY FixedUnitsAssumption

(* ... which is the part of EncodingIsFaithful about the encoding of limits *)
LEMMA LimitsAreNearest == TypeOK => EncodeIsNearest
<1> SUFFICES ASSUME TypeOK PROVE EncodeIsNearest
  OBVIOUS
<1>1. input \in Int
  BY DEF TypeOK
<1> DEFINE shunt == encodeShuntMicroVolts(input)
           bus == encodeBusMilliVolts(input)
           sum == encodeShuntSumMicroVolts(input)
<1>2. Nearest(input, shunt, decodeShuntMicroVolts(shunt.value), ShuntLsb, DataBits)
  BY <1>1, FieldsOfTheRegisters, EncodedIsNearest
     DEF encodeShuntMicroVolts, decodeShuntMicroVolts
<1>3. Nearest(input, bus, decodeBusMilliVolts(bus.value), BusLsb, DataBits)
  BY <1>1, FieldsOfTheRegisters, EncodedIsNearest
     DEF encodeBusMilliVolts, decodeBusMilliVolts
<1>4. Nearest(input, sum, SignExtendField(sum.value, SumShift, SumBits) * ShuntLsb,
              ShuntLsb, SumBits)
  BY <1>1, FieldsOfTheRegisters, EncodedIsNearest DEF encodeShuntSumMicroVolts
<1> QED
  BY <1>2, <1>3, <1>4, Zenon DEF EncodeIsNearest

(* Decoding the register of a code and encoding it again changes nothing *)
LEMMA RegistersRoundTrip == TypeOK => DecodeEncodeRoundTrip
<1> SUFFICES ASSUME TypeOK PROVE DecodeEncodeRoundTrip
  OBVIOUS
<1> DEFINE raw == input % Word
<1>1. input \in Int /\ Word \in Nat \ {0}
  BY FieldsOfTheRegisters, FieldWidths DEF TypeOK
<1>2. raw \in 0 .. Word - 1
  BY <1>1
<1> HIDE DEF raw
<1>3. encodeShuntMicroVolts(decodeShuntMicroVolts(raw))
        = OkResult(raw - (raw % 2 ^ DataShift))
  BY <1>2, FieldsOfTheRegisters, FieldIsEncodedBack
     DEF encodeShuntMicroVolts, decodeShuntMicroVolts
<1>4. encodeBusMilliVolts(decodeBusMilliVolts(raw))
        = OkResult(raw - (raw % 2 ^ DataShift))
  BY <1>2, FieldsOfTheRegisters, FieldIsEncodedBack
     DEF encodeBusMilliVolts, decodeBusMilliVolts
<1> QED
  BY <1>3, <1>4, Zenon DEF DecodeEncodeRoundTrip, raw

(* A power-valid window that is accepted is ordered in the registers too *)
LEMMA WindowsAreOrdered == TypeOK => AcceptedWindowIsOrdered
<1> SUFFICES ASSUME TypeOK, NEW width \in WindowWidths, input >= 0, input + width >= 0,
                    validatePowerValidWindow(input, input + width)
             PROVE  LET lower == decodeBusMilliVolts(encodeBusMilliVolts(input).value)
                        upper == decodeBusMilliVolts(encodeBusMilliVolts(input + width).value)
                    IN 0 <= lower /\ lower <= upper /\ upper <= MaximumBus
  BY DEF AcceptedWindowIsOrdered
<1> DEFINE a == input
           b == input + width
           lower == RoundDivide(a, BusLsb)
           upper == RoundDivide(b, BusLsb)
<1>1. a \in Nat /\ b \in Nat /\ width \in Int
  BY FixedUnitsAssumption DEF TypeOK
<1>2. /\ a < b /\ b <= MaximumBus
      /\ encodeBusMilliVolts(a).ok /\ encodeBusMilliVolts(b).ok
  BY DEF validatePowerValidWindow
<1>3. /\ SignExtendField(encodeBusMilliVolts(a).value, DataShift, DataBits) = lower
      /\ SignExtendField(encodeBusMilliVolts(b).value, DataShift, DataBits) = upper
  <2> HIDE DEF a, b
  <2>1. a \in Int /\ b \in Int
    BY <1>1
  <2> QED
    BY <1>2, <2>1, FieldsOfTheRegisters, EncodedIsShown DEF encodeBusMilliVolts
<1> HIDE DEF a, b
<1>4. lower \in Nat /\ upper \in Nat /\ lower <= upper
  <2>1. a <= b /\ BusLsb \in Nat \ {0} /\ 0 \in Int /\ 0 >= -1
    BY <1>1, <1>2, FieldsOfTheRegisters
  <2>2. lower \in Nat /\ upper \in Nat
    BY <1>1, <2>1, RoundAtMost
  <2> QED
    BY <1>1, <2>1, <2>2, RoundIsMonotone
<1>5. PICK steps \in Nat : MaximumBus = steps * BusLsb
  BY FieldsOfTheRegisters
<1>6. upper <= steps
  <2>1. steps \in Int /\ steps >= -1 /\ BusLsb \in Nat \ {0}
    BY FieldsOfTheRegisters
  <2>2. upper <= steps <=> 2 * (b - steps * BusLsb) < BusLsb
    BY <1>1, <2>1, RoundAtMost
  <2>3. 2 * (b - MaximumBus) < BusLsb
    BY <1>1, <1>2, FieldsOfTheRegisters
  <2> QED
    BY <1>5, <2>2, <2>3
<1> HIDE DEF lower, upper
<1>7. 0 <= lower * BusLsb /\ lower * BusLsb <= upper * BusLsb
      /\ upper * BusLsb <= steps * BusLsb
  <2>1. BusLsb \in Nat
    BY FieldsOfTheRegisters
  <2> QED
    BY <1>4, <1>6, <2>1
<1>8. /\ decodeBusMilliVolts(encodeBusMilliVolts(a).value) = lower * BusLsb
      /\ decodeBusMilliVolts(encodeBusMilliVolts(b).value) = upper * BusLsb
  BY <1>3 DEF decodeBusMilliVolts
<1> QED
  BY <1>5, <1>7, <1>8 DEF a, b

(* Limits and windows survive the way into the registers and back, for     *)
(* every width of the word and its fields and every step: the encoders and *)
(* decoders of the fixed-unit API, and validatePowerValidWindow.           *)
THEOREM EncodingCorrect == Spec => []EncodingIsFaithful
<1>1. TypeOK => EncodingIsFaithful
  BY LimitsAreNearest, RegistersRoundTrip, WindowsAreOrdered DEF EncodingIsFaithful
<1> QED
  BY <1>1, InputIsInt, PTL

-----------------------------------------------------------------------------
(* Readings *)

(* A rounded quotient is a 32-bit integer exactly if the quotient is less  *)
(* than a half beyond the largest and the smallest of them.                *)
LEMMA FitsExactly ==
  ASSUME NEW n \in Int, NEW d \in Nat \ {0}
  PROVE  InInt(RoundDivide(n, d)) <=> Fits(n, d)
<1> DEFINE q == RoundDivide(n, d)
           H == IntMax + 1
<1>1. q \in Int /\ IntMax \in Nat /\ H \in Nat \ {0} /\ H - 1 = IntMax
  BY RoundDivideNegated, FixedUnitsAssumption DEF FixedUnitsAssumption
<1> HIDE DEF H
<1>2. q >= -H /\ q < H <=> 2 * (n - (H - 1) * d) < d /\ 2 * (-H * d - n) < d
  BY <1>1, InFieldIsNear
<1>3. InInt(q) <=> q >= -H /\ q < H
  <2> HIDE DEF q
  <2> QED BY <1>1 DEF InInt, H
<1>4. Fits(n, d) <=> 2 * (n - (H - 1) * d) < d /\ 2 * (-H * d - n) < d
  BY <1>1 DEF Fits, H
<1> QED
  BY <1>2, <1>3, <1>4

(* A current is refused without a resistance or if it does not fit, and    *)
(* else is the nearest integer.                                            *)
LEMMA CurrentFacts ==
  ASSUME NEW microVolts \in Int, NEW c \in Calibrations
  PROVE  LET current == calculateCurrentMilliAmps(microVolts, c)
             exact == microVolts * 1000 * c.direction
         IN /\ current.value \in Int /\ current.ok \in BOOLEAN
            /\ current.ok <=> c.resistance # 0 /\ Fits(exact, c.resistance)
            /\ current.ok => 2 * Distance(current.value * c.resistance, exact) <= c.resistance
<1> DEFINE exact == microVolts * 1000 * c.direction
           q == RoundDivide(exact, c.resistance)
<1>1. c.resistance \in Nat /\ c.direction \in {1, -1}
  BY FixedUnitsAssumption DEF Calibrations, FixedUnitsAssumption
<1>2. exact \in Int
  BY <1>1
<1>3. calculateCurrentMilliAmps(microVolts, c)
        = IF c.resistance # 0 /\ InInt(q) THEN OkResult(q) ELSE ErrorResult
  BY DEF calculateCurrentMilliAmps
<1> HIDE DEF exact
<1>4. c.resistance # 0 => /\ q \in Int
                          /\ InInt(q) <=> Fits(exact, c.resistance)
                          /\ 2 * Distance(q * c.resistance, exact) <= c.resistance
  BY <1>1, <1>2, RoundDivideNegated, RoundDivideNearest, FitsExactly
<1> HIDE DEF q
<1> DEFINE current == calculateCurrentMilliAmps(microVolts, c)
<1>5. current = IF c.resistance # 0 /\ InInt(q) THEN [ok |-> TRUE, value |-> q]
                ELSE [ok |-> FALSE, value |-> 0]
  BY <1>3 DEF OkResult, ErrorResult
<1> HIDE DEF current
<1>6. /\ current.value \in Int /\ current.ok \in BOOLEAN
      /\ current.ok <=> c.resistance # 0 /\ Fits(exact, c.resistance)
      /\ current.ok => 2 * Distance(current.value * c.resistance, exact) <= c.resistance
  <2>1. CASE c.resistance # 0 /\ InInt(q)
    BY <1>4, <1>5, <2>1
  <2>2. CASE ~(c.resistance # 0 /\ InInt(q))
    BY <1>4, <1>5, <2>2
  <2> QED
    BY <2>1, <2>2
<1> QED
  BY Zenon, <1>6 DEF exact, current

(* A power is refused if it does not fit, and else the nearest integer. *)
LEMMA PowerFacts ==
  ASSUME NEW v \in Int, NEW a \in Int, NEW product, product = v * a
  PROVE  LET power == calculatePowerMilliWatts(v, a) IN
         /\ power.value \in Int /\ power.ok \in BOOLEAN
         /\ power.ok <=> Fits(product, 1000)
         /\ power.ok => 2 * Distance(power.value * 1000, product) <= 1000
<1> DEFINE q == RoundDivide(product, 1000)
<1>1. product \in Int /\ 1000 \in Nat \ {0}
  OBVIOUS
<1>2. calculatePowerMilliWatts(v, a) = IF InInt(q) THEN OkResult(q) ELSE ErrorResult
  BY DEF calculatePowerMilliWatts
<1>3. /\ q \in Int
      /\ InInt(q) <=> Fits(product, 1000)
      /\ 2 * Distance(q * 1000, product) <= 1000
  BY <1>1, RoundDivideNegated, RoundDivideNearest, FitsExactly
<1> HIDE DEF q
<1> QED
  BY <1>2, <1>3 DEF OkResult, ErrorResult

(* What the decoder of a register yields is an integer *)
LEMMA DecodedIsInt ==
  ASSUME NEW raw \in 0 .. Word - 1
  PROVE  decodeShuntMicroVolts(raw) \in Int /\ decodeBusMilliVolts(raw) \in Int
<1>1. SignExtendField(raw, DataShift, DataBits) \in Int
  BY FieldsOfTheRegisters, FieldIsShown
<1> QED
  BY <1>1, FieldsOfTheRegisters DEF decodeShuntMicroVolts, decodeBusMilliVolts

Quantity == {"SHUNT", "CURRENT", "BUS", "POWER"}
Reading == [valid : SUBSET Quantity, shunt : Int, bus : Int, current : Int, power : Int]

(* convertRawChannel leaves a consistent reading. *)
LEMMA ReadingsAreConsistent == TypeOK => ReadingIsConsistent
<1> SUFFICES ASSUME TypeOK, input \in 0 .. Word - 1, NEW c \in Calibrations,
                    NEW requested \in {{"SHUNT"}, {"BUS"}, {"SHUNT", "BUS"}},
                    NEW busRaw \in 0 .. Word - 1
             PROVE
      LET result == convertRawChannel(input, busRaw, requested, c)
          reading == result.reading
          shunt == decodeShuntMicroVolts(input)
          bus == decodeBusMilliVolts(busRaw)
          exact == shunt * 1000 * c.direction
          noCurrent == "SHUNT" \in requested /\ (c.resistance = 0 \/ ~Fits(exact, c.resistance))
          hasCurrent == "SHUNT" \in requested /\ ~noCurrent
          hasBus == "BUS" \in requested /\ ~noCurrent /\ bus >= 0 /\ bus <= MaximumBus
          powerFits == Fits(bus * reading.current, 1000)
      IN /\ reading.valid =
              {q \in {"SHUNT", "CURRENT", "BUS", "POWER"} :
                 \/ q = "SHUNT" /\ "SHUNT" \in requested
                 \/ q = "CURRENT" /\ hasCurrent
                 \/ q = "BUS" /\ hasBus
                 \/ q = "POWER" /\ hasCurrent /\ hasBus /\ powerFits}
         /\ result.ok <=> ~noCurrent /\ (hasCurrent /\ hasBus => powerFits)
         /\ "SHUNT" \in reading.valid => reading.shunt = shunt
         /\ "BUS" \in reading.valid => reading.bus = bus
         /\ "CURRENT" \in reading.valid =>
              2 * Distance(reading.current * c.resistance, exact) <= c.resistance
         /\ "POWER" \in reading.valid =>
              2 * Distance(reading.power * 1000, bus * reading.current) <= 1000
  BY DEF ReadingIsConsistent
<1> DEFINE decoded == decodeShuntMicroVolts(input)
           shunt == IF "SHUNT" \in requested THEN decoded ELSE 0
           current == calculateCurrentMilliAmps(shunt, c)
           bus == decodeBusMilliVolts(busRaw)
           withShunt ==
             IF "SHUNT" \in requested
               THEN [NoReading EXCEPT !.valid = {"SHUNT", "CURRENT"}, !.shunt = shunt,
                                      !.current = current.value]
               ELSE NoReading
           inRange == IF BusInRange(bus) THEN {"BUS"} ELSE {}
           withBus ==
             IF "BUS" \in requested
               THEN [withShunt EXCEPT !.bus = bus, !.valid = @ \union inRange]
               ELSE withShunt
           power == calculatePowerMilliWatts(withBus.bus, withBus.current)
           withPower == [withBus EXCEPT !.power = power.value, !.valid = @ \union {"POWER"}]
           refused == WithoutCurrent(shunt)
           result == convertRawChannel(input, busRaw, requested, c)
           reading == result.reading
           exact == decoded * 1000 * c.direction
           noCurrent == "SHUNT" \in requested /\ (c.resistance = 0 \/ ~Fits(exact, c.resistance))
           hasCurrent == "SHUNT" \in requested /\ ~noCurrent
           hasBus == "BUS" \in requested /\ ~noCurrent /\ bus >= 0 /\ bus <= MaximumBus
           powerFits == Fits(bus * reading.current, 1000)
           nearCurrent == 2 * Distance(reading.current * c.resistance, exact) <= c.resistance
           nearPower == 2 * Distance(reading.power * 1000, bus * reading.current) <= 1000
           Marked(q) == \/ q = "SHUNT" /\ "SHUNT" \in requested
                        \/ q = "CURRENT" /\ hasCurrent
                        \/ q = "BUS" /\ hasBus
                        \/ q = "POWER" /\ hasCurrent /\ hasBus /\ powerFits
<1>1. decoded \in Int /\ shunt \in Int /\ bus \in Int
  BY DecodedIsInt
<1>2. /\ current.value \in Int /\ current.ok \in BOOLEAN
      /\ "SHUNT" \in requested =>
           /\ current.ok <=> ~noCurrent
           /\ current.ok =>
                2 * Distance(current.value * c.resistance, exact) <= c.resistance
  <2>1. CASE "SHUNT" \in requested
    <3>1. shunt = decoded
      BY <2>1
    <3> HIDE DEF decoded, shunt
    <3> QED
      BY <1>1, <2>1, <3>1, CurrentFacts
  <2>2. CASE "SHUNT" \notin requested
    <3> HIDE DEF shunt
    <3> QED
      BY <1>1, <2>2, CurrentFacts
  <2> QED
    BY <2>1, <2>2
<1>3. result =
        IF "SHUNT" \in requested /\ ~current.ok THEN [ok |-> FALSE, reading |-> refused]
        ELSE IF ~({"BUS", "CURRENT"} \subseteq withBus.valid)
          THEN [ok |-> TRUE, reading |-> withBus]
        ELSE IF ~power.ok THEN [ok |-> FALSE, reading |-> withBus]
        ELSE [ok |-> TRUE, reading |-> withPower]
  BY Zenon DEF convertRawChannel
<1>4. bus >= 0 /\ bus <= MaximumBus <=> BusInRange(bus)
  BY DEF BusInRange
<1>5. SUFFICES
        /\ reading.valid = {q \in Quantity : Marked(q)}
        /\ result.ok <=> ~noCurrent /\ (hasCurrent /\ hasBus => powerFits)
        /\ "SHUNT" \in reading.valid => reading.shunt = decoded
        /\ "BUS" \in reading.valid => reading.bus = bus
        /\ "CURRENT" \in reading.valid => nearCurrent
        /\ "POWER" \in reading.valid => nearPower
  BY Zenon DEF Quantity
<1>6. "SHUNT" \in requested => shunt = decoded
  OBVIOUS
<1> HIDE DEF shunt, bus, current, result, decoded, exact
<1>7. NoReading \in Reading /\ NoReading.valid = {}
  BY DEF NoReading, Reading, Quantity
<1>8. refused \in Reading /\ refused.valid = {"SHUNT"} /\ refused.shunt = shunt
  BY <1>1, <1>7 DEF WithoutCurrent, Reading, Quantity
<1>9. /\ withShunt \in Reading
      /\ withShunt.valid = IF "SHUNT" \in requested THEN {"SHUNT", "CURRENT"} ELSE {}
      /\ "SHUNT" \in requested => withShunt.shunt = shunt /\ withShunt.current = current.value
  BY <1>1, <1>2, <1>7 DEF Reading, Quantity
<1> HIDE DEF withShunt, refused
<1>10. inRange \subseteq {"BUS"} /\ ("BUS" \in inRange <=> BusInRange(bus))
  OBVIOUS
<1> HIDE DEF inRange
<1>11. /\ withBus \in Reading
       /\ withBus.valid = IF "BUS" \in requested THEN withShunt.valid \union inRange
                          ELSE withShunt.valid
       /\ withBus.shunt = withShunt.shunt /\ withBus.current = withShunt.current
       /\ "BUS" \in requested => withBus.bus = bus
  <2>1. CASE "BUS" \in requested
    <3>1. withBus = [withShunt EXCEPT !.bus = bus, !.valid = withShunt.valid \union inRange]
      BY <1>9, <2>1 DEF Reading
    <3>2. withShunt.valid \union inRange \in SUBSET Quantity
      BY <1>9, <1>10 DEF Reading, Quantity
    <3> QED
      BY <1>1, <1>9, <2>1, <3>1, <3>2 DEF Reading
  <2>2. CASE "BUS" \notin requested
    BY <1>9, <2>2
  <2> QED
    BY <2>1, <2>2
<1> HIDE DEF withBus
<1>12. /\ withBus.valid \subseteq Quantity /\ withBus.bus \in Int /\ withBus.current \in Int
       /\ "BUS" \in withBus.valid <=> "BUS" \in requested /\ BusInRange(bus)
       /\ "CURRENT" \in withBus.valid <=> "SHUNT" \in requested
       /\ "SHUNT" \in withBus.valid <=> "SHUNT" \in requested
       /\ "POWER" \notin withBus.valid
  BY <1>9, <1>10, <1>11 DEF Reading
<1>13. CASE "SHUNT" \in requested /\ ~current.ok
  <2>1. result.ok = FALSE /\ reading = refused
    BY <1>3, <1>13
  <2>2. noCurrent /\ ~hasCurrent /\ ~hasBus
    BY <1>2, <1>13
  <2> HIDE DEF noCurrent, hasCurrent, hasBus, reading, nearCurrent, nearPower, powerFits
  <2>3. reading.valid = {q \in Quantity : Marked(q)}
    BY <1>8, <1>13, <2>1, <2>2 DEF Quantity
  <2> QED
    BY <1>6, <1>8, <1>13, <2>1, <2>2, <2>3
<1>14. ASSUME ~("SHUNT" \in requested /\ ~current.ok), reading.current = withBus.current
       PROVE  /\ ~noCurrent
              /\ hasCurrent <=> "CURRENT" \in withBus.valid
              /\ hasBus <=> "BUS" \in withBus.valid
              /\ "SHUNT" \in withBus.valid => withBus.shunt = decoded
              /\ "BUS" \in withBus.valid => withBus.bus = bus
              /\ "CURRENT" \in withBus.valid => nearCurrent
  <2>1. ~noCurrent
    BY <1>2, <1>14
  <2>2. /\ hasCurrent <=> "CURRENT" \in withBus.valid
        /\ hasBus <=> "BUS" \in withBus.valid
    <3> HIDE DEF noCurrent
    <3> QED BY <1>4, <1>12, <2>1
  <2>3. "CURRENT" \in withBus.valid => nearCurrent
    <3> HIDE DEF noCurrent, hasCurrent, hasBus, reading
    <3> QED BY <1>2, <1>9, <1>11, <1>12, <1>14
  <2> HIDE DEF noCurrent, hasCurrent, hasBus, nearCurrent
  <2> QED
    BY <1>6, <1>9, <1>11, <1>12, <2>1, <2>2, <2>3
<1>15. CASE /\ ~("SHUNT" \in requested /\ ~current.ok)
            /\ ~({"BUS", "CURRENT"} \subseteq withBus.valid)
  <2>1. result.ok = TRUE /\ reading = withBus
    BY <1>3, <1>15
  <2> HIDE DEF noCurrent, hasCurrent, hasBus, reading, nearCurrent, nearPower, powerFits
  <2>2. reading.valid = {q \in Quantity : Marked(q)}
    BY <1>12, <1>14, <1>15, <2>1 DEF Quantity
  <2> QED
    BY <1>12, <1>14, <1>15, <2>1, <2>2
<1>16. ASSUME {"BUS", "CURRENT"} \subseteq withBus.valid, withBus.bus = bus,
              reading.current = withBus.current
       PROVE  /\ power.ok \in BOOLEAN
              /\ power.ok <=> powerFits
              /\ power.ok => 2 * Distance(power.value * 1000, bus * reading.current) <= 1000
  <2> HIDE DEF reading
  <2>1. calculatePowerMilliWatts(bus, reading.current) = power
    BY <1>16
  <2>2. bus \in Int /\ reading.current \in Int
    BY <1>1, <1>12, <1>16
  <2> HIDE DEF power, bus, result
  <2> DEFINE amps == reading.current
             product == bus * amps
  <2>3. amps \in Int /\ product = bus * amps
    BY <2>2
  <2> HIDE DEF amps, product
  <2>4. LET p == calculatePowerMilliWatts(bus, amps) IN
        /\ p.value \in Int /\ p.ok \in BOOLEAN
        /\ p.ok <=> Fits(product, 1000)
        /\ p.ok => 2 * Distance(p.value * 1000, product) <= 1000
    BY SMT, <2>2, <2>3, PowerFacts
  <2> QED
    BY Zenon, <2>1, <2>4 DEF amps, product
<1>17. CASE /\ ~("SHUNT" \in requested /\ ~current.ok)
            /\ {"BUS", "CURRENT"} \subseteq withBus.valid
            /\ ~power.ok
  <2>1. result.ok = FALSE /\ reading = withBus
    BY <1>3, <1>17
  <2> HIDE DEF power, noCurrent, hasCurrent, hasBus, reading, nearCurrent, nearPower, powerFits
  <2>2. ~powerFits
    BY <1>14, <1>16, <1>17, <2>1
  <2>3. reading.valid = {q \in Quantity : Marked(q)}
    BY <1>12, <1>14, <1>17, <2>1, <2>2 DEF Quantity
  <2> QED
    BY <1>12, <1>14, <1>17, <2>1, <2>2, <2>3
<1>18. CASE /\ ~("SHUNT" \in requested /\ ~current.ok)
            /\ {"BUS", "CURRENT"} \subseteq withBus.valid
            /\ power.ok
  <2>1. result.ok = TRUE /\ reading = withPower
    BY <1>3, <1>18
  <2>2. /\ reading.valid = withBus.valid \union {"POWER"}
        /\ reading.power = power.value /\ reading.bus = withBus.bus
        /\ reading.current = withBus.current /\ reading.shunt = withBus.shunt
    <3> HIDE DEF power, reading
    <3> QED BY <1>11, <2>1 DEF Reading
  <2> HIDE DEF power, noCurrent, hasCurrent, hasBus, reading, nearCurrent, powerFits
  <2>3. powerFits /\ nearPower
    BY <1>14, <1>16, <1>18, <2>2
  <2> HIDE DEF nearPower
  <2>4. reading.valid = {q \in Quantity : Marked(q)}
    BY <1>12, <1>14, <1>18, <2>2, <2>3 DEF Quantity
  <2> QED
    BY <1>12, <1>14, <1>18, <2>1, <2>2, <2>3, <2>4
<1> QED
  BY <1>13, <1>15, <1>17, <1>18

(* The mask of a reading, also of one whose conversion failed, says        *)
(* exactly what was requested, in range and without overflow, and nothing  *)
(* else, and what it marks is the value of the registers or nearest to it, *)
(* for every width of the registers, every calibration, every request and  *)
(* every size of the results (_convertRawChannel).                         *)
THEOREM ReadingCorrect == Spec => []ReadingIsConsistent
<1> QED
  BY ReadingsAreConsistent, InputIsInt, PTL

=============================================================================
