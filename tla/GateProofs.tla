----------------------------- MODULE GateProofs -----------------------------
(***************************************************************************)
(* Theorems about comparisons and quality gates: first their arithmetic,   *)
(* for all values, thresholds and tolerances that are not negative, then   *)
(* the calls a program makes with two results, for all of those and all    *)
(* policies.                                                               *)
(***************************************************************************)
EXTENDS GatedComparison, FiniteSetTheorems, TLAPS

---------------------------------------------------------------------------
(* Closeness *)

LEMMA AbsNat == \A x \in Int : Abs(x) \in Nat
  BY DEF Abs

\* A product of whole numbers that are not negative is one.
LEMMA ProductNat == \A x, y \in Nat : x * y \in Nat
  OBVIOUS

\* Multiplying keeps an order.
LEMMA ProductOrder == \A x, y, z \in Nat : x <= y => x * z <= y * z
<1>. SUFFICES ASSUME NEW x \in Nat, NEW y \in Nat, NEW z \in Nat, x <= y
              PROVE x * z <= y * z
  OBVIOUS
<1>1. PICK k \in Nat : y = x + k
  <2>1. y - x \in Nat /\ y = x + (y - x)
    OBVIOUS
  <2>. QED BY <2>1
<1>2. y * z = x * z + k * z
  BY <1>1
<1>3. k * z \in Nat /\ x * z \in Nat
  BY ProductNat
<1>. QED
  BY <1>2, <1>3

\* Closeness does not depend on the order of the two values.
LEMMA WithinSymmetric ==
    ASSUME NEW x \in Int, NEW y \in Int, NEW absolute \in Int, NEW t \in ToleranceType
    PROVE  Within(x, y, absolute, t) <=> Within(y, x, absolute, t)
<1>1. Abs(x - y) = Abs(y - x)
  BY DEF Abs
<1>2. Larger(Abs(x), Abs(y)) = Larger(Abs(y), Abs(x))
  BY AbsNat DEF Larger
<1>. QED
  BY <1>1, <1>2 DEF Within

\* If the ends of a range are close, so are its parts.
LEMMA WithinRange ==
    ASSUME NEW a \in Nat, NEW b \in Nat, NEW c \in Nat, a <= b, b <= c,
           NEW absolute \in Nat, NEW t \in ToleranceType,
           Within(a, c, absolute, t)
    PROVE  Within(a, b, absolute, t) /\ Within(b, c, absolute, t)
<1>. DEFINE num == t.num  den == t.den
<1>1. num \in Nat /\ den \in Nat /\ den > 0
  BY DEF ToleranceType
<1>2. /\ Abs(a - c) = c - a /\ Abs(a - b) = b - a /\ Abs(b - c) = c - b
      /\ Larger(Abs(a), Abs(c)) = c /\ Larger(Abs(a), Abs(b)) = b
      /\ Larger(Abs(b), Abs(c)) = c
  BY DEF Abs, Larger
<1>3. CASE c - a <= absolute
  <2>1. b - a <= absolute /\ c - b <= absolute
    BY <1>3
  <2>. QED
    BY <1>2, <2>1 DEF Within
<1>4. CASE (c - a) * den <= num * c
  <2>1. (c - b) * den <= (c - a) * den
    BY <1>1, ProductOrder, c - b \in Nat, c - a \in Nat, c - b <= c - a
  <2>2. (c - b) * den <= num * c
    BY <1>1, <1>4, <2>1, c - b \in Nat, c - a \in Nat, ProductNat
  <2>3. (b - a) * den <= num * b
    <3>1. CASE num >= den
      <4>1. (b - a) * den <= b * den
        BY <1>1, ProductOrder, b - a \in Nat, b - a <= b
      <4>2. den * b <= num * b
        BY <1>1, <3>1, ProductOrder
      <4>. QED
        BY <1>1, <4>1, <4>2, ProductNat, b - a \in Nat, b * den = den * b
    <3>2. CASE num < den
      \* c * (den - num) <= a * den, and b is no greater than c.
      <4>1. PICK k \in Nat : den = num + k
        <5>1. den - num \in Nat /\ den = num + (den - num)
          BY <1>1, <3>2
        <5>. QED BY <5>1
      <4>2. /\ (c - a) * den = c * num + c * k - a * den
            /\ (b - a) * den = b * num + b * k - a * den
        BY <1>1, <4>1
      <4>3. b * k <= c * k
        BY <4>1, ProductOrder
      <4>4. c * k <= a * den
        BY <1>1, <1>4, <4>2, ProductNat
      <4>. QED
        BY <1>1, <4>2, <4>3, <4>4, ProductNat, b - a \in Nat
    <3>. QED BY <1>1, <3>1, <3>2
  <2>. QED
    BY <1>2, <2>2, <2>3 DEF Within
<1>. QED
  BY <1>2, <1>3, <1>4 DEF Within

---------------------------------------------------------------------------
(* Comparisons *)

\* Two values are close whichever of them is the baseline.
THEOREM CloseIsSymmetric ==
    ASSUME NEW l \in Int, NEW r \in Int, NEW t \in ToleranceType
    PROVE  Close(l, r, t) <=> Close(r, l, t)
<1>1. t.absolute * 1 \in Int /\ l * 1 = l /\ r * 1 = r
  BY DEF ToleranceType
<1>. QED
  BY <1>1, WithinSymmetric DEF Close, CloseTo

\* comparison.py's classification of a metric: comparing the other way round
\* turns an improvement into a regression and leaves what is unchanged.
THEOREM ClassificationMirrors ==
    ASSUME NEW key, NEW l \in Int, NEW r \in Int, NEW t \in ToleranceType
    PROVE  Classification(key, r, l, t) = Mirrored(Classification(key, l, r, t))
<1>1. CASE Close(l, r, t)
  BY <1>1, CloseIsSymmetric DEF Classification, Mirrored
<1>2. CASE ~ Close(l, r, t)
  <2>1. ~ Close(r, l, t)
    BY <1>2, CloseIsSymmetric
  <2>2. l # r
    <3>1. Within(l, l, t.absolute * 1, t)
      <4>1. Abs(l - l) = 0 /\ t.absolute * 1 >= 0
        BY DEF Abs, ToleranceType
      <4>. QED BY <4>1 DEF Within
    <3>. QED BY <1>2, <3>1 DEF Close, CloseTo
  <2>3. Directional(key, r, l) = - Directional(key, l, r) /\ Directional(key, l, r) \in Int
        /\ Directional(key, l, r) # 0
    BY <2>2 DEF Directional
  <2>. QED
    BY <1>2, <2>1, <2>3 DEF Classification, Mirrored
<1>. QED BY <1>1, <1>2

---------------------------------------------------------------------------
(* Gates *)

\* An absent value is told from every fraction.
LEMMA MissingApart == \A n, d \in Int : Missing # [n |-> n, d |-> d]
  BY MissingAssumption

\* What a metric that got worse changed by is no part of the tolerance.
LEMMA WorseIsFar ==
    ASSUME NEW l \in Nat, NEW r \in Nat, NEW t \in ToleranceType, ~ Close(l, r, t)
    PROVE  /\ Abs(r - l) > t.absolute
           /\ Abs(r - l) * t.den > t.num * l
           /\ t.num < t.den
<1>1. t.num \in Nat /\ t.den \in Nat /\ t.den > 0 /\ t.absolute \in Nat
  BY DEF ToleranceType
<1>2. Abs(l - r) = Abs(r - l) /\ Abs(r - l) \in Nat /\ Larger(Abs(l), Abs(r)) = Larger(l, r)
      /\ Larger(l, r) \in Nat /\ l <= Larger(l, r) /\ Abs(r - l) <= Larger(l, r)
  BY DEF Abs, Larger
<1>3. Abs(r - l) > t.absolute /\ Abs(r - l) * t.den > t.num * Larger(l, r)
  BY <1>1, <1>2, ProductNat DEF Close, CloseTo, Within
<1>4. l * t.num <= Larger(l, r) * t.num
  BY <1>1, <1>2, ProductOrder
<1>5. Abs(r - l) * t.den <= Larger(l, r) * t.den
  BY <1>1, <1>2, ProductOrder
<1>6. t.num < t.den
  <2>1. CASE t.den <= t.num
    <3>1. t.den * Larger(l, r) <= t.num * Larger(l, r)
      BY <1>1, <1>2, <2>1, ProductOrder
    <3>. QED
      BY <1>1, <1>2, <1>3, <1>5, <3>1, ProductNat
  <2>. QED BY <1>1, <2>1
<1>. QED
  BY <1>1, <1>2, <1>3, <1>4, <1>6, ProductNat

\* A drop is measured relative to a positive baseline; an absolute tolerance
\* does not swallow it unless the baseline is great and it is the wider one.
LEMMA RelativeIsFar ==
    ASSUME NEW l \in Nat, NEW r \in Nat, NEW t \in ToleranceType, ~ Close(l, r, t), l > 0,
           l <= One \/ t.absolute * t.den <= t.num * One
    PROVE  One * Abs(r - l) > t.absolute * l
<1>. DEFINE D == Abs(r - l)  abs == t.absolute  num == t.num  den == t.den
<1>1. One \in Nat /\ One > 0 /\ abs \in Nat /\ num \in Nat /\ den \in Nat /\ den > 0 /\ D \in Nat
  BY OneAssumption, AbsNat DEF ToleranceType
<1>2. D > abs /\ D * den > num * l
  BY WorseIsFar
<1>. HIDE DEF D, abs, num, den
<1>3. CASE l <= One
  <2>1. (abs + 1) * l <= D * l
    BY <1>1, <1>2, ProductOrder, abs + 1 \in Nat, abs + 1 <= D
  <2>2. l * D <= One * D
    BY <1>1, <1>3, ProductOrder
  <2>3. (abs + 1) * l = abs * l + l /\ D * l = l * D
    BY <1>1
  <2>4. abs * l \in Nat /\ l * D \in Nat /\ One * D \in Nat
    BY <1>1, ProductNat
  <2>. QED
    BY <2>1, <2>2, <2>3, <2>4 DEF D, abs
<1>4. CASE abs * den <= num * One
  <2>. SUFFICES ASSUME One * D <= abs * l PROVE FALSE
    BY <1>1, ProductNat DEF D, abs
  <2>1. (One * D) * den <= (abs * l) * den
    BY <1>1, ProductNat, ProductOrder
  <2>2. (abs * den) * l <= (num * One) * l
    BY <1>1, <1>4, ProductNat, ProductOrder
  <2>3. (num * l + 1) * One <= (D * den) * One
    <3>1. num * l \in Nat /\ D * den \in Nat
      BY <1>1, ProductNat
    <3>. QED
      BY <1>1, <1>2, <3>1, ProductOrder, num * l + 1 \in Nat, num * l + 1 <= D * den
  <2>4. /\ (One * D) * den = (D * den) * One
        /\ (abs * l) * den = (abs * den) * l
        /\ (num * One) * l = (num * l) * One
        /\ (num * l + 1) * One = (num * l) * One + One
    BY <1>1
  <2>5. /\ (D * den) * One \in Nat /\ (abs * den) * l \in Nat
        /\ (num * l) * One \in Nat
    BY <1>1, ProductNat
  <2>. QED
    BY <1>1, <2>1, <2>2, <2>3, <2>4, <2>5
<1>. QED
  BY <1>3, <1>4 DEF abs, num, den

\* Scaling to units commutes with the absolute value.
LEMMA ScaledAbs == \A x, y \in Nat : Abs(One * (y - x)) = One * Abs(y - x)
<1>. SUFFICES ASSUME NEW x \in Nat, NEW y \in Nat
              PROVE  Abs(One * (y - x)) = One * Abs(y - x)
  OBVIOUS
<1>1. CASE y >= x
  BY <1>1, OneAssumption, ProductNat, y - x \in Nat DEF Abs
<1>2. CASE y < x
  <2>1. One * (x - y) \in Nat /\ One * (y - x) = -(One * (x - y)) /\ x - y \in Nat
    BY <1>2, OneAssumption, ProductNat, x - y \in Nat
  <2>2. Abs(y - x) = x - y
    BY <1>2 DEF Abs
  <2>. QED BY <2>1, <2>2 DEF Abs
<1>. QED BY <1>1, <1>2

\* A positive value is far from zero, whatever the relative tolerance below one.
LEMMA FarFromZero ==
    ASSUME NEW n \in Nat, NEW d \in Nat, NEW t \in ToleranceType, NEW constraint,
           constraint # "min_value", n > t.absolute * d, t.num < t.den
    PROVE  ~ BoundaryPasses([n |-> n, d |-> d], 0, constraint, t)
<1>1. t.num \in Nat /\ t.den \in Nat /\ t.absolute * d \in Nat /\ 0 * d = 0
  BY ProductNat DEF ToleranceType
<1>2. Abs(n - 0) = n /\ Larger(Abs(n), Abs(0)) = n
  BY DEF Abs, Larger
<1>3. n * t.den > t.num * n
  <2>1. (t.num + 1) * n <= t.den * n
    BY <1>1, ProductOrder, t.num + 1 \in Nat, t.num + 1 <= t.den
  <2>2. (t.num + 1) * n = t.num * n + n /\ t.den * n = n * t.den
    BY <1>1
  <2>3. t.num * n \in Int /\ n * t.den \in Int
    BY <1>1
  <2>4. n > 0
    BY <1>1
  <2>5. t.num * n + n <= n * t.den
    BY <2>1, <2>2
  <2>. QED
    BY <2>3, <2>4, <2>5
<1>4. ~ CloseTo(n, d, 0, t)
  BY <1>1, <1>2, <1>3, ProductNat DEF CloseTo, Within
<1>. QED
  BY <1>1, <1>4 DEF BoundaryPasses

\* No drop at all passes a gate of any threshold that is not negative.
LEMMA NoDropPasses ==
    ASSUME NEW threshold \in Nat, NEW constraint, constraint # "min_value", NEW t
    PROVE  BoundaryPasses(Whole(0), threshold, constraint, t)
  BY DEF BoundaryPasses, Whole

\* A gate that allows no drop passes exactly if the comparison does not call
\* the metric regressed; for a relative drop, only of a baseline of at most 1.0
\* or if the relative tolerance is at least the absolute one.
THEOREM ZeroDropMatches ==
    ASSUME NEW key, NEW l \in Nat, NEW r \in Nat, NEW t \in ToleranceType,
           NEW constraint \in DropConstraints,
           constraint = "max_relative_drop" => l <= One \/ t.absolute * t.den <= t.num * One
    PROVE  Check(constraint, 0, key, l, r, t).passed
               <=> Classification(key, l, r, t) # "regressed"
<1>. DEFINE actual == Actual(constraint, key, l, r, t)
            worse == Classification(key, l, r, t) = "regressed"
<1>1. Check(constraint, 0, key, l, r, t).passed
          <=> actual # Missing /\ BoundaryPasses(actual, 0, constraint, t)
  BY DEF Check
<1>2. Whole(0) # Missing
  BY MissingApart DEF Whole
<1>3. constraint # "min_value" /\ constraint # "max_value"
  BY DEF DropConstraints
<1>4. BoundaryPasses(Whole(0), 0, constraint, t)
  BY <1>3, NoDropPasses
<1>5. worse <=> ~ Close(l, r, t) /\ ~ Directional(key, l, r) > 0
  BY DEF Classification
<1>6. Directional(key, l, r) \in Int /\ Abs(r - l) \in Nat
      /\ (Directional(key, l, r) = r - l \/ Directional(key, l, r) = l - r)
  BY AbsNat DEF Directional
<1>7. CASE constraint = "max_absolute_drop"
  <2>1. actual = Whole(AbsoluteRegression(key, l, r, t))
    BY <1>7 DEF Actual
  <2>2. CASE ~ worse
    <3>1. AbsoluteRegression(key, l, r, t) = 0
      BY <1>5, <1>6, <2>2 DEF AbsoluteRegression, Larger
    <3>. QED BY <1>1, <1>2, <1>4, <2>1, <2>2, <3>1
  <2>3. CASE worse
    <3>1. AbsoluteRegression(key, l, r, t) = Abs(r - l)
      BY <1>5, <1>6, <2>3 DEF AbsoluteRegression, Larger, Abs
    <3>2. Abs(r - l) > t.absolute * 1 /\ t.num < t.den
      BY <1>5, <2>3, WorseIsFar DEF ToleranceType
    <3>3. ~ BoundaryPasses([n |-> Abs(r - l), d |-> 1], 0, constraint, t)
      BY <1>3, <1>6, <3>2, FarFromZero
    <3>. QED BY <1>1, <2>1, <2>3, <3>1, <3>3 DEF Whole
  <2>. QED BY <2>2, <2>3
<1>8. CASE constraint = "max_relative_drop"
  <2>1. actual = RelativeRegression(Delta(key, l, r, t))
    BY <1>8 DEF Actual
  <2>2. /\ Delta(key, l, r, t).classification = Classification(key, l, r, t)
        /\ Delta(key, l, r, t).relative = Relative(l, r)
    BY DEF Delta
  <2>3. CASE ~ worse
    <3>1. actual = Whole(0)
      BY <2>1, <2>2, <2>3 DEF RelativeRegression
    <3>. QED BY <1>1, <1>2, <1>4, <2>3, <3>1
  <2>4. CASE worse /\ l = 0
    <3>1. r # 0
      <4>1. t.absolute \in Nat
        BY DEF ToleranceType
      <4>2. Abs(r - l) > t.absolute
        BY <1>5, <2>4, WorseIsFar
      <4>3. Abs(r - l) > 0
        BY <1>6, <4>1, <4>2
      <4>. QED BY <2>4, <4>3 DEF Abs
    <3>2. Relative(l, r).status = "baseline_zero"
      BY <2>4, <3>1 DEF Relative
    <3>3. actual = Missing
      BY <2>1, <2>2, <2>4, <3>2 DEF RelativeRegression
    <3>. QED BY <1>1, <2>4, <3>3
  <2>5. CASE worse /\ l > 0
    <3>1. /\ Relative(l, r).status = "defined"
          /\ Relative(l, r).n = One * (r - l)
          /\ Relative(l, r).d = l
      BY <2>5 DEF Relative, Abs
    <3>2. actual = [n |-> Abs(One * (r - l)), d |-> l]
      BY <2>1, <2>2, <2>5, <3>1 DEF RelativeRegression
    <3>3. Abs(One * (r - l)) = One * Abs(r - l)
      BY ScaledAbs
    <3>4. One * Abs(r - l) > t.absolute * l /\ t.num < t.den
      BY <1>5, <1>8, <2>5, WorseIsFar, RelativeIsFar
    <3>5. One * Abs(r - l) \in Nat
      BY <1>6, OneAssumption, ProductNat
    <3>6. ~ BoundaryPasses([n |-> One * Abs(r - l), d |-> l], 0, constraint, t)
      BY <1>3, <3>4, <3>5, FarFromZero
    <3>. QED BY <1>1, <2>5, <3>2, <3>3, <3>6
  <2>. QED BY <2>3, <2>4, <2>5
<1>. QED
  BY <1>7, <1>8 DEF DropConstraints
---------------------------------------------------------------------------
(* A better candidate *)

\* What passes an upper limit does so with any smaller value. A negative limit
\* is met by nothing unless the relative tolerance is one or more.
LEMMA UpperPasses ==
    ASSUME NEW m \in Nat, NEW n \in Nat, NEW d \in Nat, NEW threshold \in Int,
           NEW t \in ToleranceType, NEW constraint, constraint # "min_value", m <= n,
           threshold >= 0 \/ t.num < t.den,
           BoundaryPasses([n |-> n, d |-> d], threshold, constraint, t)
    PROVE  BoundaryPasses([n |-> m, d |-> d], threshold, constraint, t)
<1>. DEFINE limit == threshold * d  absolute == t.absolute * d
<1>1. limit \in Int /\ absolute \in Nat /\ (threshold >= 0 => limit \in Nat)
  BY ProductNat DEF ToleranceType
<1>2. Within(n, limit, absolute, t) \/ n <= limit
  BY DEF BoundaryPasses, CloseTo
<1>3. CASE m <= limit
  BY <1>3 DEF BoundaryPasses
<1>4. CASE limit < m /\ limit \in Nat
  <2>1. Within(limit, n, absolute, t)
    BY <1>1, <1>2, <1>4, WithinSymmetric
  <2>2. Within(limit, m, absolute, t)
    BY <1>1, <1>4, <2>1, WithinRange
  <2>3. Within(m, limit, absolute, t)
    BY <1>1, <2>2, WithinSymmetric
  <2>. QED BY <2>3 DEF BoundaryPasses, CloseTo
<1>5. CASE limit < m /\ limit < 0 /\ t.num < t.den
  <2>1. Within(n, limit, absolute, t)
    BY <1>1, <1>2, <1>5
  <2>2. t.num \in Nat /\ t.den \in Nat
    BY DEF ToleranceType
  <2>3. Abs(n - limit) = n - limit /\ Abs(m - limit) = m - limit
        /\ Larger(Abs(n), Abs(limit)) \in Nat
        /\ Larger(Abs(n), Abs(limit)) <= n - limit /\ n - limit > 0
    BY <1>1, <1>5 DEF Abs, Larger
  <2>. DEFINE gap == n - limit  size == Larger(Abs(n), Abs(limit))
  <2>4. gap \in Nat /\ size \in Nat /\ size <= gap /\ gap > 0
    BY <1>1, <2>3
  <2>. HIDE DEF gap, size
  <2>5. size * t.num <= gap * t.num
    BY <2>2, <2>4, ProductOrder
  <2>6. (t.num + 1) * gap <= t.den * gap
    BY <1>5, <2>2, <2>4, ProductOrder, t.num + 1 \in Nat, t.num + 1 <= t.den
  <2>7. (t.num + 1) * gap = gap * t.num + gap /\ t.den * gap = gap * t.den
        /\ t.num * size = size * t.num
    BY <2>2, <2>4
  <2>8. gap * t.num \in Nat /\ gap * t.den \in Nat /\ size * t.num \in Nat
    BY <2>2, <2>4, ProductNat
  <2>9. ~ gap * t.den <= t.num * size
    BY <2>4, <2>5, <2>6, <2>7, <2>8
  <2>10. gap <= absolute
    BY <2>1, <2>3, <2>9 DEF Within, gap, size
  <2>11. m - limit <= absolute
    BY <1>1, <2>10 DEF gap
  <2>12. Within(m, limit, absolute, t)
    BY <2>3, <2>11 DEF Within
  <2>. QED BY <2>12 DEF BoundaryPasses, CloseTo
<1>. QED BY <1>1, <1>3, <1>4, <1>5

\* What passes a lower limit does so with any greater value.
LEMMA LowerPasses ==
    ASSUME NEW m \in Nat, NEW n \in Nat, NEW d \in Nat, NEW threshold \in Int,
           NEW t \in ToleranceType, n <= m,
           BoundaryPasses([n |-> n, d |-> d], threshold, "min_value", t)
    PROVE  BoundaryPasses([n |-> m, d |-> d], threshold, "min_value", t)
<1>. DEFINE limit == threshold * d  absolute == t.absolute * d
<1>1. limit \in Int /\ absolute \in Nat
  BY ProductNat DEF ToleranceType
<1>2. Within(n, limit, absolute, t) \/ n >= limit
  BY DEF BoundaryPasses, CloseTo
<1>3. CASE m >= limit
  BY <1>3 DEF BoundaryPasses
<1>4. CASE m < limit
  <2>1. Within(m, limit, absolute, t)
    BY <1>1, <1>2, <1>4, WithinRange
  <2>. QED BY <2>1 DEF BoundaryPasses, CloseTo
<1>. QED BY <1>1, <1>3, <1>4

\* If a better value is still worse than the baseline, the other one was too.
LEMMA WorseStays ==
    ASSUME NEW key, NEW l \in Nat, NEW r \in Nat, NEW r2 \in Nat, NEW t \in ToleranceType,
           Directional(key, r, r2) >= 0, ~ Close(l, r2, t), ~ Directional(key, l, r2) > 0
    PROVE  /\ ~ Close(l, r, t)
           /\ ~ Directional(key, l, r) > 0
           /\ Abs(r2 - l) <= Abs(r - l)
           /\ - Directional(key, l, r2) <= - Directional(key, l, r)
<1>1. \/ r <= r2 /\ r2 <= l
      \/ l <= r2 /\ r2 <= r
  BY DEF Directional
<1>2. ~ Close(l, r, t)
  <2>. SUFFICES ASSUME Close(l, r, t) PROVE FALSE
    OBVIOUS
  <2>1. t.absolute * 1 \in Nat /\ r * 1 = r /\ r2 * 1 = r2
    BY DEF ToleranceType
  <2>2. Within(l, r, t.absolute * 1, t) /\ ~ Within(l, r2, t.absolute * 1, t)
    BY <2>1 DEF Close, CloseTo
  <2>3. CASE l <= r2 /\ r2 <= r
    BY <2>1, <2>2, <2>3, WithinRange
  <2>4. CASE r <= r2 /\ r2 <= l
    <3>1. Within(r, l, t.absolute * 1, t)
      BY <2>1, <2>2, WithinSymmetric
    <3>2. Within(r2, l, t.absolute * 1, t)
      BY <2>1, <2>4, <3>1, WithinRange
    <3>. QED BY <2>1, <2>2, <3>2, WithinSymmetric
  <2>. QED BY <1>1, <2>3, <2>4
<1>3. /\ ~ Directional(key, l, r) > 0
      /\ Abs(r2 - l) <= Abs(r - l)
      /\ - Directional(key, l, r2) <= - Directional(key, l, r)
  BY <1>1 DEF Directional, Abs
<1>. QED BY <1>2, <1>3

\* A candidate that got better passes every check it passed before, unless the
\* gate bounds the metric from the wrong side.
THEOREM BetterPasses ==
    ASSUME NEW key, NEW l \in Nat, NEW r \in Nat, NEW r2 \in Nat,
           NEW t \in ToleranceType, NEW threshold \in Int, NEW constraint \in Constraints,
           constraint \in DropConstraints => threshold >= 0,
           constraint = "max_value" => threshold >= 0 \/ t.num < t.den,
           constraint # IF LowerIsBetter(key) THEN "min_value" ELSE "max_value",
           Directional(key, r, r2) >= 0,
           Check(constraint, threshold, key, l, r, t).passed
    PROVE  Check(constraint, threshold, key, l, r2, t).passed
<1>. DEFINE before == Actual(constraint, key, l, r, t)
            after == Actual(constraint, key, l, r2, t)
<1>1. before # Missing /\ BoundaryPasses(before, threshold, constraint, t)
  BY DEF Check
<1>. SUFFICES after # Missing /\ BoundaryPasses(after, threshold, constraint, t)
  BY DEF Check
<1>2. \A n \in Int : Whole(n) # Missing
  BY MissingApart DEF Whole
<1>3. CASE constraint = "min_value"
  <2>1. before = Whole(r) /\ after = Whole(r2) /\ r <= r2
    BY <1>3 DEF Actual, Directional
  <2>. QED BY <1>1, <1>2, <1>3, <2>1, LowerPasses DEF Whole
<1>4. CASE constraint = "max_value"
  <2>1. before = Whole(r) /\ after = Whole(r2) /\ r2 <= r
    BY <1>4 DEF Actual, Directional
  <2>. QED BY <1>1, <1>2, <1>4, <2>1, UpperPasses DEF Whole
<1>5. CASE constraint = "max_absolute_drop"
  <2>0. threshold \in Nat
    BY <1>5 DEF DropConstraints
  <2>. DEFINE drop == AbsoluteRegression(key, l, r, t)
              drop2 == AbsoluteRegression(key, l, r2, t)
  <2>1. before = Whole(drop) /\ after = Whole(drop2)
    BY <1>5 DEF Actual
  <2>2. drop \in Nat /\ drop2 \in Nat
    BY DEF AbsoluteRegression, Larger, Directional
  <2>3. drop2 <= drop
    <3>1. CASE Close(l, r2, t) \/ Directional(key, l, r2) > 0
      <4>1. drop2 = 0
        BY <3>1 DEF AbsoluteRegression, Larger, Directional
      <4>. QED BY <2>2, <4>1
    <3>2. CASE ~ Close(l, r2, t) /\ ~ Directional(key, l, r2) > 0
      <4>1. ~ Close(l, r, t) /\ - Directional(key, l, r2) <= - Directional(key, l, r)
        BY <3>2, WorseStays
      <4>. QED BY <3>2, <4>1 DEF AbsoluteRegression, Larger, Directional
    <3>. QED BY <3>1, <3>2
  <2>. HIDE DEF drop, drop2
  <2>. QED BY <1>1, <1>2, <2>0, <1>5, <2>1, <2>2, <2>3, UpperPasses DEF Whole
<1>6. CASE constraint = "max_relative_drop"
  <2>0. threshold \in Nat
    BY <1>6 DEF DropConstraints
  <2>1. /\ before = RelativeRegression(Delta(key, l, r, t))
        /\ after = RelativeRegression(Delta(key, l, r2, t))
    BY <1>6 DEF Actual
  <2>2. \A x \in Nat :
           /\ Delta(key, l, x, t).classification = Classification(key, l, x, t)
           /\ Delta(key, l, x, t).relative = Relative(l, x)
           /\ Classification(key, l, x, t) = "regressed"
                 <=> ~ Close(l, x, t) /\ ~ Directional(key, l, x) > 0
    BY DEF Delta, Classification
  <2>3. CASE Classification(key, l, r2, t) # "regressed"
    <3>1. after = Whole(0)
      BY <2>1, <2>2, <2>3 DEF RelativeRegression
    <3>. QED BY <1>2, <2>0, <1>6, <3>1, NoDropPasses
  <2>4. CASE Classification(key, l, r2, t) = "regressed"
    <3>1. Classification(key, l, r, t) = "regressed" /\ Abs(r2 - l) <= Abs(r - l)
      BY <2>2, <2>4, WorseStays
    <3>2. l # 0
      <4>. SUFFICES ASSUME l = 0 PROVE FALSE
        OBVIOUS
      <4>1. r # 0
        BY <2>2, <3>1 DEF Close, CloseTo, Within, Abs, ToleranceType
      <4>2. Relative(l, r).status = "baseline_zero"
        BY <4>1 DEF Relative
      <4>. QED BY <1>1, <2>1, <2>2, <3>1, <4>2 DEF RelativeRegression
    <3>3. \A x \in Nat : /\ Relative(l, x).status = "defined"
                         /\ Relative(l, x).n = One * (x - l)
                         /\ Relative(l, x).d = l
      BY <3>2 DEF Relative, Abs
    <3>4. /\ before = [n |-> Abs(One * (r - l)), d |-> l]
          /\ after = [n |-> Abs(One * (r2 - l)), d |-> l]
      BY <2>1, <2>2, <2>4, <3>1, <3>3 DEF RelativeRegression
    <3>5. /\ Abs(One * (r - l)) = One * Abs(r - l)
          /\ Abs(One * (r2 - l)) = One * Abs(r2 - l)
      BY ScaledAbs
    <3>6. /\ Abs(r - l) \in Nat /\ Abs(r2 - l) \in Nat /\ One \in Nat
          /\ One * Abs(r - l) \in Nat /\ One * Abs(r2 - l) \in Nat
      BY AbsNat, OneAssumption, ProductNat
    <3>7. One * Abs(r2 - l) <= One * Abs(r - l)
      BY <3>1, <3>6, ProductOrder
    <3>8. after # Missing
      BY <3>4, <3>5, <3>6, MissingApart
    <3>. QED BY <1>1, <1>6, <2>0, <3>4, <3>5, <3>6, <3>7, <3>8, UpperPasses
  <2>. QED BY <2>3, <2>4
<1>. QED BY <1>3, <1>4, <1>5, <1>6 DEF Constraints

---------------------------------------------------------------------------
(* Results and what they are read for *)

\* Attaching gates changes nothing else.
LEMMA GatedFields ==
    ASSUME NEW result, IsResult(result), NEW gates
    PROVE  /\ IsResult(WithGates(result, gates))
           /\ WithGates(result, gates).run = result.run
           /\ WithGates(result, gates).gates = gates
           /\ WithGates(result, gates).manifest = result.manifest
           /\ WithGates(result, gates).metrics = result.metrics
           /\ WithGates(result, gates).queries = result.queries
           /\ WithGates(result, gates).latency = result.latency
           /\ WithGates(WithGates(result, gates), << >>) = WithGates(result, << >>)
           /\ result.gates = gates => WithGates(result, gates) = result
<1>. DEFINE gated == WithGates(result, gates)
<1>1. result = [run |-> result.run, gates |-> result.gates, manifest |-> result.manifest,
                metrics |-> result.metrics, queries |-> result.queries,
                latency |-> result.latency]
  BY DEF IsResult
<1>2. gated = [run |-> result.run, gates |-> gates, manifest |-> result.manifest,
               metrics |-> result.metrics, queries |-> result.queries,
               latency |-> result.latency]
  BY <1>1 DEF WithGates
<1>3. IsResult(gated)
  BY <1>2 DEF IsResult, Names, HasLatency, QueriesOf
<1>. QED
  BY <1>1, <1>2, <1>3 DEF WithGates

\* A metric that a result has is a number, and not negative.
LEMMA AggregateIsNat ==
    ASSUME NEW result, IsResult(result), WithGates(result, << >>) \in Results,
           NEW retriever \in Names(result), NEW key,
           IF key \in Timed THEN HasLatency(result) ELSE key \in Shape(result, retriever)
    PROVE  AggregateValue(result, retriever, key) \in Nat
<1>1. CASE key \in Timed
  <2>1. key[1] \in LatencyStatistics
    BY <1>1 DEF Timed
  <2>2. result.latency[retriever] \in [LatencyStatistics -> Nat]
    BY <1>1 DEF IsResult
  <2>. QED
    BY <1>1, <2>1, <2>2 DEF AggregateValue
<1>2. CASE key \notin Timed
  <2>1. WithGates(result, << >>).metrics = result.metrics
    BY GatedFields
  <2>2. result.metrics[retriever][key] \in Int /\ result.metrics[retriever][key] >= 0
    BY <1>2, <2>1, ValuesAssumption DEF IsResult, AreMetrics, Names, Shape
  <2>. QED
    BY <1>2, <2>2 DEF AggregateValue
<1>. QED BY <1>1, <1>2

\* compare_runs, metric by metric.
LEMMA ComparedMetric ==
    ASSUME NEW left, NEW right, NEW t,
           NEW retriever \in CommonRetrievers(left, right),
           NEW key \in ComparedKeys(left, right, retriever)
    PROVE  CompareRuns(left, right, t)[retriever][key] =
               MetricComparison(left, right, retriever, key,
                   <<AggregateValue(left, retriever, key),
                     AggregateValue(right, retriever, key)>>, t)
  BY DEF CompareRuns

LEMMA ComparedAggregate ==
    ASSUME NEW left, NEW right, NEW t,
           NEW retriever \in CommonRetrievers(left, right),
           NEW key \in ComparedKeys(left, right, retriever)
    PROVE  CompareRuns(left, right, t)[retriever][key].aggregate =
               Delta(key, AggregateValue(left, retriever, key),
                     AggregateValue(right, retriever, key), t)
<1>. DEFINE values == <<AggregateValue(left, retriever, key),
                        AggregateValue(right, retriever, key)>>
<1>1. MetricComparison(left, right, retriever, key, values, t).aggregate =
          Delta(key, values[1], values[2], t)
  BY DEF MetricComparison
<1>. QED
  BY <1>1, ComparedMetric

\* What a gate's result says.
LEMMA GateResultFields ==
    ASSUME NEW result, NEW gate, NEW against, NEW t
    PROVE  /\ GateResult(result, gate, against, t).retriever = gate.retriever
           /\ GateResult(result, gate, against, t).key = gate.key
           /\ GateResult(result, gate, against, t).checks =
                  [constraint \in DOMAIN gate.limits |->
                      Check(constraint, gate.limits[constraint], gate.key,
                            IF IsDrop(gate)
                            THEN AggregateValue(against, gate.retriever, gate.key)
                            ELSE AggregateValue(result, gate.retriever, gate.key),
                            AggregateValue(result, gate.retriever, gate.key), t)]
  BY DEF GateResult

\* A gate reads the identifier and one value of the candidate.
LEMMA SameGateResult ==
    ASSUME NEW result, NEW other, NEW gate, result.run = other.run,
           AggregateValue(result, gate.retriever, gate.key) =
               AggregateValue(other, gate.retriever, gate.key),
           NEW against, NEW t
    PROVE  GateResult(result, gate, against, t) = GateResult(other, gate, against, t)
  BY Zenon DEF GateResult

---------------------------------------------------------------------------
(* The inductive invariant *)

\* Both results are some that a runner or a caller produced, the candidate
\* perhaps with gates.
ResultsInv ==
    /\ TypeOK
    /\ IsResult(candidate)

\* A comparison is of the two results at hand, which may be compared.
ComparedInv ==
    /\ comparison # Missing =>
           /\ comparison = CompareRuns(baseline, candidate, tolerance)
           /\ Comparable(baseline, candidate)
           /\ report = Missing
    /\ error = "IncomparableRunError" => ~ Comparable(baseline, candidate)

\* A report is of a result with the candidate's identifier and metrics, though
\* perhaps other latencies, and every metric its gates name is still there.
ReportInv ==
    report # Missing =>
        /\ report.gates \in Policies
        /\ \A i \in DOMAIN report.gates :
               /\ Available(candidate, report.gates[i])
               /\ IsDrop(report.gates[i]) =>
                      /\ report.against = baseline
                      /\ InComparison(baseline, candidate, report.gates[i])
        /\ \E first \in Results :
               /\ first.run = candidate.run
               /\ first.metrics = candidate.metrics
               /\ \A i \in DOMAIN report.gates : Available(first, report.gates[i])
               /\ report.report = EvaluateGates(first, report.gates, report.against, tolerance)

\* The candidate's gates are the report's, and the candidate accepted them.
AttachedInv ==
    /\ AcceptsGates(candidate, candidate.gates)
    /\ candidate.gates # << >> => report # Missing /\ candidate.gates = report.report.results

\* The file holds the candidate; an error since is that it does not load.
FileInv ==
    file # Missing =>
        /\ file.dict = ToDict(candidate)
        /\ error # "" => ~ Readable(file.dict) \/ ~ Fits

GatedIInv == ResultsInv /\ ComparedInv /\ ReportInv /\ AttachedInv /\ FileInv

\* The file holds what is needed to restore the result, be it with gates or
\* latency or without.
LEMMA RoundTrip ==
    ASSUME NEW result, IsResult(result)
    PROVE  FromDict(ToDict(result)) = result
<1>. DEFINE dict == ToDict(result)  names == Names(result)
<1>1. /\ dict.id = result.run /\ dict.manifest = result.manifest /\ dict.gates = result.gates
      /\ DOMAIN dict.retrievers = names
      /\ \A retriever \in names :
             /\ dict.retrievers[retriever].metrics = result.metrics[retriever]
             /\ dict.retrievers[retriever].per_query = result.queries[retriever]
             /\ dict.retrievers[retriever].latency =
                    IF HasLatency(result) THEN result.latency[retriever] ELSE Missing
  BY DEF ToDict
<1>. HIDE DEF dict
<1>2. names # {} /\ result = [run |-> result.run, gates |-> result.gates,
            manifest |-> result.manifest,
            metrics |-> [retriever \in names |-> result.metrics[retriever]],
            queries |-> [retriever \in names |-> result.queries[retriever]],
            latency |-> IF HasLatency(result)
                        THEN [retriever \in names |-> result.latency[retriever]] ELSE Missing]
  BY DEF IsResult
<1>3. (\A retriever \in names : dict.retrievers[retriever].latency = Missing)
          <=> ~ HasLatency(result)
  BY <1>1, <1>2, MissingAssumption DEF IsResult
<1>4. FromDict(dict) = [run |-> result.run, gates |-> result.gates,
            manifest |-> result.manifest,
            metrics |-> [retriever \in names |-> result.metrics[retriever]],
            queries |-> [retriever \in names |-> result.queries[retriever]],
            latency |-> IF HasLatency(result)
                        THEN [retriever \in names |-> result.latency[retriever]] ELSE Missing]
  BY <1>1, <1>3 DEF FromDict
<1>. QED
  BY <1>2, <1>4 DEF dict

---------------------------------------------------------------------------
(* Every call keeps the invariant *)

LEMMA GatedInit == Init => GatedIInv
<1>. SUFFICES ASSUME Init PROVE GatedIInv
  OBVIOUS
<1>1. baseline \in Results /\ candidate \in Results /\ tolerance \in Tolerances
      /\ comparison = Missing /\ report = Missing /\ file = Missing /\ error = ""
  BY DEF Init, Results
<1>2. IsResult(candidate) /\ candidate.gates = << >>
  BY <1>1, ResultsAssumption
<1>3. WithGates(candidate, << >>) \in Results
  BY <1>1, <1>2, GatedFields
<1>4. AcceptsGates(candidate, candidate.gates)
  BY <1>2 DEF AcceptsGates
<1>. QED
  BY <1>1, <1>2, <1>3, <1>4
     DEF GatedIInv, ResultsInv, TypeOK, ComparedInv, ReportInv, AttachedInv, FileInv

LEMMA SaveKeeps == GatedIInv /\ Save => GatedIInv'
<1>. SUFFICES ASSUME GatedIInv, Save PROVE GatedIInv'
  OBVIOUS
<1>1. UNCHANGED <<baseline, candidate, tolerance, comparison, report>>
      /\ error = "" /\ file = Missing
  BY DEF Save
<1>2. \/ file'.dict = ToDict(candidate) /\ error' = ""
      \/ file' = Missing /\ error' = "EvaluationError"
  <2>1. CASE /\ \E bytes \in FileSizes :
                    file' = [bytes |-> bytes, dict |-> ToDict(candidate)]
             /\ UNCHANGED error
    <3>1. PICK bytes \in FileSizes : file' = [bytes |-> bytes, dict |-> ToDict(candidate)]
      BY <2>1
    <3>2. file'.dict = ToDict(candidate)
      BY <3>1
    <3>. QED BY <1>1, <2>1, <3>2
  <2>2. CASE error' = "EvaluationError" /\ UNCHANGED file
    BY <1>1, <2>2
  <2>. QED BY <2>1, <2>2 DEF Save
<1>3. ResultsInv'
  BY <1>1, <1>2 DEF GatedIInv, ResultsInv, TypeOK
<1>4. ComparedInv'
  BY <1>1, <1>2 DEF GatedIInv, ComparedInv
<1>5. ReportInv'
  BY <1>1 DEF GatedIInv, ReportInv
<1>6. AttachedInv'
  BY <1>1 DEF GatedIInv, AttachedInv
<1>7. FileInv'
  BY <1>1, <1>2 DEF FileInv
<1>. QED BY <1>3, <1>4, <1>5, <1>6, <1>7 DEF GatedIInv

LEMMA LoadKeeps == GatedIInv /\ Load => GatedIInv'
<1>. SUFFICES ASSUME GatedIInv, Load PROVE GatedIInv'
  OBVIOUS
<1>1. UNCHANGED <<baseline, tolerance, comparison, report, file>> /\ file # Missing
      /\ error = ""
  BY DEF Load
<1>2. candidate' = candidate
  <2>1. file.dict = ToDict(candidate) /\ IsResult(candidate)
    BY <1>1 DEF GatedIInv, FileInv, ResultsInv
  <2>2. FromDict(file.dict) = candidate
    BY <2>1, RoundTrip
  <2>. QED BY <2>2 DEF Load
<1>3. \/ error' = ""
      \/ error' = "EvaluationError" /\ (~ Readable(file.dict) \/ ~ Fits)
  BY <1>1 DEF Load
<1>4. ResultsInv'
  BY <1>1, <1>2, <1>3 DEF GatedIInv, ResultsInv, TypeOK
<1>5. ComparedInv'
  BY <1>1, <1>2, <1>3 DEF GatedIInv, ComparedInv
<1>6. ReportInv'
  BY <1>1, <1>2 DEF GatedIInv, ReportInv
<1>7. AttachedInv'
  BY <1>1, <1>2 DEF GatedIInv, AttachedInv
<1>8. FileInv'
  <2>1. file'.dict = ToDict(candidate') /\ Fits' = Fits
    BY <1>1, <1>2 DEF GatedIInv, FileInv, Fits
  <2>. QED BY <1>1, <1>3, <2>1 DEF FileInv
<1>. QED BY <1>4, <1>5, <1>6, <1>7, <1>8 DEF GatedIInv

LEMMA CompareKeeps == GatedIInv /\ Compare => GatedIInv'
<1>. SUFFICES ASSUME GatedIInv, Compare PROVE GatedIInv'
  OBVIOUS
<1>1. UNCHANGED <<baseline, candidate, tolerance, report, file>> /\ file = Missing
      /\ report = Missing /\ comparison = Missing /\ error = ""
  BY DEF Compare
<1>2. \/ /\ Comparable(baseline, candidate) /\ error' = ""
         /\ comparison' = CompareRuns(baseline, candidate, tolerance)
      \/ ~ Comparable(baseline, candidate) /\ error' = "IncomparableRunError"
         /\ comparison' = Missing
  BY <1>1 DEF Compare
<1>3. ResultsInv'
  BY <1>1, <1>2 DEF GatedIInv, ResultsInv, TypeOK
<1>4. ComparedInv'
  BY <1>1, <1>2 DEF ComparedInv
<1>5. ReportInv' /\ FileInv'
  BY <1>1 DEF ReportInv, FileInv
<1>6. AttachedInv'
  BY <1>1 DEF GatedIInv, AttachedInv
<1>. QED BY <1>3, <1>4, <1>5, <1>6 DEF GatedIInv

LEMMA EvaluateKeeps == GatedIInv /\ EvaluatePolicy => GatedIInv'
<1>. SUFFICES ASSUME GatedIInv, EvaluatePolicy PROVE GatedIInv'
  OBVIOUS
<1>1. UNCHANGED <<baseline, candidate, tolerance, comparison, file>> /\ file = Missing
      /\ report = Missing /\ comparison = Missing /\ error = ""
  BY DEF EvaluatePolicy
<1>2. PICK gates \in Policies, against \in {Missing, baseline} :
          /\ error' = GateError(candidate, gates, against)
          /\ report' = IF error' # "" THEN Missing
                       ELSE [gates |-> gates, against |-> against,
                             report |-> EvaluateGates(candidate, gates, against, tolerance)]
  BY DEF EvaluatePolicy
<1>3. error' \in {"", "ConfigurationError", "IncomparableRunError"}
      /\ (error' = "IncomparableRunError" => ~ Comparable(baseline, candidate))
  BY <1>2 DEF GateError
<1>4. ResultsInv'
  BY <1>1, <1>3 DEF GatedIInv, ResultsInv, TypeOK
<1>5. ComparedInv'
  BY <1>1, <1>3 DEF ComparedInv
<1>6. FileInv'
  BY <1>1 DEF FileInv
<1>7. AttachedInv'
  BY <1>1 DEF GatedIInv, AttachedInv
<1>8. ASSUME report' # Missing PROVE ReportInv'
  <2>1. error' = "" /\ report' = [gates |-> gates, against |-> against,
            report |-> EvaluateGates(candidate, gates, against, tolerance)]
    BY <1>2, <1>8
  <2>2. /\ HasDrop(gates) => against # Missing
        /\ \A i \in DOMAIN gates :
               /\ Available(candidate, gates[i])
               /\ IsDrop(gates[i]) => InComparison(against, candidate, gates[i])
    BY <1>2, <2>1 DEF GateError
  <2>3. \A i \in DOMAIN gates : IsDrop(gates[i]) => against = baseline
    BY <2>2 DEF HasDrop
  <2>. DEFINE first == WithGates(candidate, << >>)
  <2>4. /\ first \in Results /\ first.run = candidate.run
        /\ first.metrics = candidate.metrics /\ first.latency = candidate.latency
    BY GatedFields DEF GatedIInv, ResultsInv, TypeOK
  <2>. HIDE DEF first
  <2>5. \A i \in DOMAIN gates : Available(first, gates[i])
    BY <2>2, <2>4 DEF Available, Names, Shape, HasLatency
  <2>6. EvaluateGates(candidate, gates, against, tolerance) =
            EvaluateGates(first, gates, against, tolerance)
    <3>1. \A gate : AggregateValue(candidate, gate.retriever, gate.key) =
                        AggregateValue(first, gate.retriever, gate.key)
      BY <2>4 DEF AggregateValue
    <3>2. \A i : GateResult(candidate, gates[i], against, tolerance) =
                     GateResult(first, gates[i], against, tolerance)
      BY <2>4, <3>1, SameGateResult
    <3>. QED BY <2>4, <3>2, Zenon DEF EvaluateGates
  <2>. QED BY <1>1, <2>1, <2>2, <2>3, <2>4, <2>5, <2>6 DEF ReportInv
<1>9. ReportInv'
  BY <1>8 DEF ReportInv
<1>. QED BY <1>4, <1>5, <1>6, <1>7, <1>9 DEF GatedIInv

LEMMA AttachKeeps == GatedIInv /\ Attach => GatedIInv'
<1>. SUFFICES ASSUME GatedIInv, Attach PROVE GatedIInv'
  OBVIOUS
<1>. DEFINE results == report.report.results
<1>1. UNCHANGED <<baseline, tolerance, comparison, report, file>> /\ file = Missing
      /\ report # Missing /\ error = ""
  BY DEF Attach
<1>2. comparison = Missing
  BY <1>1 DEF GatedIInv, ComparedInv
<1>3. CASE AcceptsGates(candidate, results)
  <2>1. candidate' = WithGates(candidate, results) /\ error' = ""
    BY <1>1, <1>3 DEF Attach
  <2>2. IsResult(candidate) /\ WithGates(candidate, << >>) \in Results
    BY DEF GatedIInv, ResultsInv, TypeOK
  <2>3. /\ IsResult(candidate') /\ WithGates(candidate', << >>) \in Results
        /\ candidate'.run = candidate.run /\ candidate'.metrics = candidate.metrics
        /\ candidate'.latency = candidate.latency /\ candidate'.gates = results
    <3>. HIDE DEF results
    <3>1. /\ IsResult(WithGates(candidate, results))
          /\ WithGates(candidate, results).run = candidate.run
          /\ WithGates(candidate, results).metrics = candidate.metrics
          /\ WithGates(candidate, results).latency = candidate.latency
          /\ WithGates(candidate, results).gates = results
          /\ WithGates(WithGates(candidate, results), << >>) = WithGates(candidate, << >>)
      BY <2>2, GatedFields
    <3>. QED BY <2>1, <2>2, <3>1
  <2>. HIDE DEF results
  <2>4. AcceptsGates(candidate', results)
    BY <1>3, <2>3 DEF AcceptsGates, Available, Names, Shape, HasLatency, AggregateValue
  <2>5. ResultsInv'
    BY <1>1, <2>1, <2>3 DEF GatedIInv, ResultsInv, TypeOK
  <2>6. ComparedInv' /\ FileInv'
    BY <1>1, <1>2, <2>1 DEF ComparedInv, FileInv
  <2>7. AttachedInv'
    BY <1>1, <2>3, <2>4 DEF AttachedInv, results
  <2>8. ReportInv'
    BY <1>1, <2>3
       DEF GatedIInv, ReportInv, Available, InComparison, CommonRetrievers, ComparedKeys,
           Names, Shape, HasLatency
  <2>. QED BY <2>5, <2>6, <2>7, <2>8 DEF GatedIInv
<1>4. CASE ~ AcceptsGates(candidate, results)
  <2>1. candidate' = candidate /\ error' = "EvaluationError"
    BY <1>4 DEF Attach
  <2>2. ResultsInv'
    BY <1>1, <2>1 DEF GatedIInv, ResultsInv, TypeOK
  <2>3. ComparedInv' /\ FileInv'
    BY <1>1, <1>2, <2>1 DEF ComparedInv, FileInv
  <2>4. ReportInv'
    BY <1>1, <2>1 DEF GatedIInv, ReportInv
  <2>5. AttachedInv'
    BY <1>1, <2>1 DEF GatedIInv, AttachedInv
  <2>. QED BY <2>2, <2>3, <2>4, <2>5 DEF GatedIInv
<1>. QED BY <1>3, <1>4

\* A rerun has the metrics and the latencies that the report's gates name.
LEMMA RerunKeeps == GatedIInv /\ Rerun => GatedIInv'
<1>. SUFFICES ASSUME GatedIInv, Rerun PROVE GatedIInv'
  OBVIOUS
<1>1. UNCHANGED <<baseline, tolerance, comparison, report, file, error>> /\ file = Missing
      /\ report # Missing /\ error = ""
  BY DEF Rerun
<1>2. candidate' \in Measured /\ candidate'.run = candidate.run
      /\ candidate'.metrics = candidate.metrics
  BY DEF Rerun
<1>3. IsResult(candidate') /\ candidate'.gates = << >> /\ HasLatency(candidate')
  BY <1>2, ResultsAssumption, MeasuredAssumption DEF Results
<1>4. WithGates(candidate', << >>) \in Results
  BY <1>2, <1>3, GatedFields DEF Results
<1>5. ResultsInv'
  BY <1>1, <1>3, <1>4 DEF GatedIInv, ResultsInv, TypeOK
<1>6. ComparedInv' /\ FileInv'
  BY <1>1 DEF GatedIInv, ComparedInv, FileInv
<1>7. AttachedInv'
  BY <1>3 DEF AttachedInv, AcceptsGates
<1>8. ReportInv'
  <2>1. \A gate : Available(candidate, gate) => Available(candidate', gate)
    BY <1>2, <1>3 DEF Available, Names, Shape
  <2>2. \A gate : InComparison(baseline, candidate, gate)
                      => InComparison(baseline, candidate', gate)
    BY <1>2, <1>3 DEF InComparison, CommonRetrievers, ComparedKeys, Names, Shape
  <2>. QED BY <1>1, <1>2, <2>1, <2>2 DEF GatedIInv, ReportInv
<1>. QED BY <1>5, <1>6, <1>7, <1>8 DEF GatedIInv

THEOREM GatedInvariance == Spec => []GatedIInv
<1>1. GatedIInv /\ [Next]_vars => GatedIInv'
  <2>. SUFFICES ASSUME GatedIInv, [Next]_vars PROVE GatedIInv'
    OBVIOUS
  <2>1. CASE UNCHANGED vars
    <3>1. UNCHANGED <<baseline, candidate, tolerance, comparison, report, file, error>>
      BY <2>1 DEF vars
    <3>. QED
      BY <3>1 DEF GatedIInv, ResultsInv, TypeOK, ComparedInv, ReportInv, AttachedInv, FileInv, Fits
  <2>. QED
    BY <2>1, SaveKeeps, LoadKeeps, CompareKeeps, EvaluateKeeps, AttachKeeps, RerunKeeps
       DEF Next
<1>. QED
  BY <1>1, GatedInit, PTL DEF Spec

---------------------------------------------------------------------------
(* The gates of a result *)

\* quality.py and with_quality_gates: the gates that a result carries are those
\* its policy gives on this very result, whatever was run, attached, saved and
\* loaded in between; only a drop of latency may come from an earlier run.
THEOREM GatesInvHolds == Spec => []GatesInv
<1>1. GatedIInv => GatesInv
  <2>. SUFFICES ASSUME GatedIInv, candidate.gates # << >> PROVE AttachedAreOwn
    BY DEF GatedIInv, ResultsInv, GatesInv, AttachedAreOwn
  <2>. DEFINE gates == report.gates
              again == EvaluateGates(candidate, gates, report.against, tolerance)
  <2>1. /\ candidate.gates = report.report.results /\ report # Missing
        /\ AcceptsGates(candidate, candidate.gates)
    BY DEF GatedIInv, AttachedInv
  <2>2. PICK first \in Results :
            /\ first.run = candidate.run
            /\ first.metrics = candidate.metrics
            /\ report.report = EvaluateGates(first, gates, report.against, tolerance)
    BY <2>1 DEF GatedIInv, ReportInv
  <2>3. candidate.gates = [i \in DOMAIN gates |->
                              GateResult(first, gates[i], report.against, tolerance)]
    BY <2>1, <2>2 DEF EvaluateGates
  <2>4. again.results = [i \in DOMAIN gates |->
                              GateResult(candidate, gates[i], report.against, tolerance)]
    BY DEF EvaluateGates
  <2>. HIDE DEF again
  <2>5. ASSUME NEW i \in DOMAIN candidate.gates,
               ~ (gates[i].key \in Timed /\ IsDrop(gates[i]))
        PROVE  candidate.gates[i] = again.results[i]
    <3>. DEFINE gate == gates[i]
                value == AggregateValue(candidate, gate.retriever, gate.key)
                checked == AggregateValue(first, gate.retriever, gate.key)
    <3>1. i \in DOMAIN gates /\ candidate.gates[i] =
              GateResult(first, gate, report.against, tolerance)
      BY <2>3, <2>5
    <3>2. gate.key \notin Timed => value = checked
      BY <2>2 DEF AggregateValue
    <3>3. ASSUME ~ IsDrop(gate) PROVE value = checked
      <4>1. PICK constraint : constraint \in DOMAIN gate.limits
        BY <2>1, <3>1, PoliciesAssumption DEF GatedIInv, ReportInv, WellFormed
      <4>2. constraint \in {"min_value", "max_value"} /\ constraint \notin DropConstraints
        <5>1. constraint \in Constraints
          BY <2>1, <3>1, <4>1, PoliciesAssumption DEF GatedIInv, ReportInv
        <5>2. constraint \notin DropConstraints
          BY <3>3, <4>1 DEF IsDrop
        <5>. QED BY <5>1, <5>2 DEF Constraints, DropConstraints
      <4>3. /\ candidate.gates[i].retriever = gate.retriever
            /\ candidate.gates[i].key = gate.key
            /\ DOMAIN candidate.gates[i].checks = DOMAIN gate.limits
            /\ candidate.gates[i].checks[constraint] =
                   Check(constraint, gate.limits[constraint], gate.key, checked, checked,
                         tolerance)
        <5>. DEFINE made == GateResult(first, gate, report.against, tolerance)
        <5>1. /\ made.retriever = gate.retriever
              /\ made.key = gate.key
              /\ made.checks =
                     [c \in DOMAIN gate.limits |->
                         Check(c, gate.limits[c], gate.key,
                               IF IsDrop(gate)
                               THEN AggregateValue(report.against, gate.retriever, gate.key)
                               ELSE checked, checked, tolerance)]
          BY GateResultFields
        <5>. HIDE DEF made, gate, checked
        <5>2. candidate.gates[i] = made
          BY <3>1 DEF made
        <5>. QED BY <3>3, <4>1, <5>1, <5>2
      <4>4. candidate.gates[i].checks[constraint].actual = Whole(checked)
        BY <4>2, <4>3 DEF Check, Actual
      <4>5. candidate.gates[i].checks[constraint].actual = Whole(value)
        BY <2>1, <4>1, <4>2, <4>3 DEF AcceptsGates
      <4>6. \A n, m : Whole(n) = Whole(m) => n = m
        BY DEF Whole
      <4>. QED BY <4>4, <4>5, <4>6
    <3>4. value = checked
      BY <2>5, <3>2, <3>3
    <3>5. GateResult(candidate, gate, report.against, tolerance) =
              GateResult(first, gate, report.against, tolerance)
      BY <2>2, <3>4, SameGateResult
    <3>. QED BY <2>4, <3>1, <3>5
  <2>. QED BY <2>5 DEF AttachedAreOwn, again
<1>. QED
  BY <1>1, GatedInvariance, PTL

---------------------------------------------------------------------------
(* Comparisons of whole results *)

\* What check_comparability has found out when it reports nothing.
LEMMA ComparableMeans ==
    ASSUME NEW left, NEW right, Comparable(left, right)
    PROVE  /\ \A field \in StrictFields : ~ StrictIssue(left, right, field)
           /\ ~ CutoffIssue(left, right) /\ ~ ChunkIssue(left, right)
           /\ ~ QueryIssue(left, right) /\ CommonRetrievers(left, right) # {}
           /\ ~ QueryShapeIssue(left, right) /\ ~ AggregateShapeIssue(left, right)
  BY DEF Comparable, Issues, StrictFields

LEMMA MeansComparable ==
    ASSUME NEW left, NEW right,
           \A field \in StrictFields : ~ StrictIssue(left, right, field),
           ~ CutoffIssue(left, right), ~ ChunkIssue(left, right),
           ~ QueryIssue(left, right), CommonRetrievers(left, right) # {},
           ~ QueryShapeIssue(left, right), ~ AggregateShapeIssue(left, right)
    PROVE  Comparable(left, right)
  BY DEF Comparable, Issues

\* What may be compared may be compared the other way round.
THEOREM ComparableSymmetric ==
    ASSUME NEW left, NEW right, Comparable(left, right)
    PROVE  Comparable(right, left)
<1>1. CommonRetrievers(right, left) = CommonRetrievers(left, right)
  BY DEF CommonRetrievers
<1>2. \A field : StrictIssue(right, left, field) <=> StrictIssue(left, right, field)
  BY DEF StrictIssue
<1>3. CutoffIssue(right, left) <=> CutoffIssue(left, right)
  BY <1>1 DEF CutoffIssue
<1>4. ChunkIssue(right, left) <=> ChunkIssue(left, right)
  BY <1>2 DEF ChunkIssue
<1>5. QueryIssue(right, left) <=> QueryIssue(left, right)
  BY <1>1, <1>2 DEF QueryIssue
<1>6. ~ QueryShapeIssue(left, right) => ~ QueryShapeIssue(right, left)
  BY <1>1 DEF QueryShapeIssue
<1>7. AggregateShapeIssue(right, left) <=> AggregateShapeIssue(left, right)
  BY <1>1 DEF AggregateShapeIssue
<1>. QED
  BY <1>1, <1>2, <1>3, <1>4, <1>5, <1>6, <1>7, ComparableMeans, MeansComparable

\* Comparable runs have the same queries, measured in the same way.
LEMMA SameQueries ==
    ASSUME NEW left, NEW right, Comparable(left, right),
           NEW retriever \in CommonRetrievers(left, right)
    PROVE  /\ Shape(left, retriever) = Shape(right, retriever)
           /\ QueriesOf(left, retriever) = left.manifest["query_ids"]
           /\ QueriesOf(right, retriever) = left.manifest["query_ids"]
           /\ \A query \in QueriesOf(left, retriever) :
                  /\ QueryShape(left, retriever, query) = Shape(left, retriever)
                  /\ QueryShape(right, retriever, query) = Shape(left, retriever)
<1>1. ~ QueryIssue(left, right) /\ ~ QueryShapeIssue(left, right)
      /\ ~ AggregateShapeIssue(left, right)
  BY ComparableMeans
<1>2. Shape(left, retriever) = Shape(right, retriever)
  BY <1>1 DEF AggregateShapeIssue
<1>3. /\ QueriesOf(left, retriever) = left.manifest["query_ids"]
      /\ QueriesOf(right, retriever) = left.manifest["query_ids"]
  BY <1>1 DEF QueryIssue, StrictIssue
<1>4. \A query \in QueriesOf(left, retriever) :
          /\ QueryShape(left, retriever, query) = Shape(left, retriever)
          /\ QueryShape(right, retriever, query) = Shape(left, retriever)
  BY <1>1 DEF QueryShapeIssue
<1>. QED BY <1>2, <1>3, <1>4

\* A retriever's metrics are no latencies, and a query's are numbers.
LEMMA QueryMetrics ==
    ASSUME NEW result, IsResult(result), NEW retriever \in Names(result)
    PROVE  /\ Shape(result, retriever) \cap Timed = {}
           /\ QueriesOf(result, retriever) \subseteq Nat
           /\ IsFiniteSet(QueriesOf(result, retriever))
           /\ \A query \in QueriesOf(result, retriever) :
                 /\ \A key \in QueryShape(result, retriever, query) \ Timed :
                        QueryValue(result, retriever, query, key) \in Int
                 /\ \A key : QueryValue(result, retriever, query, key) \in Int \cup {Missing}
<1>1. AreMetrics(result.metrics[retriever]) /\ QueriesOf(result, retriever) \in SUBSET Nat
      /\ IsFiniteSet(QueriesOf(result, retriever))
  BY DEF IsResult
<1>2. \A query \in QueriesOf(result, retriever) :
          /\ AreMetrics(result.queries[retriever][query].metrics)
          /\ result.queries[retriever][query].latency \in Nat \cup {Missing}
  BY DEF IsResult
<1>. QED
  BY <1>1, <1>2 DEF AreMetrics, Shape, QueryShape, QueryValue

\* comparison.py: two results that may be compared are compared completely, but
\* for latencies that a diagnostic names.
THEOREM NothingSkippedHolds == Spec => []NothingSkipped
<1>1. GatedIInv => NothingSkipped
  <2>. SUFFICES ASSUME GatedIInv, comparison # Missing,
                       NEW retriever \in Names(baseline) \cap Names(candidate)
                PROVE
            /\ Shape(baseline, retriever) \cup Shape(candidate, retriever)
                   \subseteq DOMAIN comparison[retriever]
            /\ \A key \in DOMAIN comparison[retriever] \ Timed :
                   DOMAIN comparison[retriever][key].queries =
                       baseline.manifest["query_ids"]
            /\ \/ "latency" \in Diagnostics(baseline, candidate)
               \/ ~ HasLatency(baseline) /\ ~ HasLatency(candidate)
               \/ Timed \subseteq DOMAIN comparison[retriever]
            /\ \/ Timed \cap DOMAIN comparison[retriever] = {}
               \/ retriever \in Diagnostics(baseline, candidate)
               \/ DOMAIN comparison[retriever][MeanLatency].queries =
                      baseline.manifest["query_ids"]
    BY DEF NothingSkipped
  <2>. DEFINE both == HasLatency(baseline) /\ HasLatency(candidate)
              ids == baseline.manifest["query_ids"]
  <2>1. /\ comparison = CompareRuns(baseline, candidate, tolerance)
        /\ Comparable(baseline, candidate)
        /\ retriever \in CommonRetrievers(baseline, candidate)
        /\ IsResult(baseline) /\ IsResult(candidate)
    BY ResultsAssumption
       DEF GatedIInv, ComparedInv, ResultsInv, TypeOK, CommonRetrievers
  <2>2. DOMAIN comparison[retriever] =
            (Shape(baseline, retriever) \cap Shape(candidate, retriever))
                \cup (IF both THEN Timed ELSE {})
    BY <2>1 DEF CompareRuns, ComparedKeys
  <2>3. \A key \in DOMAIN comparison[retriever] :
            DOMAIN comparison[retriever][key].queries =
                Paired(baseline, candidate, retriever, key)
    BY <2>1, ComparedMetric DEF MetricComparison, CompareRuns
  <2>4. /\ Shape(baseline, retriever) = Shape(candidate, retriever)
        /\ QueriesOf(baseline, retriever) = ids /\ QueriesOf(candidate, retriever) = ids
        /\ \A query \in ids :
               /\ QueryShape(baseline, retriever, query) = Shape(baseline, retriever)
               /\ QueryShape(candidate, retriever, query) = Shape(baseline, retriever)
    BY <2>1, SameQueries
  <2>. HIDE DEF ids, both
  <2>5. Shape(baseline, retriever) \cap Timed = {}
    BY <2>1, QueryMetrics
  <2>6. ASSUME NEW key \in DOMAIN comparison[retriever] \ Timed
        PROVE  Paired(baseline, candidate, retriever, key) = ids
    <3>1. key \in Shape(baseline, retriever)
      BY <2>2, <2>6
    <3>2. \A query \in ids : /\ QueryValue(baseline, retriever, query, key) \in Int
                             /\ QueryValue(candidate, retriever, query, key) \in Int
      BY <2>1, <2>4, <2>6, <3>1, QueryMetrics DEF CommonRetrievers
    <3>. QED
      BY <2>4, <2>6, <3>2, MissingAssumption DEF Paired, PerQuery
  <2>7. ASSUME Timed \cap DOMAIN comparison[retriever] # {},
               retriever \notin Diagnostics(baseline, candidate)
        PROVE  /\ MeanLatency \in DOMAIN comparison[retriever]
               /\ Paired(baseline, candidate, retriever, MeanLatency) = ids
    <3>1. both /\ MeanLatency \in Timed
      BY <2>2, <2>4, <2>5, <2>7 DEF MeanLatency, Timed, LatencyStatistics
    <3>2. Untimed(baseline, retriever) \cup Untimed(candidate, retriever) = {}
      BY <2>1, <2>7, <3>1 DEF Diagnostics, both
    <3>3. \A query \in ids :
              /\ QueryValue(baseline, retriever, query, MeanLatency) # Missing
              /\ QueryValue(candidate, retriever, query, MeanLatency) # Missing
      BY <2>4, <3>1, <3>2 DEF Untimed, QueryValue
    <3>4. PerQuery(MeanLatency)
      BY DEF PerQuery
    <3>. QED
      BY <2>2, <2>4, <3>1, <3>3, <3>4 DEF Paired
  <2>8. "latency" \in Diagnostics(baseline, candidate)
        \/ (~ HasLatency(baseline) /\ ~ HasLatency(candidate)) \/ both
    BY DEF Diagnostics, both
  <2>9. Shape(baseline, retriever) \cup Shape(candidate, retriever)
            \subseteq DOMAIN comparison[retriever]
    BY <2>2, <2>4
  <2>10. \A key \in DOMAIN comparison[retriever] \ Timed :
             DOMAIN comparison[retriever][key].queries = ids
    BY <2>3, <2>6
  <2>11. both => Timed \subseteq DOMAIN comparison[retriever]
    BY <2>2
  <2>. QED BY <2>3, <2>7, <2>8, <2>9, <2>10, <2>11 DEF ids
<1>. QED
  BY <1>1, GatedInvariance, PTL

---------------------------------------------------------------------------
(* The best and the worst query *)

Precedes(deltas, sign, one, other) ==
    \/ sign * deltas[one].directional < sign * deltas[other].directional
    \/ deltas[one].directional = deltas[other].directional /\ one <= other

\* Of finitely many queries one comes first: one that fewest precede.
LEMMA ExtremeExists ==
    ASSUME NEW deltas, IsFiniteSet(DOMAIN deltas), DOMAIN deltas \subseteq Nat,
           DOMAIN deltas # {}, NEW sign \in {1, -1},
           \A query \in DOMAIN deltas : deltas[query].directional \in Int
    PROVE  /\ Extreme(deltas, sign) \in DOMAIN deltas
           /\ \A other \in DOMAIN deltas :
                  Precedes(deltas, sign, Extreme(deltas, sign), other)
<1>. DEFINE D == DOMAIN deltas
            before(query) == {other \in D : ~ Precedes(deltas, sign, query, other)}
            T == {before(query) : query \in D}
            R == StrictSubsetOrdering(D)
<1>1. IsWellFoundedOn(R, SUBSET D)
  BY FS_StrictSubsetOrderingWellFounded, FS_FiniteSubsetsOfFinite
<1>2. T \subseteq SUBSET D /\ T # {}
  OBVIOUS
<1>3. PICK least \in T : \A smaller \in T : ~ <<smaller, least>> \in R
  <2>. HIDE DEF R, T, D
  <2>. QED BY <1>1, <1>2, WFMin
<1>4. PICK query \in D : least = before(query)
  BY <1>3
<1>5. \A other \in D : Precedes(deltas, sign, query, other)
  <2>. SUFFICES ASSUME NEW other \in D, ~ Precedes(deltas, sign, query, other)
                PROVE  FALSE
    OBVIOUS
  <2>1. sign * deltas[query].directional \in Int /\ sign * deltas[other].directional \in Int
        /\ query \in Nat /\ other \in Nat
    OBVIOUS
  <2>2. \A third \in D : ~ Precedes(deltas, sign, other, third)
                             => ~ Precedes(deltas, sign, query, third)
    BY <2>1 DEF Precedes
  <2>3. Precedes(deltas, sign, other, other)
    BY <2>1 DEF Precedes
  <2>4. before(other) \subseteq before(query) /\ other \in before(query)
        /\ other \notin before(other)
    BY <2>2, <2>3
  <2>5. <<before(other), before(query)>> \in R
    BY <2>4 DEF StrictSubsetOrdering
  <2>. QED BY <1>3, <1>4, <2>5
<1>6. Extreme(deltas, sign) =
          CHOOSE first \in D : \A other \in D : Precedes(deltas, sign, first, other)
  BY DEF Extreme, Precedes
<1>. QED BY <1>4, <1>5, <1>6

\* Where every change is turned round, the best query's change is the worst's.
LEMMA ExtremesMirror ==
    ASSUME NEW deltas, NEW mirrored, DOMAIN mirrored = DOMAIN deltas,
           IsFiniteSet(DOMAIN deltas), DOMAIN deltas \subseteq Nat,
           Extreme(deltas, -1) # Missing,
           \A query \in DOMAIN deltas :
               /\ deltas[query].directional \in Int
               /\ mirrored[query].directional = - deltas[query].directional
    PROVE  mirrored[Extreme(mirrored, 1)].directional =
               - deltas[Extreme(deltas, -1)].directional
<1>. DEFINE best == Extreme(deltas, -1)  worst == Extreme(mirrored, 1)
<1>1. DOMAIN deltas # {}
  BY DEF Extreme
<1>2. best \in DOMAIN deltas /\ \A other \in DOMAIN deltas : Precedes(deltas, -1, best, other)
  BY <1>1, ExtremeExists
<1>3. worst \in DOMAIN deltas
      /\ \A other \in DOMAIN deltas : Precedes(mirrored, 1, worst, other)
  <2>1. \A query \in DOMAIN mirrored : mirrored[query].directional \in Int
    OBVIOUS
  <2>. QED BY <1>1, <2>1, ExtremeExists
<1>. HIDE DEF best, worst
<1>4. deltas[worst].directional <= deltas[best].directional
  BY <1>2, <1>3 DEF Precedes
<1>5. - deltas[worst].directional <= - deltas[best].directional
  BY <1>2, <1>3 DEF Precedes
<1>6. mirrored[worst].directional = - deltas[best].directional
  BY <1>2, <1>3, <1>4, <1>5
<1>. QED BY <1>6 DEF best, worst

\* Turning a delta round turns its direction.
LEMMA DeltaMirrors ==
    ASSUME NEW key, NEW l \in Int, NEW r \in Int, NEW t \in ToleranceType
    PROVE  /\ Delta(key, l, r, t).directional \in Int
           /\ Delta(key, r, l, t).directional = - Delta(key, l, r, t).directional
           /\ Delta(key, r, l, t).classification =
                  Mirrored(Delta(key, l, r, t).classification)
<1>1. /\ Delta(key, l, r, t).directional = Directional(key, l, r)
      /\ Delta(key, r, l, t).directional = Directional(key, r, l)
      /\ Delta(key, l, r, t).classification = Classification(key, l, r, t)
      /\ Delta(key, r, l, t).classification = Classification(key, r, l, t)
  BY DEF Delta
<1>2. Directional(key, l, r) \in Int /\ Directional(key, r, l) = - Directional(key, l, r)
  BY DEF Directional
<1>. QED BY <1>1, <1>2, ClassificationMirrors

\* comparison.py: comparing the other way round turns every improvement into a
\* regression and the best query into one as bad as the worst, and refuses the
\* same results.
THEOREM SwapMirrorsHolds == Spec => []SwapMirrors
<1>1. GatedIInv => SwapMirrors
  <2>. SUFFICES ASSUME GatedIInv PROVE SwapMirrors
    OBVIOUS
  <2>. DEFINE back == CompareRuns(candidate, baseline, tolerance)
  <2>1. (comparison # Missing \/ error = "IncomparableRunError") =>
            Comparable(candidate, baseline) = (comparison # Missing)
    <3>1. CASE comparison # Missing
      <4>1. Comparable(candidate, baseline)
        BY <3>1, ComparableSymmetric DEF GatedIInv, ComparedInv
      <4>. QED BY <3>1, <4>1 DEF Comparable
    <3>2. CASE comparison = Missing /\ error = "IncomparableRunError"
      <4>1. ~ Comparable(candidate, baseline)
        BY <3>2, ComparableSymmetric DEF GatedIInv, ComparedInv
      <4>. QED BY <3>2, <4>1 DEF Comparable
    <3>. QED BY <3>1, <3>2
  <2>2. ASSUME comparison # Missing, NEW retriever \in DOMAIN comparison,
               NEW key \in DOMAIN comparison[retriever]
        PROVE  LET there == comparison[retriever][key]
                   here == back[retriever][key]
               IN  /\ here.aggregate.classification =
                          Mirrored(there.aggregate.classification)
                   /\ there.best # Missing =>
                          here.queries[here.worst].directional =
                              - there.queries[there.best].directional
    <3>1. /\ comparison = CompareRuns(baseline, candidate, tolerance)
          /\ IsResult(baseline) /\ IsResult(candidate)
          /\ tolerance \in ToleranceType
          /\ baseline \in Results /\ WithGates(candidate, << >>) \in Results
      BY <2>2, ResultsAssumption, TolerancesAssumption
         DEF GatedIInv, ComparedInv, ResultsInv, TypeOK
    <3>2. /\ retriever \in CommonRetrievers(baseline, candidate)
          /\ retriever \in CommonRetrievers(candidate, baseline)
          /\ key \in ComparedKeys(baseline, candidate, retriever)
          /\ key \in ComparedKeys(candidate, baseline, retriever)
          /\ retriever \in Names(baseline) /\ retriever \in Names(candidate)
      BY <2>2, <3>1 DEF CompareRuns, CommonRetrievers, ComparedKeys
    <3>. DEFINE paired == Paired(baseline, candidate, retriever, key)
                old(query) == QueryValue(baseline, retriever, query, key)
                new(query) == QueryValue(candidate, retriever, query, key)
                deltas == [query \in paired |-> Delta(key, old(query), new(query), tolerance)]
                mirrored == [query \in paired |-> Delta(key, new(query), old(query), tolerance)]
                left == AggregateValue(baseline, retriever, key)
                right == AggregateValue(candidate, retriever, key)
    <3>3. Paired(candidate, baseline, retriever, key) = paired
      BY DEF Paired
    <3>4. comparison[retriever][key] =
              [aggregate |-> Delta(key, left, right, tolerance), queries |-> deltas,
               best |-> Extreme(deltas, -1), worst |-> Extreme(deltas, 1)]
      <4>1. comparison[retriever][key] =
                MetricComparison(baseline, candidate, retriever, key, <<left, right>>, tolerance)
        BY <3>1, <3>2, ComparedMetric
      <4>. QED BY <4>1 DEF MetricComparison
    <3>5. back[retriever][key] =
              [aggregate |-> Delta(key, right, left, tolerance), queries |-> mirrored,
               best |-> Extreme(mirrored, -1), worst |-> Extreme(mirrored, 1)]
      <4>1. back[retriever][key] =
                MetricComparison(candidate, baseline, retriever, key, <<right, left>>, tolerance)
        BY <3>2, ComparedMetric
      <4>. QED BY <3>3, <4>1 DEF MetricComparison
    <3>6. left \in Int /\ right \in Int
      <4>1. baseline.gates = << >> /\ WithGates(baseline, << >>) = baseline
        BY <3>1, ResultsAssumption, GatedFields
      <4>2. IF key \in Timed THEN HasLatency(baseline) /\ HasLatency(candidate)
            ELSE key \in Shape(baseline, retriever) /\ key \in Shape(candidate, retriever)
        BY <3>1, <3>2, QueryMetrics DEF ComparedKeys
      <4>. QED BY <3>1, <3>2, <4>1, <4>2, AggregateIsNat
    <3>7. \A query \in paired : old(query) \in Int /\ new(query) \in Int
      BY <3>1, <3>2, QueryMetrics DEF Paired
    <3>8. paired \subseteq Nat /\ IsFiniteSet(paired)
      <4>1. paired \subseteq QueriesOf(baseline, retriever)
        BY DEF Paired
      <4>. QED BY <3>1, <3>2, <4>1, QueryMetrics, FS_Subset
    <3>. HIDE DEF paired, old, new, left, right
    <3>9. Delta(key, right, left, tolerance).classification =
              Mirrored(Delta(key, left, right, tolerance).classification)
      BY <3>1, <3>6, DeltaMirrors
    <3>10. \A query \in paired :
               /\ deltas[query].directional \in Int
               /\ mirrored[query].directional = - deltas[query].directional
      BY <3>1, <3>7, DeltaMirrors
    <3>11. DOMAIN deltas = paired /\ DOMAIN mirrored = paired
      OBVIOUS
    <3>. HIDE DEF deltas, mirrored
    <3>12. Extreme(deltas, -1) # Missing =>
               mirrored[Extreme(mirrored, 1)].directional =
                   - deltas[Extreme(deltas, -1)].directional
      BY <3>8, <3>10, <3>11, ExtremesMirror
    <3>. QED BY <3>4, <3>5, <3>9, <3>12
  <2>. QED BY <2>1, <2>2 DEF SwapMirrors
<1>. QED
  BY <1>1, GatedInvariance, PTL

---------------------------------------------------------------------------
(* Sums *)

\* A set of numbers that is not empty has a least one.
LEMMA Least ==
    ASSUME NEW T \in SUBSET Nat, T # {}
    PROVE  \E least \in T : \A n \in T : least <= n
<1>1. PICK least \in T : \A n \in T : ~ <<n, least>> \in OpToRel(<, Nat)
  BY NatLessThanWellFounded, WFMin
<1>2. \A n \in T : ~ n < least
  BY <1>1 DEF OpToRel
<1>. QED BY <1>2

\* SumFunctionOnSet adds one element at a time: total has the sum over each
\* subset of S.
First(s) == CHOOSE x \in s : TRUE
Totals(total, f, S) ==
    total = [s \in SUBSET S |->
                IF s = {} THEN 0 ELSE f[First(s)] + total[s \ {First(s)}]]

\* These sums, of subsets of at most n elements.
TotalsTo(total, f, S, n) ==
    total = [s \in {s \in SUBSET S : Cardinality(s) <= n} |->
                IF s = {} THEN 0 ELSE f[First(s)] + total[s \ {First(s)}]]

\* What is left of a finite set without one of its elements.
LEMMA Smaller ==
    ASSUME NEW S, IsFiniteSet(S), NEW s \in SUBSET S
    PROVE  /\ IsFiniteSet(s) /\ Cardinality(s) \in Nat /\ Cardinality(s) <= Cardinality(S)
           /\ s = {} <=> Cardinality(s) = 0
           /\ s # {} => /\ First(s) \in s
                        /\ s \ {First(s)} \in SUBSET S
                        /\ Cardinality(s \ {First(s)}) = Cardinality(s) - 1
<1>1. IsFiniteSet(s) /\ Cardinality(s) <= Cardinality(S)
  BY FS_Subset
<1>2. Cardinality(s) \in Nat /\ (s = {} <=> Cardinality(s) = 0)
  BY <1>1, FS_CardinalityType, FS_EmptySet
<1>3. s # {} => First(s) \in s
  BY DEF First
<1>4. s # {} => Cardinality(s \ {First(s)}) = Cardinality(s) - 1
  BY <1>1, <1>3, FS_RemoveElement
<1>. QED BY <1>1, <1>2, <1>3, <1>4

\* The sums exist: those of n + 1 elements are made of those of n.
LEMMA TotalsExist ==
    ASSUME NEW f, NEW S, IsFiniteSet(S)
    PROVE  \E total : Totals(total, f, S)
<1>. DEFINE N == {n \in Nat : ~ \E total : TotalsTo(total, f, S, n)}
<1>1. \E total : TotalsTo(total, f, S, 0)
  <2>1. ASSUME NEW s \in SUBSET S, Cardinality(s) <= 0 PROVE s = {}
    <3>1. Cardinality(s) \in Nat /\ (s = {} <=> Cardinality(s) = 0)
      BY Smaller
    <3>. QED BY <2>1, <3>1
  <2>. DEFINE none == [s \in {s \in SUBSET S : Cardinality(s) <= 0} |-> 0]
  <2>2. none = [s \in {s \in SUBSET S : Cardinality(s) <= 0} |->
                   IF s = {} THEN 0 ELSE f[First(s)] + none[s \ {First(s)}]]
    <3>. HIDE DEF none
    <3>1. \A s \in {s \in SUBSET S : Cardinality(s) <= 0} :
              0 = IF s = {} THEN 0 ELSE f[First(s)] + none[s \ {First(s)}]
      BY <2>1
    <3>. QED BY <3>1 DEF none
  <2>3. TotalsTo(none, f, S, 0)
    <3>. HIDE DEF none
    <3>. QED BY <2>2 DEF TotalsTo
  <2>. QED BY <2>3
<1>2. ASSUME NEW n \in Nat, NEW total, TotalsTo(total, f, S, n)
      PROVE  \E next : TotalsTo(next, f, S, n + 1)
  <2>. DEFINE next == [s \in {s \in SUBSET S : Cardinality(s) <= n + 1} |->
                          IF s = {} THEN 0 ELSE f[First(s)] + total[s \ {First(s)}]]
  <2>1. ASSUME NEW s \in SUBSET S, Cardinality(s) <= n PROVE next[s] = total[s]
    <3>1. Cardinality(s) <= n + 1
      <4>1. Cardinality(s) \in Nat
        BY Smaller
      <4>. QED BY <2>1, <4>1
    <3>2. total[s] = IF s = {} THEN 0 ELSE f[First(s)] + total[s \ {First(s)}]
      BY <1>2, <2>1 DEF TotalsTo
    <3>. QED BY <3>1, <3>2
  <2>2. ASSUME NEW s \in SUBSET S, Cardinality(s) <= n + 1, s # {}
        PROVE  next[s \ {First(s)}] = total[s \ {First(s)}]
    <3>1. s \ {First(s)} \in SUBSET S /\ Cardinality(s \ {First(s)}) <= n
      BY <2>2, Smaller
    <3>. QED BY <2>1, <3>1
  <2>3. next = [s \in {s \in SUBSET S : Cardinality(s) <= n + 1} |->
                   IF s = {} THEN 0 ELSE f[First(s)] + next[s \ {First(s)}]]
    BY <2>2
  <2>4. TotalsTo(next, f, S, n + 1)
    BY <2>3 DEF TotalsTo
  <2>. QED BY <2>4
<1>3. N = {}
  <2>. SUFFICES ASSUME N # {} PROVE FALSE
    OBVIOUS
  <2>1. PICK n \in N : \A m \in N : n <= m
    BY Least
  <2>2. n # 0 /\ n \in Nat
    BY <1>1
  <2>3. n - 1 \in Nat /\ n - 1 \notin N
    BY <2>1, <2>2
  <2>4. PICK total : TotalsTo(total, f, S, n - 1)
    BY <2>3
  <2>5. \E next : TotalsTo(next, f, S, (n - 1) + 1)
    BY <1>2, <2>3, <2>4
  <2>6. (n - 1) + 1 = n
    BY <2>2
  <2>. QED BY <2>1, <2>5, <2>6
<1>4. Cardinality(S) \in Nat
  BY FS_CardinalityType
<1>5. PICK total : TotalsTo(total, f, S, Cardinality(S))
  BY <1>3, <1>4
<1>6. {s \in SUBSET S : Cardinality(s) <= Cardinality(S)} = SUBSET S
  BY Smaller
<1>7. Totals(total, f, S)
  BY <1>5, <1>6 DEF TotalsTo, Totals
<1>. QED BY <1>7

\* SumFunctionOnSet is such a sum.
LEMMA SumIsTotal ==
    ASSUME NEW f, NEW S, IsFiniteSet(S)
    PROVE  \E total : Totals(total, f, S) /\ SumFunctionOnSet(f, S) = total[S]
<1>1. SumFunctionOnSet(f, S) = (CHOOSE total : Totals(total, f, S))[S]
  BY DEF SumFunctionOnSet, FoldFunctionOnSet, MapThenFoldSet, Totals, First
<1>2. Totals(CHOOSE total : Totals(total, f, S), f, S)
  BY TotalsExist
<1>. QED BY <1>1, <1>2

\* Sums are whole numbers, and grow with what is added.
LEMMA SumMonotone ==
    ASSUME NEW S, IsFiniteSet(S), NEW f, NEW g,
           \A x \in S : f[x] \in Int /\ g[x] \in Int /\ f[x] <= g[x]
    PROVE  /\ SumFunctionOnSet(f, S) \in Int /\ SumFunctionOnSet(g, S) \in Int
           /\ SumFunctionOnSet(f, S) <= SumFunctionOnSet(g, S)
<1>1. PICK F : Totals(F, f, S) /\ SumFunctionOnSet(f, S) = F[S]
  BY SumIsTotal
<1>2. PICK G : Totals(G, g, S) /\ SumFunctionOnSet(g, S) = G[S]
  BY SumIsTotal
<1>. DEFINE Less(s) == F[s] \in Int /\ G[s] \in Int /\ F[s] <= G[s]
            N == {n \in Nat : \E s \in SUBSET S : Cardinality(s) = n /\ ~ Less(s)}
<1>3. N = {}
  <2>. SUFFICES ASSUME N # {} PROVE FALSE
    OBVIOUS
  <2>1. PICK n \in N : \A m \in N : n <= m
    BY Least
  <2>2. PICK s \in SUBSET S : Cardinality(s) = n /\ ~ Less(s)
    BY <2>1
  <2>3. s # {}
    BY <1>1, <1>2, <2>2 DEF Totals
  <2>. DEFINE x == First(s)
              rest == s \ {x}
  <2>4. x \in S /\ rest \in SUBSET S /\ Cardinality(rest) = n - 1 /\ n - 1 \in Nat
    BY <2>2, <2>3, Smaller
  <2>5. Less(rest)
    BY <2>1, <2>4
  <2>6. F[s] = f[x] + F[rest] /\ G[s] = g[x] + G[rest]
    BY <1>1, <1>2, <2>3 DEF Totals
  <2>. HIDE DEF x, rest
  <2>. QED BY <2>2, <2>4, <2>5, <2>6
<1>4. Less(S)
  BY <1>3, FS_CardinalityType
<1>. QED BY <1>1, <1>2, <1>4
---------------------------------------------------------------------------
(* Means *)

\* The aggregate of a metric of a measured result is the mean of its queries,
\* rounded down if it is a latency.
LEMMA MeasuredMeans ==
    ASSUME NEW result, IsResult(result), IsMeasured(result),
           NEW retriever \in Names(result),
           NEW key, PerQuery(key), key \in Timed \/ key \in Shape(result, retriever)
    PROVE  LET ids == QueriesOf(result, retriever)
               values == [query \in ids |-> QueryValue(result, retriever, query, key)]
               count == Cardinality(ids)
               mean == AggregateValue(result, retriever, key)
           IN  /\ count \in Nat \ {0} /\ mean \in Int
               /\ \A query \in ids : QueryValue(result, retriever, query, key) \in Int
               /\ SumFunctionOnSet(values, ids) \in Int
               /\ count * mean <= SumFunctionOnSet(values, ids)
               /\ SumFunctionOnSet(values, ids) < count * mean + count
<1>. DEFINE ids == QueriesOf(result, retriever)
            queries == result.queries[retriever]
            values == [query \in ids |-> QueryValue(result, retriever, query, key)]
            count == Cardinality(ids)
            mean == AggregateValue(result, retriever, key)
            sum == SumFunctionOnSet(values, ids)
            measured == WithGates(result, << >>)
<1>1. /\ measured \in Measured /\ measured.metrics = result.metrics
      /\ measured.queries = result.queries /\ measured.latency = result.latency
      /\ measured \in Results /\ IsResult(measured)
  BY GatedFields DEF IsMeasured, Results
<1>2. retriever \in Names(measured) /\ ids = DOMAIN queries
  BY <1>1 DEF Names, QueriesOf
<1>3. /\ ids # {}
      /\ \A query \in ids :
             /\ DOMAIN queries[query].metrics = Shape(result, retriever)
             /\ queries[query].latency # Missing
      /\ IsMean(ToDict(measured).retrievers[retriever])
      /\ result.latency[retriever].latency_mean_ms =
             Mean([query \in DOMAIN queries |-> queries[query].latency])
      /\ HasLatency(result)
  <2>. HIDE DEF measured
  <2>. QED BY <1>1, <1>2, MeasuredAssumption DEF QueryShape, Shape, HasLatency
<1>4. IsFiniteSet(ids) /\ count \in Nat \ {0}
  <2>1. IsFiniteSet(ids)
    BY DEF IsResult
  <2>. QED BY <1>3, <2>1, FS_CardinalityType, FS_EmptySet
<1>5. \A query \in ids : QueryValue(result, retriever, query, key) \in Int
  <2>1. \A query \in ids : queries[query].latency \in Nat
    BY <1>3 DEF IsResult
  <2>2. key \notin Timed => \A query \in ids : queries[query].metrics[key] \in Int
    BY <1>3 DEF IsResult, AreMetrics
  <2>. QED BY <1>3, <2>1, <2>2 DEF QueryValue
<1>6. sum \in Int
  <2>. HIDE DEF ids
  <2>1. \A query \in ids : values[query] \in Int /\ values[query] <= values[query]
    BY <1>5
  <2>. HIDE DEF values
  <2>. QED BY <1>4, <2>1, SumMonotone
<1>7. mean \in Int
  BY <1>1, <1>3, AggregateIsNat
<1>8. CASE key \in Timed
  <2>1. key = MeanLatency /\ key[1] = "latency_mean_ms"
    BY <1>8 DEF PerQuery, MeanLatency
  <2>2. mean = result.latency[retriever].latency_mean_ms
    BY <1>8, <2>1 DEF AggregateValue
  <2>3. values = [query \in DOMAIN queries |-> queries[query].latency]
    BY <1>2, <1>8 DEF QueryValue
  <2>4. DOMAIN values = ids
    OBVIOUS
  <2>. HIDE DEF values, ids
  <2>5. mean = sum \div count
    BY <1>3, <2>2, <2>3, <2>4 DEF Mean, SumFunction
  <2>. HIDE DEF mean, sum, count
  <2>. QED BY <1>4, <1>5, <1>6, <1>7, <2>5 DEF mean, sum, count, values, ids
<1>9. CASE key \notin Timed
  <2>. DEFINE entry == ToDict(measured).retrievers[retriever]
  <2>1. entry.metrics = result.metrics[retriever] /\ entry.per_query = queries
    BY <1>1, <1>2 DEF ToDict
  <2>2. key \in DOMAIN entry.metrics /\ mean = entry.metrics[key]
    BY <1>9, <2>1 DEF AggregateValue, Shape
  <2>3. values = [query \in DOMAIN queries |-> queries[query].metrics[key]]
    BY <1>2, <1>3, <1>9 DEF QueryValue
  <2>4. DOMAIN values = ids
    OBVIOUS
  <2>. HIDE DEF values, ids, entry
  <2>5. mean * count = sum
    BY <1>2, <1>3, <2>1, <2>2, <2>3, <2>4 DEF IsMean, SumFunction, entry
  <2>. HIDE DEF mean, sum, count
  <2>. QED BY <1>4, <1>5, <1>6, <1>7, <2>5 DEF mean, sum, count, values, ids
<1>. QED BY <1>8, <1>9

\* A mean grows only if a value does.
LEMMA MeansFollow ==
    ASSUME NEW count \in Nat \ {0}, NEW one \in Int, NEW other \in Int,
           NEW sum \in Int, NEW total \in Int,
           count * one <= sum, total < count * other + count, sum <= total
    PROVE  one <= other
<1>. SUFFICES ASSUME other + 1 <= one PROVE FALSE
  OBVIOUS
<1>1. PICK k \in Nat : one = other + 1 + k
  <2>1. one - (other + 1) \in Nat
    OBVIOUS
  <2>. QED BY <2>1
<1>2. count * one = count * other + count + count * k
  BY <1>1
<1>3. count * k \in Nat
  OBVIOUS
<1>. QED BY <1>2, <1>3

\* Where no query got worse, neither did the mean; and likewise better.
LEMMA CulpritExists ==
    ASSUME NEW left, IsResult(left), IsMeasured(left),
           NEW right, IsResult(right), IsMeasured(right), Comparable(left, right),
           NEW retriever \in CommonRetrievers(left, right),
           NEW key \in ComparedKeys(left, right, retriever), PerQuery(key)
    PROVE  LET old(query) == QueryValue(left, retriever, query, key)
               new(query) == QueryValue(right, retriever, query, key)
               was == AggregateValue(left, retriever, key)
               now == AggregateValue(right, retriever, key)
           IN  /\ was \in Int /\ now \in Int
               /\ now < was =>
                      \E query \in Paired(left, right, retriever, key) : new(query) < old(query)
               /\ was < now =>
                      \E query \in Paired(left, right, retriever, key) : old(query) < new(query)
<1>. DEFINE ids == QueriesOf(left, retriever)
            count == Cardinality(ids)
            old == [query \in ids |-> QueryValue(left, retriever, query, key)]
            new == [query \in ids |-> QueryValue(right, retriever, query, key)]
            was == AggregateValue(left, retriever, key)
            now == AggregateValue(right, retriever, key)
<1>1. /\ retriever \in Names(left) /\ retriever \in Names(right)
      /\ ids = QueriesOf(right, retriever)
      /\ key \in Timed \/ (key \in Shape(left, retriever) /\ key \in Shape(right, retriever))
  BY SameQueries DEF CommonRetrievers, ComparedKeys
<1>2. /\ count \in Nat \ {0} /\ was \in Int
      /\ \A query \in ids : QueryValue(left, retriever, query, key) \in Int
      /\ SumFunctionOnSet(old, ids) \in Int
      /\ count * was <= SumFunctionOnSet(old, ids)
      /\ SumFunctionOnSet(old, ids) < count * was + count
  BY <1>1, MeasuredMeans
<1>3. /\ now \in Int
      /\ \A query \in ids : QueryValue(right, retriever, query, key) \in Int
      /\ SumFunctionOnSet(new, ids) \in Int
      /\ count * now <= SumFunctionOnSet(new, ids)
      /\ SumFunctionOnSet(new, ids) < count * now + count
  <2>. DEFINE own == QueriesOf(right, retriever)
              values == [query \in own |-> QueryValue(right, retriever, query, key)]
  <2>1. /\ now \in Int
        /\ \A query \in own : QueryValue(right, retriever, query, key) \in Int
        /\ SumFunctionOnSet(values, own) \in Int
        /\ Cardinality(own) * now <= SumFunctionOnSet(values, own)
        /\ SumFunctionOnSet(values, own) < Cardinality(own) * now + Cardinality(own)
    BY <1>1, MeasuredMeans
  <2>. QED BY <1>1, <2>1
<1>4. Paired(left, right, retriever, key) = ids
  BY <1>1, <1>2, <1>3, MissingAssumption DEF Paired
<1>5. IsFiniteSet(ids)
  BY <1>1 DEF IsResult
<1>6. /\ DOMAIN old = ids /\ DOMAIN new = ids
      /\ \A query \in ids : old[query] \in Int /\ new[query] \in Int
  BY <1>2, <1>3
<1>7. ASSUME now < was, \A query \in ids : old[query] <= new[query] PROVE FALSE
  <2>. HIDE DEF ids, old, new, was, now, count
  <2>1. SumFunctionOnSet(old, ids) <= SumFunctionOnSet(new, ids)
    BY <1>5, <1>6, <1>7, SumMonotone
  <2>2. was <= now
    BY <1>2, <1>3, <2>1, MeansFollow
  <2>. QED BY <1>2, <1>3, <1>7, <2>2
<1>8. ASSUME was < now, \A query \in ids : new[query] <= old[query] PROVE FALSE
  <2>. HIDE DEF ids, old, new, was, now, count
  <2>1. SumFunctionOnSet(new, ids) <= SumFunctionOnSet(old, ids)
    BY <1>5, <1>6, <1>8, SumMonotone
  <2>2. now <= was
    BY <1>2, <1>3, <2>1, MeansFollow
  <2>. QED BY <1>2, <1>3, <1>8, <2>2
<1>9. now < was => \E query \in ids : new[query] < old[query]
  <2>. HIDE DEF ids, old, new, was, now
  <2>. QED BY <1>6, <1>7
<1>10. was < now => \E query \in ids : old[query] < new[query]
  <2>. HIDE DEF ids, old, new, was, now
  <2>. QED BY <1>6, <1>8
<1>. QED BY <1>2, <1>3, <1>4, <1>9, <1>10

\* A classification other than "unchanged" tells the direction.
LEMMA ClassifiedDirection ==
    ASSUME NEW key, NEW l \in Int, NEW r \in Int, NEW t \in ToleranceType
    PROVE  /\ Classification(key, l, r, t) = "regressed" => Directional(key, l, r) < 0
           /\ Classification(key, l, r, t) = "improved" => Directional(key, l, r) > 0
<1>1. l = r => Close(l, r, t)
  <2>1. Abs(l - l) = 0 /\ t.absolute \in Nat
    BY DEF Abs, ToleranceType
  <2>. QED BY <2>1 DEF Close, CloseTo, Within
<1>2. Directional(key, l, r) \in Int /\ (Directional(key, l, r) = 0 => l = r)
  BY DEF Directional
<1>. QED BY <1>1, <1>2 DEF Classification

\* comparison.py: the best and the worst query of a metric account for its
\* aggregate, a mean over the queries (aggregate_metrics, LatencyStats).
THEOREM CulpritShownHolds == Spec => []CulpritShown
<1>1. GatedIInv => CulpritShown
  <2>. SUFFICES ASSUME GatedIInv, comparison # Missing,
                       IsMeasured(baseline), IsMeasured(candidate),
                       NEW retriever \in DOMAIN comparison,
                       NEW key \in DOMAIN comparison[retriever], PerQuery(key)
                PROVE  LET here == comparison[retriever][key] IN
                       /\ here.aggregate.classification = "regressed" =>
                              here.queries[here.worst].directional < 0
                       /\ here.aggregate.classification = "improved" =>
                              here.queries[here.best].directional > 0
    BY DEF CulpritShown
  <2>1. /\ comparison = CompareRuns(baseline, candidate, tolerance)
        /\ Comparable(baseline, candidate)
        /\ IsResult(baseline) /\ IsResult(candidate)
        /\ tolerance \in ToleranceType
    BY ResultsAssumption, TolerancesAssumption
       DEF GatedIInv, ComparedInv, ResultsInv, TypeOK
  <2>2. /\ retriever \in CommonRetrievers(baseline, candidate)
        /\ key \in ComparedKeys(baseline, candidate, retriever)
        /\ retriever \in Names(baseline) /\ retriever \in Names(candidate)
    BY <2>1 DEF CompareRuns, CommonRetrievers
  <2>. DEFINE paired == Paired(baseline, candidate, retriever, key)
              old(query) == QueryValue(baseline, retriever, query, key)
              new(query) == QueryValue(candidate, retriever, query, key)
              deltas == [query \in paired |-> Delta(key, old(query), new(query), tolerance)]
              was == AggregateValue(baseline, retriever, key)
              now == AggregateValue(candidate, retriever, key)
  <2>3. comparison[retriever][key] =
            [aggregate |-> Delta(key, was, now, tolerance), queries |-> deltas,
             best |-> Extreme(deltas, -1), worst |-> Extreme(deltas, 1)]
    <3>1. comparison[retriever][key] =
              MetricComparison(baseline, candidate, retriever, key, <<was, now>>, tolerance)
      BY <2>1, <2>2, ComparedMetric
    <3>. QED BY <3>1 DEF MetricComparison
  <2>4. /\ was \in Int /\ now \in Int
        /\ now < was => \E query \in paired : new(query) < old(query)
        /\ was < now => \E query \in paired : old(query) < new(query)
    BY <2>1, <2>2, CulpritExists
  <2>5. \A query \in paired : old(query) \in Int /\ new(query) \in Int
    BY <2>1, <2>2, QueryMetrics DEF Paired
  <2>6. paired \subseteq Nat /\ IsFiniteSet(paired)
    <3>1. paired \subseteq QueriesOf(baseline, retriever)
      BY DEF Paired
    <3>. QED BY <2>1, <2>2, <3>1, QueryMetrics, FS_Subset
  <2>. HIDE DEF paired, old, new, was, now
  <2>7. \A query \in paired : /\ deltas[query].directional = Directional(key, old(query), new(query))
                              /\ deltas[query].directional \in Int
    BY <2>5 DEF Delta, Directional
  <2>8. DOMAIN deltas = paired
    OBVIOUS
  <2>. HIDE DEF deltas
  <2>9. ASSUME Classification(key, was, now, tolerance) = "regressed"
        PROVE  deltas[Extreme(deltas, 1)].directional < 0
    <3>1. Directional(key, was, now) < 0
      BY <2>1, <2>4, <2>9, ClassifiedDirection
    <3>2. PICK query \in paired : deltas[query].directional < 0
      BY <2>4, <2>5, <2>7, <3>1 DEF Directional
    <3>3. Extreme(deltas, 1) \in paired
          /\ Precedes(deltas, 1, Extreme(deltas, 1), query)
      BY <2>6, <2>7, <2>8, <3>2, ExtremeExists
    <3>. QED BY <2>7, <3>2, <3>3 DEF Precedes
  <2>10. ASSUME Classification(key, was, now, tolerance) = "improved"
         PROVE  deltas[Extreme(deltas, -1)].directional > 0
    <3>1. Directional(key, was, now) > 0
      BY <2>1, <2>4, <2>10, ClassifiedDirection
    <3>2. PICK query \in paired : deltas[query].directional > 0
      BY <2>4, <2>5, <2>7, <3>1 DEF Directional
    <3>3. Extreme(deltas, -1) \in paired
          /\ Precedes(deltas, -1, Extreme(deltas, -1), query)
      BY <2>6, <2>7, <2>8, <3>2, ExtremeExists
    <3>. QED BY <2>7, <3>2, <3>3 DEF Precedes
  <2>. QED BY <2>3, <2>9, <2>10 DEF Delta
<1>. QED
  BY <1>1, GatedInvariance, PTL

---------------------------------------------------------------------------
(* Gates on whole results *)

\* A check of a policy, of whichever result it is evaluated on.
LEMMA CheckOf ==
    ASSUME NEW result, NEW gates, NEW i \in DOMAIN gates,
           NEW constraint \in DOMAIN gates[i].limits, NEW against, NEW t
    PROVE  EvaluateGates(result, gates, against, t).results[i].checks[constraint] =
               Check(constraint, gates[i].limits[constraint], gates[i].key,
                     IF IsDrop(gates[i])
                     THEN AggregateValue(against, gates[i].retriever, gates[i].key)
                     ELSE AggregateValue(result, gates[i].retriever, gates[i].key),
                     AggregateValue(result, gates[i].retriever, gates[i].key), t)
<1>1. EvaluateGates(result, gates, against, t).results[i] =
          GateResult(result, gates[i], against, t)
  BY DEF EvaluateGates
<1>2. GateResult(result, gates[i], against, t).checks =
          [c \in DOMAIN gates[i].limits |->
              Check(c, gates[i].limits[c], gates[i].key,
                    IF IsDrop(gates[i])
                    THEN AggregateValue(against, gates[i].retriever, gates[i].key)
                    ELSE AggregateValue(result, gates[i].retriever, gates[i].key),
                    AggregateValue(result, gates[i].retriever, gates[i].key), t)]
  BY GateResultFields
<1>. QED
  BY <1>1, <1>2

\* The values that a gate of a report compares are numbers.
LEMMA GatedValues ==
    ASSUME GatedIInv, report # Missing, NEW i \in DOMAIN report.gates
    PROVE  LET gate == report.gates[i] IN
           /\ gate.retriever \in Names(candidate)
           /\ AggregateValue(candidate, gate.retriever, gate.key) \in Nat
           /\ IsDrop(gate) =>
                 /\ report.against = baseline
                 /\ gate.retriever \in CommonRetrievers(baseline, candidate)
                 /\ gate.key \in ComparedKeys(baseline, candidate, gate.retriever)
                 /\ AggregateValue(baseline, gate.retriever, gate.key) \in Nat
<1>. DEFINE gate == report.gates[i]
<1>1. /\ Available(candidate, gate)
      /\ IsDrop(gate) => report.against = baseline /\ InComparison(baseline, candidate, gate)
      /\ IsResult(candidate) /\ WithGates(candidate, << >>) \in Results
      /\ baseline \in Results
  BY DEF GatedIInv, ReportInv, ResultsInv, TypeOK
<1>. HIDE DEF gate
<1>2. gate.retriever \in Names(candidate)
      /\ AggregateValue(candidate, gate.retriever, gate.key) \in Nat
  BY <1>1, AggregateIsNat DEF Available
<1>3. ASSUME IsDrop(gate)
      PROVE  /\ gate.retriever \in CommonRetrievers(baseline, candidate)
             /\ gate.key \in ComparedKeys(baseline, candidate, gate.retriever)
             /\ AggregateValue(baseline, gate.retriever, gate.key) \in Nat
  <2>1. /\ gate.retriever \in CommonRetrievers(baseline, candidate)
        /\ gate.retriever \in Names(baseline)
        /\ gate.key \in ComparedKeys(baseline, candidate, gate.retriever)
    BY <1>1, <1>3 DEF InComparison, CommonRetrievers
  <2>2. IsResult(baseline) /\ baseline.gates = << >>
    BY <1>1, ResultsAssumption
  <2>3. WithGates(baseline, << >>) = baseline
    BY <2>2, GatedFields
  <2>4. IF gate.key \in Timed THEN HasLatency(baseline)
        ELSE gate.key \in Shape(baseline, gate.retriever)
    BY <2>1, <2>2, QueryMetrics DEF ComparedKeys
  <2>5. AggregateValue(baseline, gate.retriever, gate.key) \in Nat
    BY <1>1, <2>1, <2>2, <2>3, <2>4, AggregateIsNat
  <2>. QED BY <2>1, <2>5
<1>. QED BY <1>1, <1>2, <1>3 DEF gate

\* quality.py and comparison.py: a gate that allows no drop passes exactly if
\* the comparison does not call the metric regressed, in every policy and for
\* every pair of results, where RelativeDropCounts.
THEOREM DropGatesMatchComparisonHolds == Spec => []DropGatesMatchComparison
<1>1. GatedIInv => DropGatesMatchComparison
  <2>. SUFFICES ASSUME GatedIInv, report # Missing, NEW i \in DOMAIN report.gates,
                       NEW constraint \in DOMAIN report.gates[i].limits \cap DropConstraints
                PROVE
            LET gate == report.gates[i]
                results == EvaluateGates(candidate, report.gates, report.against,
                                         tolerance).results
                compared == CompareRuns(report.against, candidate, tolerance)
                                [gate.retriever][gate.key].aggregate
            IN  /\ gate.limits[constraint] = 0
                /\ constraint = "max_relative_drop" => RelativeDropCounts(compared.baseline)
                =>
                    results[i].checks[constraint].passed =
                        (compared.classification # "regressed")
    BY Zenon DEF DropGatesMatchComparison
  <2>. DEFINE gate == report.gates[i]
              left == AggregateValue(baseline, gate.retriever, gate.key)
              right == AggregateValue(candidate, gate.retriever, gate.key)
              check == EvaluateGates(candidate, report.gates, report.against,
                                     tolerance).results[i].checks[constraint]
              compared == CompareRuns(report.against, candidate, tolerance)
                              [gate.retriever][gate.key].aggregate
  <2>1. IsDrop(gate)
    BY DEF IsDrop
  <2>2. /\ left \in Nat /\ right \in Nat /\ report.against = baseline
        /\ gate.retriever \in CommonRetrievers(baseline, candidate)
        /\ gate.key \in ComparedKeys(baseline, candidate, gate.retriever)
    BY <2>1, GatedValues
  <2>3. check = Check(constraint, gate.limits[constraint], gate.key, left, right, tolerance)
    BY <2>1, <2>2, CheckOf
  <2>4. compared = Delta(gate.key, left, right, tolerance)
    BY <2>2, ComparedAggregate
  <2>5. tolerance \in ToleranceType
    BY TolerancesAssumption DEF GatedIInv, ResultsInv, TypeOK
  <2>. HIDE DEF gate, left, right, check, compared
  <2>6. compared.baseline = left
        /\ compared.classification = Classification(gate.key, left, right, tolerance)
    BY <2>4 DEF Delta
  <2>7. ASSUME gate.limits[constraint] = 0,
               constraint = "max_relative_drop" => RelativeDropCounts(compared.baseline)
        PROVE  check.passed = (compared.classification # "regressed")
    <3>1. constraint = "max_relative_drop" =>
              left <= One \/ tolerance.absolute * tolerance.den <= tolerance.num * One
      BY <2>6, <2>7 DEF RelativeDropCounts
    <3>2. Check(constraint, 0, gate.key, left, right, tolerance).passed
              <=> Classification(gate.key, left, right, tolerance) # "regressed"
      BY <2>2, <2>5, <3>1, ZeroDropMatches
    <3>3. check.passed \in BOOLEAN
      BY <2>3 DEF Check
    <3>. QED BY <2>3, <2>6, <2>7, <3>2, <3>3
  <2>. QED BY <2>7 DEF gate, check, compared
<1>. QED
  BY <1>1, GatedInvariance, PTL

\* quality.py: in no policy does getting better at a metric make a gate on it
\* fail, but for a bound on how good it may be.
THEOREM BetterNeverFailsHolds == Spec => []BetterNeverFails
<1>1. GatedIInv => BetterNeverFails
  <2>. SUFFICES ASSUME GatedIInv, report # Missing, NEW i \in DOMAIN report.gates,
                       Available(candidate, report.gates[i]),
                       NEW value \in 0 .. AggregateValue(candidate, report.gates[i].retriever,
                                                         report.gates[i].key) + One
                PROVE
            LET gate == report.gates[i]
                now == EvaluateGates(candidate, report.gates, report.against, tolerance)
                other == WithValue(candidate, gate.retriever, gate.key, value)
                then == EvaluateGates(other, report.gates, report.against, tolerance)
                bound == IF LowerIsBetter(gate.key) THEN "min_value" ELSE "max_value"
            IN  Directional(gate.key,
                    AggregateValue(candidate, gate.retriever, gate.key), value) >= 0 =>
                \A constraint \in DOMAIN gate.limits \ {bound} :
                    now.results[i].checks[constraint].passed =>
                        then.results[i].checks[constraint].passed
    BY Zenon DEF BetterNeverFails
  <2>. DEFINE gate == report.gates[i]
              left == AggregateValue(baseline, gate.retriever, gate.key)
              right == AggregateValue(candidate, gate.retriever, gate.key)
              other == WithValue(candidate, gate.retriever, gate.key, value)
              bound == IF LowerIsBetter(gate.key) THEN "min_value" ELSE "max_value"
  <2>1. /\ gate.retriever \in Names(candidate) /\ right \in Nat
        /\ IsDrop(gate) => left \in Nat /\ report.against = baseline
    BY GatedValues
  <2>2. value \in Nat
    BY <2>1, OneAssumption
  <2>3. AggregateValue(other, gate.retriever, gate.key) = value
    <3>1. IsResult(candidate)
      BY DEF GatedIInv, ResultsInv
    <3>2. CASE gate.key \in Timed
      <4>1. gate.key[1] \in LatencyStatistics
        BY <3>2 DEF Timed
      <4>2. HasLatency(candidate)
        BY <3>2 DEF Available
      <4>3. candidate.latency[gate.retriever] \in [LatencyStatistics -> Nat]
        BY <2>1, <3>1, <4>2 DEF IsResult
      <4>4. gate.retriever \in DOMAIN candidate.latency
        BY <2>1, <3>1, <4>2 DEF IsResult
      <4>5. "latency" \in DOMAIN candidate
        BY <3>1 DEF IsResult
      <4>. QED BY <3>2, <4>1, <4>3, <4>4, <4>5 DEF WithValue, AggregateValue
    <3>3. CASE gate.key \notin Timed
      <4>1. gate.key \in DOMAIN candidate.metrics[gate.retriever]
        BY <3>3 DEF Available, Shape
      <4>2. "metrics" \in DOMAIN candidate
        BY <3>1 DEF IsResult
      <4>. QED BY <2>1, <3>3, <4>1, <4>2 DEF WithValue, AggregateValue, Names
    <3>. QED BY <3>2, <3>3
  <2>4. tolerance \in ToleranceType /\ tolerance \in Tolerances /\ report.gates \in Policies
    BY TolerancesAssumption DEF GatedIInv, ResultsInv, TypeOK, ReportInv
  <2>5. \A constraint \in DOMAIN gate.limits :
            /\ constraint \in Constraints
            /\ gate.limits[constraint] \in Int
            /\ constraint \in DropConstraints => gate.limits[constraint] >= 0
            /\ constraint = "max_value" =>
                   gate.limits[constraint] >= 0 \/ tolerance.num < tolerance.den
    BY <2>4, PoliciesAssumption, BoundsAssumption DEF WellFormed
  <2>6. ASSUME Directional(gate.key, right, value) >= 0,
               NEW constraint \in DOMAIN gate.limits \ {bound},
               EvaluateGates(candidate, report.gates, report.against, tolerance)
                   .results[i].checks[constraint].passed
        PROVE  EvaluateGates(other, report.gates, report.against, tolerance)
                   .results[i].checks[constraint].passed
    <3>. DEFINE limit == gate.limits[constraint]
    <3>1. Check(constraint, limit, gate.key, IF IsDrop(gate) THEN left ELSE right, right,
                tolerance).passed
      BY <2>1, <2>6, CheckOf
    <3>2. EvaluateGates(other, report.gates, report.against, tolerance)
              .results[i].checks[constraint] =
              Check(constraint, limit, gate.key, IF IsDrop(gate) THEN left ELSE value, value,
                    tolerance)
      BY <2>1, <2>3, CheckOf
    <3>. HIDE DEF left, right, other, limit
    <3>3. CASE IsDrop(gate)
      <4>1. Check(constraint, limit, gate.key, left, value, tolerance).passed
        BY <2>1, <2>2, <2>4, <2>5, <2>6, <3>1, <3>3, BetterPasses DEF limit, bound
      <4>. QED BY <3>2, <3>3, <4>1
    <3>4. CASE ~ IsDrop(gate)
      \* A bound on the value does not look at a baseline.
      <4>1. constraint \in {"min_value", "max_value"}
        BY <2>5, <3>4 DEF IsDrop, Constraints, DropConstraints
      <4>2. \A l, r : Check(constraint, limit, gate.key, l, r, tolerance) =
                          Check(constraint, limit, gate.key, r, r, tolerance)
        BY <4>1 DEF Check, Actual
      <4>3. Check(constraint, limit, gate.key, right, value, tolerance).passed
        BY <2>1, <2>2, <2>4, <2>5, <2>6, <3>1, <3>4, BetterPasses DEF limit, bound
      <4>4. Check(constraint, limit, gate.key, right, value, tolerance) =
                Check(constraint, limit, gate.key, value, value, tolerance)
        BY <4>2
      <4>. QED BY <3>2, <3>4, <4>3, <4>4
    <3>. QED BY <3>3, <3>4
  <2>. QED BY <2>6
<1>. QED
  BY <1>1, GatedInvariance, PTL

---------------------------------------------------------------------------
(* Saving and loading *)

\* artifacts/results.py and domain/results.py: a saved result loads as it was,
\* attached gates included, or not at all; what a runner measured is refused only
\* if its file exceeds max_bytes, whatever gates the candidate accepted before.
THEOREM ReloadsAsSavedHolds == Spec => []ReloadsAsSaved
<1>1. GatedIInv => ReloadsAsSaved
  <2>. SUFFICES ASSUME GatedIInv, file # Missing
                PROVE  /\ FromDict(file.dict) = candidate
                       /\ IsMeasured(candidate) =>
                              Readable(file.dict) /\ (Fits => error = "")
    BY DEF ReloadsAsSaved
  <2>. DEFINE dict == file.dict
  <2>1. /\ dict = ToDict(candidate) /\ IsResult(candidate)
        /\ error # "" => ~ Readable(dict) \/ ~ Fits
        /\ AcceptsGates(candidate, candidate.gates)
    BY DEF GatedIInv, FileInv, ResultsInv, AttachedInv
  <2>. HIDE DEF dict
  <2>2. FromDict(dict) = candidate
    BY <2>1, RoundTrip
  <2>3. ASSUME IsMeasured(candidate) PROVE Readable(dict)
    <3>. DEFINE measured == WithGates(candidate, << >>)
                names == Names(candidate)
                entry(retriever) == dict.retrievers[retriever]
    <3>1. /\ measured \in Measured
          /\ measured.metrics = candidate.metrics /\ measured.queries = candidate.queries
          /\ measured.latency = candidate.latency
      BY <2>1, <2>3, GatedFields DEF IsMeasured
    <3>. HIDE DEF measured
    <3>2. /\ HasLatency(measured)
          /\ \A retriever, other \in Names(measured) :
                 /\ QueriesOf(measured, retriever) = QueriesOf(measured, other)
                 /\ Shape(measured, retriever) = Shape(measured, other)
          /\ \A retriever \in Names(measured) :
                 /\ \A query \in QueriesOf(measured, retriever) :
                        QueryShape(measured, retriever, query) = Shape(measured, retriever)
                 /\ IsMean(ToDict(measured).retrievers[retriever])
      BY <3>1, MeasuredAssumption, Zenon DEF QueriesOf
    <3>3. ToDict(measured).retrievers = dict.retrievers /\ Names(measured) = names
      BY <2>1, <3>1 DEF ToDict, HasLatency, Names
    <3>4. /\ DOMAIN dict.retrievers = names /\ dict.gates = candidate.gates
          /\ \A retriever \in names :
                /\ entry(retriever).metrics = candidate.metrics[retriever]
                /\ entry(retriever).per_query = candidate.queries[retriever]
                /\ entry(retriever).latency # Missing
      <4>1. HasLatency(candidate)
        BY <3>1, <3>2 DEF HasLatency
      <4>2. \A retriever \in names : candidate.latency[retriever] # Missing
        BY <2>1, <4>1, MissingAssumption DEF IsResult
      <4>. QED BY <2>1, <4>1, <4>2 DEF ToDict
    <3>5. \A retriever, other \in names :
              /\ DOMAIN entry(retriever).per_query = DOMAIN entry(other).per_query
              /\ DOMAIN entry(retriever).metrics = DOMAIN entry(other).metrics
              /\ (entry(retriever).latency = Missing) = (entry(other).latency = Missing)
      BY <3>1, <3>2, <3>3, <3>4 DEF QueriesOf, Shape
    <3>6. \A retriever \in names :
              /\ \A query \in DOMAIN entry(retriever).per_query :
                     DOMAIN entry(retriever).per_query[query].metrics =
                         DOMAIN entry(retriever).metrics
              /\ IsMean(entry(retriever))
      BY <3>1, <3>2, <3>3, <3>4 DEF QueriesOf, QueryShape, Shape
    <3>7. AcceptsGates(FromDict(dict), dict.gates)
      BY <2>1, <2>2, <3>4
    <3>. HIDE DEF names
    <3>8. \A one, other \in {dict.retrievers[r] : r \in DOMAIN dict.retrievers} :
              /\ DOMAIN one.per_query = DOMAIN other.per_query
              /\ DOMAIN one.metrics = DOMAIN other.metrics
              /\ (one.latency = Missing) = (other.latency = Missing)
      BY <3>4, <3>5
    <3>9. \A one \in {dict.retrievers[r] : r \in DOMAIN dict.retrievers} :
              /\ \A query \in DOMAIN one.per_query :
                     DOMAIN one.per_query[query].metrics = DOMAIN one.metrics
              /\ IsMean(one)
      BY <3>4, <3>6
    <3>. QED
      BY <3>7, <3>8, <3>9, Zenon DEF Readable
  <2>. QED BY <2>1, <2>2, <2>3 DEF dict
<1>. QED
  BY <1>1, GatedInvariance, PTL
=============================================================================
