--------------------------- MODULE ReceiverLemmas ---------------------------
(***************************************************************************)
(* Lemmas about the operators that TCPReceiver is built from, for every    *)
(* capacity, every stream and every width of the sequence number: wrap()   *)
(* and unwrap() are inverse to each other near the checkpoint; what        *)
(* StreamReassembler stores, what it discards, and what one call of        *)
(* push_substring() does.                                                  *)
(***************************************************************************)
EXTENDS TCPReceiver, FiniteSetTheorems, NaturalsInduction, TLAPS

-----------------------------------------------------------------------------
(* WrappingIntegers.                                                       *)

LEMMA DivMod ==
  ASSUME NEW N \in Nat \ {0}, NEW x \in Nat
  PROVE  /\ x = (x \div N) * N + (x % N)
         /\ x \div N \in Nat /\ x % N \in 0 .. N - 1
  OBVIOUS

(* One wrap in either direction. *)
LEMMA ModOnce ==
  ASSUME NEW N \in Nat \ {0}, NEW a \in Int, -N <= a, a < 2 * N
  PROVE  a % N = IF a < 0 THEN a + N ELSE IF a < N THEN a ELSE a - N
<1>1. CASE a < 0
  <2>1. a + N \in 0 .. N - 1 /\ a = N * (-1) + (a + N)
    BY <1>1
  <2> QED
    BY <1>1, <2>1
<1>2. CASE 0 <= a /\ a < N
  BY <1>2
<1>3. CASE N <= a
  <2>1. a - N \in 0 .. N - 1 /\ a = N * 1 + (a - N)
    BY <1>3
  <2> QED
    BY <1>3, <2>1
<1> QED
  BY <1>1, <1>2, <1>3

(* The difference of two wrapped numbers is the offset modulo FACTOR. *)
LEMMA OffsetRecovered ==
  ASSUME NEW i \in Wrapping, NEW n \in Nat
  PROVE  (wrap(n, i) - i) % FACTOR = n % FACTOR /\ wrap(n, i) \in Wrapping
<1> DEFINE s == n % FACTOR
<1>1. s \in 0 .. FACTOR - 1
  BY DivMod, FactorAssumption
<1> HIDE DEF s
<1>2. (i + s) % FACTOR = IF i + s < FACTOR THEN i + s ELSE i + s - FACTOR
  <2> DEFINE a == i + s
  <2>1. a \in Int /\ -FACTOR <= a /\ a < 2 * FACTOR /\ ~(a < 0)
    BY <1>1, FactorAssumption DEF Wrapping
  <2>2. a % FACTOR = IF a < 0 THEN a + FACTOR ELSE IF a < FACTOR THEN a ELSE a - FACTOR
    BY <2>1, ModOnce, FactorAssumption
  <2> QED
    BY <2>1, <2>2, <1>1, FactorAssumption DEF Wrapping
<1> DEFINE d == ((i + s) % FACTOR) - i
<1>3. d = s \/ d = s - FACTOR
  BY <1>1, <1>2, FactorAssumption DEF Wrapping
<1>4. (i + s) % FACTOR \in Wrapping
  BY <1>1, <1>2, FactorAssumption DEF Wrapping
<1> HIDE DEF d
<1>5. d % FACTOR = s
  <2>1. d \in Int /\ -FACTOR <= d /\ d < 2 * FACTOR
    BY <1>1, <1>3, FactorAssumption
  <2>2. d % FACTOR = IF d < 0 THEN d + FACTOR ELSE IF d < FACTOR THEN d ELSE d - FACTOR
    BY <2>1, ModOnce, FactorAssumption
  <2> QED
    BY <2>2, <1>1, <1>3, FactorAssumption
<1> QED
  BY <1>4, <1>5 DEF d, s, wrap

(* Reading back a number near the checkpoint.  The guess of unwrap() is off
   by one turn of the sequence space when the number and the checkpoint lie
   on different sides of a multiple of FACTOR; the comparison of distances
   then picks the neighbour. *)
LEMMA UnwrapWrap ==
  ASSUME NEW i \in Wrapping, NEW n \in Nat, NEW cp \in Nat,
         NEW reach \in Nat, 2 * reach < FACTOR, n <= cp + reach, cp <= n + reach,
         cp + FACTOR < FACTOR * FACTOR
  PROVE  unwrap(wrap(n, i), i, cp) = n
<1> DEFINE F == FACTOR
           W == F * F
           p == n \div F
           s == n % F
           q == cp \div F
           r == cp % F
           B == q * F
<1>1. n = p * F + s /\ p \in Nat /\ s \in 0 .. F - 1
  BY DivMod, FactorAssumption
<1>2. cp = B + r /\ q \in Nat /\ r \in 0 .. F - 1
  BY DivMod, FactorAssumption
<1>3. F \in Nat /\ F > 1 /\ W \in Nat /\ F <= W /\ 2 * reach < F
      /\ cp + F < W
  BY FactorAssumption
<1> HIDE DEF p, s, q, r, F
<1>4. p \in {q - 1, q, q + 1}
  <2>1. ASSUME p <= q - 2 PROVE FALSE
    <3>1. (q - p) * F >= 2 * F
      BY <2>1, <1>1, <1>2, <1>3
    <3>2. q * F - p * F >= 2 * F
      BY <3>1, <1>1, <1>2, <1>3
    <3> QED
      BY <3>2, <1>1, <1>2, <1>3
  <2>2. ASSUME p >= q + 2 PROVE FALSE
    <3>1. (p - q) * F >= 2 * F
      BY <2>2, <1>1, <1>2, <1>3
    <3>2. p * F - q * F >= 2 * F
      BY <3>1, <1>1, <1>2, <1>3
    <3> QED
      BY <3>2, <1>1, <1>2, <1>3
  <2> QED
    BY <2>1, <2>2, <1>1, <1>2
<1>5. B \in Nat /\ n \in {B + s - F, B + s, B + s + F}
  BY <1>1, <1>2, <1>3, <1>4
<1>6. B = 0 \/ B >= F
  BY <1>2, <1>3
<1> HIDE DEF B, W
<1> DEFINE a == B + s
<1>7. a \in Nat /\ a < W /\ a + F \in Nat
  BY <1>1, <1>2, <1>3, <1>5
<1>8. ASSUME NEW x \in Nat, x < W PROVE U64(x) = x
  BY <1>3, <1>8, FactorAssumption DEF U64, W, F
<1> DEFINE D(x) == IF x > cp THEN x - cp ELSE cp - x
           below == U64(a - F)
           above == U64(a + F)
<1>9. below = IF a >= F THEN a - F ELSE a - F + W
  <2>1. CASE a >= F
    BY <2>1, <1>3, <1>7, <1>8
  <2>2. CASE a < F
    <3> DEFINE b == a - F
    <3>1. b \in Int /\ -W <= b /\ b < 2 * W /\ b < 0 /\ W \in Nat \ {0}
      BY <2>2, <1>3, <1>7
    <3>2. b % W = b + W
      BY <3>1, ModOnce
    <3>3. below = b + W
      BY <3>2, Zenon DEF U64, W, F
    <3> HIDE DEF below
    <3> QED
      BY <2>2, <3>3, <1>3, <1>7
  <2> QED
    BY <2>1, <2>2, <1>3, <1>7
<1>10. a < cp => above = a + F
  BY <1>3, <1>7, <1>8
<1>11. unwrap(wrap(n, i), i, cp) =
         IF a > cp /\ D(below) < D(a) THEN below
         ELSE IF a < cp /\ D(above) < D(a) THEN above ELSE a
  <2>1. (wrap(n, i) - i) % FACTOR = s
    BY OffsetRecovered DEF s, F
  <2>2. U64((cp \div FACTOR) * FACTOR + ((wrap(n, i) - i) % FACTOR)) = a
    BY <2>1, <1>7, <1>8 DEF B, q, F
  <2> QED
    BY <2>2 DEF unwrap, F
<1> HIDE DEF below, above
<1>12. CASE n = a
  <2>1. a > cp => ~(D(below) < D(a))
    BY <1>12, <1>1, <1>2, <1>3, <1>5, <1>6, <1>7, <1>9
  <2>2. a < cp => ~(D(above) < D(a))
    BY <1>12, <1>1, <1>2, <1>3, <1>5, <1>7, <1>10
  <2> QED
    BY <1>12, <1>11, <2>1, <2>2
<1>13. CASE n = a - F
  <2>1. a > cp /\ a >= F
    BY <1>13, <1>1, <1>2, <1>3, <1>5, <1>6, <1>7
  <2>2. below = n /\ D(below) < D(a)
    BY <2>1, <1>13, <1>1, <1>2, <1>3, <1>5, <1>7, <1>9
  <2> QED
    BY <1>11, <2>1, <2>2
<1>14. CASE n = a + F
  <2>1. a < cp
    BY <1>14, <1>1, <1>2, <1>3, <1>5, <1>7
  <2>2. above = n /\ D(above) < D(a) /\ ~(a > cp)
    BY <2>1, <1>14, <1>1, <1>2, <1>3, <1>5, <1>7, <1>10
  <2> QED
    BY <1>11, <2>1, <2>2
<1>15. n \in {a - F, a, a + F}
  BY <1>1, <1>3, <1>5
<1> QED
  BY <1>12, <1>13, <1>14, <1>15

LEMMA UnwrapNat ==
  ASSUME NEW n \in Int, NEW i \in Int, NEW cp \in Nat
  PROVE  unwrap(n, i, cp) \in Nat
<1>1. ASSUME NEW x \in Int PROVE U64(x) \in Nat
  <2>1. FACTOR * FACTOR \in Nat \ {0}
    BY FactorAssumption
  <2> QED
    BY <2>1 DEF U64
<1>2. (n - i) % FACTOR \in Nat /\ (cp \div FACTOR) * FACTOR \in Nat /\ FACTOR \in Nat
  BY FactorAssumption
<1>3. U64((cp \div FACTOR) * FACTOR + ((n - i) % FACTOR)) \in Nat
  BY <1>1, <1>2
<1> QED
  BY <1>1, <1>2, <1>3 DEF unwrap

(* Whole turns do not count. *)
LEMMA ModTurns ==
  ASSUME NEW N \in Nat \ {0}, NEW q \in Nat, NEW s \in 0 .. N - 1
  PROVE  (q * N + s) % N = s
<1> DEFINE x == q * N + s
           d == x \div N
           m == x % N
<1>1. q * N \in Nat
  OBVIOUS
<1>2. x \in Nat
  BY <1>1
<1>3. x = d * N + m /\ d \in Nat /\ m \in 0 .. N - 1
  BY <1>2, DivMod
<1> HIDE DEF d, m
<1>4. d = q
  <2>1. ASSUME d < q PROVE FALSE
    <3>1. (q - d) * N >= N
      BY <1>3, <2>1
    <3>2. (q - d) * N = q * N - d * N /\ d * N \in Nat
      BY <1>3
    <3> HIDE DEF x
    <3>3. x = q * N + s
      BY DEF x
    <3> QED BY <1>1, <1>3, <3>1, <3>2, <3>3
  <2>2. ASSUME q < d PROVE FALSE
    <3>1. (d - q) * N >= N
      BY <1>3, <2>2
    <3>2. (d - q) * N = d * N - q * N /\ d * N \in Nat
      BY <1>3
    <3> HIDE DEF x
    <3>3. x = q * N + s
      BY DEF x
    <3> QED BY <1>1, <1>3, <3>1, <3>2, <3>3
  <2> QED BY <1>3, <2>1, <2>2
<1>5. m = s
  BY <1>1, <1>3, <1>4
<1> QED BY <1>5 DEF m

(* The numbers that wrap to n are those whose offset is that of n. *)
LEMMA WrapsTo ==
  ASSUME NEW i \in Wrapping, NEW n \in Wrapping, NEW y \in Nat
  PROVE  wrap(y, i) = n <=> y % FACTOR = (n - i) % FACTOR
<1> DEFINE F == FACTOR
           s == (n - i) % F
<1>1. F \in Nat \ {0} /\ i \in 0 .. F - 1 /\ n \in 0 .. F - 1
  BY FactorAssumption DEF Wrapping
<1>2. wrap(y, i) = n => y % F = s
  BY OffsetRecovered
<1> HIDE DEF F
<1>3. s = IF n < i THEN n - i + F ELSE n - i
  <2> DEFINE d == n - i
  <2>1. d \in Int /\ -F <= d /\ d < F /\ d < 2 * F
    BY <1>1
  <2>2. d % F = IF d < 0 THEN d + F ELSE IF d < F THEN d ELSE d - F
    BY <1>1, <2>1, ModOnce
  <2> QED BY <1>1, <2>1, <2>2
<1> HIDE DEF s
<1>4. (i + s) % F = n
  <2> DEFINE c == i + s
  <2>1. c \in Int /\ -F <= c /\ c < 2 * F /\ (c = n \/ c = n + F)
    BY <1>1, <1>3
  <2> HIDE DEF c
  <2>2. c % F = IF c < 0 THEN c + F ELSE IF c < F THEN c ELSE c - F
    BY <1>1, <2>1, ModOnce
  <2>3. c % F = n
    BY <1>1, <2>1, <2>2
  <2> QED BY <2>3 DEF c
<1>5. wrap(y, i) = (i + (y % F)) % F
  BY DEF wrap, F
<1> QED BY <1>2, <1>4, <1>5 DEF s, F

(* unwrap() looks at one candidate and at its neighbour on the side of the
   checkpoint; all the other candidates are at least as far away. *)
LEMMA UnwrapClosest ==
  ASSUME NEW i \in Wrapping, NEW n \in Wrapping, NEW cp \in Nat, cp + FACTOR < FACTOR * FACTOR
  PROVE  LET x == unwrap(n, i, cp)
             D(z) == IF z > cp THEN z - cp ELSE cp - z
         IN  /\ wrap(x, i) = n
             /\ \A y \in Nat : wrap(y, i) = n => D(x) <= D(y)
<1> DEFINE F == FACTOR
           W == F * F
           s == (n - i) % F
           q == cp \div F
           r == cp % F
           B == q * F
           a == B + s
           D(z) == IF z > cp THEN z - cp ELSE cp - z
           below == U64(a - F)
           above == U64(a + F)
           x == unwrap(n, i, cp)
<1>1. F \in Nat \ {0} /\ F > 1 /\ i \in Int /\ n \in Int
  BY FactorAssumption DEF Wrapping
<1>2. cp = B + r /\ q \in Nat /\ r \in 0 .. F - 1
  BY <1>1, DivMod
<1>3. s \in 0 .. F - 1
  BY <1>1
<1>4. W \in Nat /\ F <= W /\ cp + F < W
  BY <1>1
<1>5. B \in Nat /\ (B = 0 \/ B >= F)
  BY <1>1, <1>2
<1>6. ASSUME NEW z \in Nat, z < W PROVE U64(z) = z
  BY <1>4, <1>6, <1>1 DEF U64
<1>7. a \in Nat /\ a < W /\ (a < cp => a + F < W)
  <2> HIDE DEF W, B, r, s, F
  <2> QED BY <1>1, <1>2, <1>3, <1>4, <1>5
<1>8. x = IF a > cp /\ D(below) < D(a) THEN below
          ELSE IF a < cp /\ D(above) < D(a) THEN above ELSE a
  <2>1. U64((cp \div FACTOR) * FACTOR + ((n - i) % FACTOR)) = a
    BY <1>6, <1>7
  <2> QED BY <2>1 DEF unwrap
<1>9. a < cp => above = a + F
  BY <1>1, <1>6, <1>7
<1>10. below = IF a >= F THEN a - F ELSE a - F + W
  <2>1. CASE a >= F
    <3>1. a - F \in Nat /\ a - F < W
      BY <1>1, <1>4, <1>7, <2>1
    <3> QED BY <1>6, <2>1, <3>1
  <2>2. CASE a < F
    <3> DEFINE b == a - F
    <3>1. b \in Int /\ -W <= b /\ b < 2 * W /\ b < 0 /\ W \in Nat \ {0}
      BY <1>1, <1>4, <1>7, <2>2
    <3>2. b % W = b + W
      BY <3>1, ModOnce
    <3>3. below = b + W
      BY <3>2, Zenon DEF U64
    <3> HIDE DEF below, a
    <3> QED BY <1>1, <1>7, <2>2, <3>3
  <2> QED BY <1>1, <1>7, <2>1, <2>2
<1> HIDE DEF x, above, below
<1>11. ASSUME NEW y \in Nat, wrap(y, i) = n
       PROVE  y = a \/ y <= a - F \/ y >= a + F
  <2> DEFINE p == y \div F
             m == y % F
  <2>1. y = p * F + m /\ p \in Nat
    BY <1>1, DivMod
  <2>2. m = s
    BY <1>11, WrapsTo
  <2> HIDE DEF p, m, s
  <2>3. CASE p = q
    BY <2>1, <2>2, <2>3
  <2>4. CASE p < q
    <3>1. (q - p) * F >= F /\ (q - p) * F = q * F - p * F /\ p * F \in Nat
      BY <1>1, <1>2, <2>1, <2>4
    <3> HIDE DEF F
    <3>2. y <= a - F
      BY <1>1, <1>3, <1>5, <2>1, <2>2, <3>1
    <3> QED BY <3>2, Zenon
  <2>5. CASE p > q
    <3>1. (p - q) * F >= F /\ (p - q) * F = p * F - q * F /\ p * F \in Nat
      BY <1>1, <1>2, <2>1, <2>5
    <3> HIDE DEF F
    <3>2. y >= a + F
      BY <1>1, <1>3, <1>5, <2>1, <2>2, <3>1
    <3> QED BY <3>2, Zenon
  <2> QED BY <1>2, <2>1, <2>3, <2>4, <2>5
<1>12. a = cp \/ (a > cp /\ a - F < cp) \/ (a < cp /\ a + F > cp)
  <2> HIDE DEF B, s, r, F
  <2> QED BY <1>1, <1>2, <1>3, <1>5
<1>13. x \in {a, a - F, a + F} /\ x \in Nat /\ D(x) <= D(a)
       /\ (a > cp => D(x) <= cp - (a - F) \/ a < F) /\ (a < cp => D(x) <= a + F - cp)
  <2> HIDE DEF a, F, W
  <2> QED BY <1>1, <1>4, <1>7, <1>8, <1>9, <1>10, <1>12
<1>14. \A y \in Nat : wrap(y, i) = n => D(x) <= D(y)
  <2> SUFFICES ASSUME NEW y \in Nat, wrap(y, i) = n PROVE D(x) <= D(y)
    OBVIOUS
  <2>1. y = a \/ y <= a - F \/ y >= a + F
    BY <1>11
  <2> HIDE DEF a, F
  <2> QED BY <1>1, <1>7, <1>12, <1>13, <2>1
<1>15. wrap(x, i) = n
  <2>1. \E t \in Nat : x = t * F + s
    <3>1. CASE x = a
      BY <1>2, <3>1
    <3>2. CASE x = a + F
      <4>1. x = (q + 1) * F + s
        BY <1>1, <1>2, <1>3, <3>2
      <4> QED BY <1>2, <4>1
    <3>3. CASE x = a - F
      <4>1. q # 0
        <5> SUFFICES ASSUME q = 0 PROVE FALSE
          OBVIOUS
        <5>1. a = s
          BY <1>1, <1>3
        <5> QED BY <1>1, <1>3, <1>13, <3>3, <5>1
      <4>2. x = (q - 1) * F + s /\ q - 1 \in Nat
        BY <1>1, <1>2, <1>3, <3>3, <4>1
      <4> QED BY <4>2
    <3> QED BY <1>13, <3>1, <3>2, <3>3
  <2>2. x % F = s
    BY <1>1, <1>3, <2>1, ModTurns
  <2> QED BY <1>13, <2>2, WrapsTo
<1> QED BY <1>14, <1>15 DEF x

-----------------------------------------------------------------------------
(* The stored substrings.                                                  *)

LEMMA NatLeast ==
  ASSUME NEW T, T \subseteq Nat, T # {}
  PROVE  \E x \in T : \A y \in T : x <= y
  <1> DEFINE R == OpToRel(<, Nat)
  <1>1. IsWellFoundedOn(R, Nat)
    BY NatLessThanWellFounded, Zenon
  <1>2. \A x, y \in Nat : x < y => <<x, y>> \in R
    BY Zenon DEF OpToRel
  <1> HIDE DEF R
  <1>3. PICK x \in T : \A y \in T : ~(<<y, x>> \in R)
    BY <1>1, WFMin, Zenon
  <1>4. \A y \in T : ~(y < x)
    BY <1>2, <1>3, Zenon
  <1> QED
    BY <1>4

-----------------------------------------------------------------------------
(* Slices.  Byte i of the stream is the number i; the slices are disjoint, *)
(* not empty, and lie between low and high.                                *)

Run(q, from) == \A k \in 1..Len(q) : q[k] = from + k - 1

Slice(q, b) == q \in Seq(Nat) /\ Len(q) > 0 /\ Run(q, b)

End(datas, b) == b + Len(datas[b])

Slices(datas, low, high) ==
  /\ DOMAIN datas \subseteq low .. high - 1
  /\ \A b \in DOMAIN datas : Slice(datas[b], b) /\ End(datas, b) <= high
  /\ \A b, c \in DOMAIN datas : b < c => End(datas, b) <= c

LEMMA SliceNumbers ==
  ASSUME NEW low \in Nat, NEW high \in Nat, NEW datas, Slices(datas, low, high),
         NEW b \in DOMAIN datas
  PROVE  /\ b \in Nat /\ low <= b /\ Len(datas[b]) \in Nat /\ Len(datas[b]) > 0
         /\ End(datas, b) \in Nat /\ b < End(datas, b) /\ End(datas, b) <= high
         /\ End(datas, b) = b + Len(datas[b])
  <1>1. b \in Nat /\ low <= b
    BY DEF Slices
  <1>2. datas[b] \in Seq(Nat) /\ Len(datas[b]) > 0 /\ End(datas, b) <= high
    BY Zenon DEF Slices, Slice
  <1>3. Len(datas[b]) \in Nat
    BY <1>2
  <1> QED
    BY <1>1, <1>2, <1>3 DEF End

LEMMA SpanIs ==
  ASSUME NEW b \in Nat, NEW n \in Nat
  PROVE  IsFiniteSet(b .. b + n - 1) /\ Cardinality(b .. b + n - 1) = n
  <1> DEFINE c == b + n - 1
  <1>1. b \in Int /\ c \in Int
    OBVIOUS
  <1> HIDE DEF c
  <1>2. IsFiniteSet(b..c) /\ Cardinality(b..c) = IF b > c THEN 0 ELSE c - b + 1
    BY <1>1, FS_Interval
  <1> QED
    BY <1>2 DEF c

LEMMA PositionsAre ==
  ASSUME NEW low \in Nat, NEW high \in Nat, NEW datas, Slices(datas, low, high),
         NEW b \in DOMAIN datas
  PROVE  /\ \A x : x \in Positions(datas, b) <=> x \in Nat /\ b <= x /\ x < End(datas, b)
         /\ IsFiniteSet(Positions(datas, b))
         /\ Cardinality(Positions(datas, b)) = Len(datas[b])
         /\ Positions(datas, b) \subseteq low .. high - 1
  <1> DEFINE n == Len(datas[b])
  <1>1. b \in Nat /\ low <= b /\ n \in Nat /\ n > 0 /\ b + n <= high /\ End(datas, b) = b + n
    BY SliceNumbers
  <1>2. Positions(datas, b) = b .. b + n - 1
    BY Zenon DEF Positions
  <1> HIDE DEF n
  <1>3. IsFiniteSet(b .. b + n - 1) /\ Cardinality(b .. b + n - 1) = n
    BY <1>1, SpanIs, Zenon
  <1>5. \A x : x \in b .. b + n - 1 <=> x \in Nat /\ b <= x /\ x < b + n
    BY <1>1
  <1>6. b .. b + n - 1 \subseteq low .. high - 1
    BY <1>1
  <1> QED
    BY <1>1, <1>2, <1>3, <1>5, <1>6, Zenon DEF n

LEMMA StoredIs ==
  ASSUME NEW low \in Nat, NEW high \in Nat, NEW datas, Slices(datas, low, high)
  PROVE  /\ \A x : x \in Stored(datas) <=> \E b \in DOMAIN datas : x \in Positions(datas, b)
         /\ Stored(datas) \subseteq low .. high - 1
         /\ IsFiniteSet(Stored(datas)) /\ Cardinality(Stored(datas)) \in Nat
         /\ IsFiniteSet(DOMAIN datas)
         /\ \A b \in DOMAIN datas : b \in Stored(datas)
  <1>1. \A x : x \in Stored(datas) <=> \E b \in DOMAIN datas : x \in Positions(datas, b)
    BY Zenon DEF Stored
  <1>2. Stored(datas) \subseteq low .. high - 1
    BY <1>1, PositionsAre, ZenonT(30)
  <1>3. IsFiniteSet(low .. high - 1)
    BY FS_Interval
  <1>4. IsFiniteSet(Stored(datas)) /\ Cardinality(Stored(datas)) \in Nat
    BY <1>2, <1>3, FS_Subset, FS_CardinalityType, Zenon
  <1>5. IsFiniteSet(DOMAIN datas)
    BY <1>3, FS_Subset, Zenon DEF Slices
  <1>6. ASSUME NEW b \in DOMAIN datas
        PROVE  b \in Positions(datas, b)
    <2>1. b \in Nat /\ b <= b /\ b < End(datas, b)
      BY SliceNumbers
    <2> QED
      BY <2>1, PositionsAre, Zenon
  <1> QED
    BY <1>1, <1>2, <1>4, <1>5, <1>6, Zenon

\* No position is in two slices.
LEMMA SlicesApart ==
  ASSUME NEW low \in Nat, NEW high \in Nat, NEW datas, Slices(datas, low, high),
         NEW b \in DOMAIN datas, NEW c \in DOMAIN datas, b # c
  PROVE  Positions(datas, b) \cap Positions(datas, c) = {}
  <1> SUFFICES ASSUME NEW x, x \in Positions(datas, b), x \in Positions(datas, c)
               PROVE  FALSE
    BY Zenon
  <1>1. x \in Nat /\ b <= x /\ x < End(datas, b) /\ c <= x /\ x < End(datas, c)
    BY PositionsAre, Zenon
  <1>2. b \in Nat /\ c \in Nat /\ End(datas, b) \in Nat /\ End(datas, c) \in Nat
    BY SliceNumbers, Zenon
  <1>3. (b < c => End(datas, b) <= c) /\ (c < b => End(datas, c) <= b)
    BY Zenon DEF Slices
  <1> QED
    BY <1>1, <1>2, <1>3

\* Some of the slices.
LEMMA FewerSlices ==
  ASSUME NEW low \in Nat, NEW high \in Nat, NEW datas, Slices(datas, low, high),
         NEW T, T \subseteq DOMAIN datas
  PROVE  /\ DOMAIN Restrict(datas, T) = T
         /\ \A b \in T : /\ Restrict(datas, T)[b] = datas[b]
                         /\ End(Restrict(datas, T), b) = End(datas, b)
                         /\ Positions(Restrict(datas, T), b) = Positions(datas, b)
         /\ Slices(Restrict(datas, T), low, high)
  <1> DEFINE few == Restrict(datas, T)
  <1>1. DOMAIN few = T /\ \A b \in T : few[b] = datas[b]
    BY Zenon DEF Restrict
  <1> HIDE DEF few
  <1>2. \A b \in T : End(few, b) = End(datas, b) /\ Positions(few, b) = Positions(datas, b)
    BY <1>1, Zenon DEF End, Positions
  <1>3. Slices(few, low, high)
    BY <1>1, <1>2, Zenon DEF Slices
  <1> QED
    BY <1>1, <1>2, <1>3, Zenon DEF few


-----------------------------------------------------------------------------
(* The sum of the lengths of the slices is the number of bytes stored: the *)
(* numbers of bytes satisfy the recursive equation of the sum, and two     *)
(* solutions differ at no smallest set of slices.                          *)

Within(datas, T) == UNION {Positions(datas, b) : b \in T}

LEMMA WithinGrows ==
  ASSUME NEW low \in Nat, NEW high \in Nat, NEW datas, Slices(datas, low, high),
         NEW T, T \subseteq DOMAIN datas, NEW b \in T
  PROVE  /\ IsFiniteSet(Within(datas, T)) /\ Cardinality(Within(datas, T)) \in Nat
         /\ Cardinality(Within(datas, T)) =
              Len(datas[b]) + Cardinality(Within(datas, T \ {b}))
  <1> DEFINE all == Within(datas, T)
             rest == Within(datas, T \ {b})
             this == Positions(datas, b)
  <1>1. \A x : x \in all <=> \E c \in T : x \in Positions(datas, c)
    BY Zenon DEF Within
  <1>2. \A x : x \in rest <=> \E c \in T \ {b} : x \in Positions(datas, c)
    BY Zenon DEF Within
  <1>3. /\ IsFiniteSet(this) /\ Cardinality(this) = Len(datas[b]) /\ Len(datas[b]) \in Nat
    <2>1. b \in DOMAIN datas
      BY Zenon
    <2>2. IsFiniteSet(this) /\ Cardinality(this) = Len(datas[b])
      BY <2>1, PositionsAre, ZenonT(30), SMTT(30)
    <2>3. Len(datas[b]) \in Nat
      BY <2>1, SliceNumbers, Zenon
    <2> QED
      BY <2>2, <2>3, Zenon
  <1>4. all \subseteq Stored(datas) /\ rest \subseteq Stored(datas)
    BY <1>1, <1>2, StoredIs, Zenon
  <1>5. IsFiniteSet(all) /\ IsFiniteSet(rest) /\ Cardinality(all) \in Nat /\ Cardinality(rest) \in Nat
    BY <1>4, StoredIs, FS_Subset, FS_CardinalityType, Zenon
  <1>6. this \cap rest = {}
    BY <1>2, SlicesApart, Zenon
  <1>7. all = this \cup rest
    BY <1>1, <1>2, Zenon
  <1> HIDE DEF all, rest, this
  <1>8. Cardinality(this \cup rest) = Cardinality(this) + Cardinality(rest) - Cardinality(this \cap rest)
    BY <1>3, <1>5, FS_Union, Zenon
  <1>9. Cardinality(this \cap rest) = 0
    BY <1>6, FS_EmptySet, Zenon
  <1>10. Cardinality(all) = Len(datas[b]) + Cardinality(rest)
    BY <1>3, <1>5, <1>7, <1>8, <1>9
  <1> QED
    BY <1>5, <1>10, Zenon DEF all, rest

LEMMA TotalLengthIs ==
  ASSUME NEW low \in Nat, NEW high \in Nat, NEW datas, Slices(datas, low, high)
  PROVE  TotalLength(datas) = Cardinality(Stored(datas))
  <1> DEFINE S == DOMAIN datas
             one(T) == CHOOSE b \in T : TRUE
             Sum(f) == f = [T \in SUBSET S |->
                              IF T = {} THEN 0 ELSE Len(datas[one(T)]) + f[T \ {one(T)}]]
             g == [T \in SUBSET S |-> Cardinality(Within(datas, T))]
             sum == CHOOSE f : Sum(f)
             Wrong == {n \in Nat : \E T \in SUBSET S : Cardinality(T) = n /\ sum[T] # g[T]}
  <1>1. TotalLength(datas) = sum[S]
    BY Zenon DEF TotalLength, MapThenSumSet, MapThenFoldSet
  <1>2. \A T \in SUBSET S : T # {} => one(T) \in T
    BY Zenon
  <1> HIDE DEF one
  <1>3. \A T \in SUBSET S : g[T] = Cardinality(Within(datas, T))
    BY Zenon
  <1>4. g[{}] = 0
    <2>1. Within(datas, {}) = {}
      BY Zenon DEF Within
    <2> QED
      BY <1>3, <2>1, FS_EmptySet, Zenon
  <1>5. \A T \in SUBSET S : T # {} => g[T] = Len(datas[one(T)]) + g[T \ {one(T)}]
    <2> SUFFICES ASSUME NEW T \in SUBSET S, T # {}
                 PROVE  g[T] = Len(datas[one(T)]) + g[T \ {one(T)}]
      BY Zenon
    <2>1. one(T) \in T /\ T \ {one(T)} \in SUBSET S /\ T \subseteq DOMAIN datas
      BY <1>2, Zenon
    <2>2. Cardinality(Within(datas, T)) = Len(datas[one(T)]) + Cardinality(Within(datas, T \ {one(T)}))
      <3> DEFINE b == one(T)
      <3>1. b \in T /\ T \subseteq DOMAIN datas
        BY <2>1, Zenon
      <3> HIDE DEF b, S
      <3>2. Cardinality(Within(datas, T)) = Len(datas[b]) + Cardinality(Within(datas, T \ {b}))
        BY <3>1, WithinGrows
      <3> QED
        BY <3>2, Zenon DEF b
    <2> QED
      BY <1>3, <2>1, <2>2, Zenon
  <1>6. Sum(g)
    <2>1. \A T \in SUBSET S : g[T] = IF T = {} THEN 0 ELSE Len(datas[one(T)]) + g[T \ {one(T)}]
      BY <1>4, <1>5, Zenon
    <2>2. g = [T \in SUBSET S |-> g[T]]
      BY Zenon
    <2> HIDE DEF g
    <2> QED
      BY <2>1, <2>2, Zenon
  <1>7. Sum(sum)
    BY <1>6, Zenon
  <1> HIDE DEF g, sum
  <1>8. \A T \in SUBSET S : sum[T] = IF T = {} THEN 0 ELSE Len(datas[one(T)]) + sum[T \ {one(T)}]
    BY <1>7, Zenon
  <1>9. IsFiniteSet(S)
    BY StoredIs, Zenon
  <1>10. Wrong = {}
    <2> SUFFICES ASSUME Wrong # {}
                 PROVE  FALSE
      BY Zenon
    <2>1. PICK n \in Wrong : \A m \in Wrong : n <= m
      BY NatLeast, Zenon
    <2>2. PICK T \in SUBSET S : Cardinality(T) = n /\ sum[T] # g[T]
      BY <2>1, Zenon
    <2>3. T # {}
      BY <1>4, <1>8, <2>2, Zenon
    <2> DEFINE U == T \ {one(T)}
    <2>4. one(T) \in T /\ U \in SUBSET S /\ IsFiniteSet(T)
      BY <1>2, <1>9, <2>3, FS_Subset, Zenon
    <2>5. Cardinality(U) = n - 1 /\ n \in Nat /\ Cardinality(U) \in Nat
      <3>1. /\ IsFiniteSet(U)
            /\ Cardinality(U) = IF one(T) \in T THEN Cardinality(T) - 1 ELSE Cardinality(T)
        BY <2>4, FS_RemoveElement, Zenon
      <3>2. Cardinality(U) \in Nat
        BY <3>1, FS_CardinalityType, Zenon
      <3> QED
        BY <2>1, <2>2, <2>4, <3>1, <3>2, Zenon
    <2>6. sum[U] # g[U]
      BY <1>5, <1>8, <2>2, <2>3, Zenon
    <2> HIDE DEF U
    <2>7. Cardinality(U) \in Wrong
      BY <2>4, <2>5, <2>6, Zenon
    <2>8. n <= Cardinality(U)
      BY <2>1, <2>7, Zenon
    <2> QED
      BY <2>5, <2>8
  <1>11. sum[S] = g[S]
    <2>1. Cardinality(S) \in Nat
      BY <1>9, FS_CardinalityType, Zenon
    <2> QED
      BY <1>10, <2>1, Zenon
  <1>12. Stored(datas) = Within(datas, S)
    BY Zenon DEF Stored, Within
  <1> QED
    BY <1>1, <1>3, <1>11, <1>12, Zenon


-----------------------------------------------------------------------------
(* The lowest numbers of a finite set, and what is left when its highest   *)
(* numbers are taken away.                                                 *)

Below(S, x) == {y \in S : y < x}
From(S, x) == {y \in S : y >= x}
Nearest(S, n) == {x \in S : Cardinality(Below(S, x)) < n}

LEMMA RankSplit ==
  ASSUME NEW S, S \subseteq Nat, IsFiniteSet(S), NEW x \in Nat
  PROVE  /\ Cardinality(Below(S, x)) \in Nat /\ Cardinality(From(S, x)) \in Nat
         /\ IsFiniteSet(Below(S, x)) /\ IsFiniteSet(From(S, x))
         /\ Cardinality(S) \in Nat
         /\ Cardinality(S) = Cardinality(Below(S, x)) + Cardinality(From(S, x))
  <1> DEFINE B == Below(S, x)
             F == From(S, x)
  <1>1. B \subseteq S /\ F \subseteq S
    BY Zenon DEF Below, From
  <1>2. S = B \cup F /\ B \cap F = {}
    <2>1. \A y \in S : (y < x \/ y >= x) /\ ~(y < x /\ y >= x)
      OBVIOUS
    <2> QED
      BY <2>1, Zenon DEF Below, From
  <1> HIDE DEF B, F
  <1>3. IsFiniteSet(B) /\ IsFiniteSet(F)
    BY <1>1, FS_Subset, Zenon
  <1>4. Cardinality(S) = Cardinality(B) + Cardinality(F) - Cardinality(B \cap F)
    BY <1>2, <1>3, FS_Union, Zenon
  <1>5. Cardinality(B) \in Nat /\ Cardinality(F) \in Nat /\ Cardinality(S) \in Nat
    BY <1>3, FS_CardinalityType, Zenon
  <1>6. Cardinality(B \cap F) = 0
    BY <1>2, FS_EmptySet, Zenon
  <1>7. Cardinality(S) = Cardinality(B) + Cardinality(F)
    BY <1>4, <1>5, <1>6
  <1> QED
    BY <1>3, <1>5, <1>7, Zenon DEF B, F

LEMMA RankGrows ==
  ASSUME NEW S, S \subseteq Nat, IsFiniteSet(S), NEW x \in S, NEW y \in Nat, x < y
  PROVE  Cardinality(Below(S, x)) < Cardinality(Below(S, y))
  <1> DEFINE B == Below(S, x)
             C == Below(S, y)
  <1>1. x \in Nat /\ x \notin B /\ B \cup {x} \subseteq C
    <2>1. x \in Nat /\ ~(x < x) /\ \A z \in S : z < x => z < y
      OBVIOUS
    <2> QED
      BY <2>1, Zenon DEF Below
  <1>2. IsFiniteSet(B) /\ IsFiniteSet(C) /\ Cardinality(B) \in Nat /\ Cardinality(C) \in Nat
    BY <1>1, RankSplit, Zenon
  <1> HIDE DEF B, C
  <1>3. /\ IsFiniteSet(B \cup {x})
        /\ Cardinality(B \cup {x}) = IF x \in B THEN Cardinality(B) ELSE Cardinality(B) + 1
    BY <1>2, FS_AddElement, Zenon
  <1>4. Cardinality(B \cup {x}) = Cardinality(B) + 1
    BY <1>1, <1>3, Zenon
  <1>5. Cardinality(B \cup {x}) <= Cardinality(C)
    BY <1>1, <1>2, FS_Subset, Zenon
  <1>6. Cardinality(B) < Cardinality(C)
    BY <1>2, <1>4, <1>5
  <1> QED
    BY <1>6, Zenon DEF B, C

LEMMA NearestAll ==
  ASSUME NEW S, S \subseteq Nat, IsFiniteSet(S), NEW n \in Nat, Cardinality(S) <= n
  PROVE  Nearest(S, n) = S
  <1> SUFFICES ASSUME NEW x \in S
               PROVE  Cardinality(Below(S, x)) < n
    BY Zenon DEF Nearest
  <1>1. /\ Cardinality(Below(S, x)) \in Nat /\ Cardinality(From(S, x)) \in Nat
        /\ Cardinality(S) = Cardinality(Below(S, x)) + Cardinality(From(S, x))
        /\ IsFiniteSet(From(S, x))
    BY RankSplit, Zenon
  <1>2. x \in From(S, x)
    BY DEF From
  <1>3. Cardinality(From(S, x)) # 0
    BY <1>1, <1>2, FS_EmptySet, Zenon
  <1> QED
    BY <1>1, <1>3

LEMMA NearestCount ==
  ASSUME NEW S, S \subseteq Nat, IsFiniteSet(S), NEW n \in 0..Cardinality(S)
  PROVE  IsFiniteSet(Nearest(S, n)) /\ Cardinality(Nearest(S, n)) = n
  <1> DEFINE N == Cardinality(S)
             rank == [x \in S |-> Cardinality(Below(S, x))]
             T == Nearest(S, n)
             f == [x \in T |-> rank[x]]
  <1>1. N \in Nat /\ n \in Nat /\ n <= N
    BY FS_CardinalityType
  <1>2. \A x \in S : rank[x] = Cardinality(Below(S, x)) /\ x \in Nat
    BY Zenon
  <1>3. T = {x \in S : rank[x] < n}
    BY <1>2, Zenon DEF Nearest
  <1>4. \A x \in S : rank[x] \in 0 .. N - 1
    <2> SUFFICES ASSUME NEW x \in S
                 PROVE  rank[x] \in 0 .. N - 1
      BY Zenon
    <2>1. /\ Cardinality(Below(S, x)) \in Nat /\ Cardinality(From(S, x)) \in Nat
          /\ N = Cardinality(Below(S, x)) + Cardinality(From(S, x))
          /\ IsFiniteSet(From(S, x))
      BY <1>2, RankSplit, Zenon
    <2>2. x \in From(S, x)
      BY <1>2 DEF From
    <2>3. Cardinality(From(S, x)) # 0
      BY <2>1, <2>2, FS_EmptySet, Zenon
    <2>4. rank[x] = Cardinality(Below(S, x))
      BY <1>2, Zenon
    <2> HIDE DEF rank, N
    <2> QED
      BY <1>1, <2>1, <2>3, <2>4
  <1>5. \A x, y \in S : rank[x] = rank[y] => x = y
    <2> SUFFICES ASSUME NEW x \in S, NEW y \in S, rank[x] = rank[y], x # y
                 PROVE  FALSE
      BY Zenon
    <2>1. x \in Nat /\ y \in Nat /\ (x < y \/ y < x)
      BY <1>2
    <2>2. x < y => rank[x] < rank[y]
      BY <1>2, RankGrows, Zenon
    <2>3. y < x => rank[y] < rank[x]
      BY <1>2, RankGrows, Zenon
    <2>4. rank[x] \in Int /\ rank[y] \in Int
      BY <1>4
    <2> HIDE DEF rank
    <2> QED
      BY <2>1, <2>2, <2>3, <2>4
  <1>6. rank \in [S -> 0 .. N - 1]
    BY <1>4, Zenon
  <1> HIDE DEF rank
  <1>7. rank \in Injection(S, 0 .. N - 1)
    BY <1>5, <1>6, Zenon DEF Injection, IsInjective
  <1>8. IsFiniteSet(0 .. N - 1) /\ Cardinality(0 .. N - 1) = N
    <2>1. IsFiniteSet(0 .. 0 + N - 1) /\ Cardinality(0 .. 0 + N - 1) = N
      BY <1>1, SpanIs
    <2>2. 0 + N - 1 = N - 1
      BY <1>1
    <2> QED
      BY <2>1, <2>2
  <1>9. rank \in Surjection(S, 0 .. N - 1)
    BY <1>7, <1>8, FS_Injection, Zenon
  <1>10. \A k \in 0 .. N - 1 : \E x \in S : rank[x] = k
    BY <1>9, Zenon DEF Surjection
  <1>11. T \subseteq S /\ IsFiniteSet(T)
    BY <1>3, FS_Subset, Zenon
  <1>12. \A x \in T : f[x] = rank[x] /\ f[x] \in 0 .. n - 1
    <2> SUFFICES ASSUME NEW x \in T
                 PROVE  f[x] = rank[x] /\ f[x] \in 0 .. n - 1
      BY Zenon
    <2>1. f[x] = rank[x] /\ x \in S /\ rank[x] < n
      BY <1>3, Zenon
    <2>2. rank[x] \in 0 .. N - 1
      BY <1>4, <2>1, Zenon
    <2> HIDE DEF f, N
    <2> QED
      BY <1>1, <2>1, <2>2
  <1>13. \A x, y \in T : f[x] = f[y] => x = y
    BY <1>5, <1>11, <1>12, Zenon
  <1>14. \A k \in 0 .. n - 1 : \E x \in T : f[x] = k
    <2> SUFFICES ASSUME NEW k \in 0 .. n - 1
                 PROVE  \E x \in T : f[x] = k
      BY Zenon
    <2>1. k \in 0 .. N - 1 /\ k < n
      BY <1>1
    <2>2. PICK x \in S : rank[x] = k
      BY <1>10, <2>1, Zenon
    <2>3. x \in T
      BY <1>3, <2>1, <2>2, Zenon
    <2> QED
      BY <1>12, <2>2, <2>3, Zenon
  <1>15. f \in [T -> 0 .. n - 1]
    BY <1>12, Zenon
  <1> HIDE DEF f, T
  <1>16. ExistsBijection(T, 0 .. n - 1)
    BY <1>13, <1>14, <1>15, Zenon DEF ExistsBijection, Bijection, Injection, IsInjective, Surjection
  <1>17. Cardinality(0 .. n - 1) = Cardinality(T)
    BY <1>11, <1>16, FS_Bijection, Zenon
  <1>18. Cardinality(0 .. n - 1) = n
    <2>1. Cardinality(0 .. 0 + n - 1) = n
      BY <1>1, SpanIs
    <2>2. 0 + n - 1 = n - 1
      BY <1>1
    <2> QED
      BY <2>1, <2>2
  <1> QED
    BY <1>11, <1>17, <1>18, Zenon DEF T


\* What Discard() leaves of a stored byte depends on how many bytes are
\* stored from it on.
LEMMA AboveIs ==
  ASSUME NEW low \in Nat, NEW high \in Nat, NEW datas, Slices(datas, low, high),
         NEW b \in DOMAIN datas
  PROVE  LET above == TotalLength(Restrict(datas, {c \in DOMAIN datas : c > b}))
             S == Stored(datas)
         IN  /\ above \in Nat
             /\ above = Cardinality(From(S, End(datas, b)))
             /\ \A x \in Positions(datas, b) :
                  Cardinality(From(S, x)) = End(datas, b) - x + above
  <1> DEFINE T == {c \in DOMAIN datas : c > b}
             few == Restrict(datas, T)
             S == Stored(datas)
             e == End(datas, b)
             F == From(S, e)
  <1>1. T \subseteq DOMAIN datas
    BY Zenon
  <1>2. /\ Slices(few, low, high) /\ DOMAIN few = T
        /\ \A c \in T : Positions(few, c) = Positions(datas, c)
    <2> HIDE DEF T
    <2>1. Slices(few, low, high)
      BY <1>1, FewerSlices
    <2>2. DOMAIN few = T
      BY <1>1, FewerSlices
    <2>3. \A c \in T : Positions(few, c) = Positions(datas, c)
      BY <1>1, FewerSlices
    <2> QED
      BY <2>1, <2>2, <2>3, Zenon
  <1>3. b \in Nat /\ e \in Nat /\ b < e /\ S \subseteq Nat
    <2>1. S \subseteq low .. high - 1
      BY StoredIs, Zenon
    <2> QED
      BY <2>1, SliceNumbers
  <1>4. \A x : x \in Stored(few) <=> \E c \in T : x \in Positions(datas, c)
    <2>1. \A x : x \in Stored(few) <=> \E c \in DOMAIN few : x \in Positions(few, c)
      BY <1>2, StoredIs, Zenon
    <2> HIDE DEF few, T
    <2> QED
      BY <1>2, <2>1, Zenon
  <1>5. Stored(few) = F
    <2>1. ASSUME NEW x, NEW c \in T, x \in Positions(datas, c)
          PROVE  x \in F
      <3>1. c \in DOMAIN datas /\ c > b /\ e <= c
        BY <1>3, SliceNumbers DEF Slices
      <3>2. x \in Nat /\ c <= x /\ x \in S
        BY <2>1, <3>1, PositionsAre, StoredIs, Zenon
      <3>3. c \in Nat
        BY <3>1, SliceNumbers, Zenon
      <3> QED
        BY <1>3, <3>1, <3>2, <3>3 DEF From
    <2>2. ASSUME NEW x \in F
          PROVE  \E c \in T : x \in Positions(datas, c)
      <3>1. x \in S /\ x >= e /\ x \in Nat
        BY <1>3, Zenon DEF From
      <3>2. PICK c \in DOMAIN datas : x \in Positions(datas, c)
        BY <3>1, StoredIs, Zenon
      <3>3. c \in Nat /\ x < End(datas, c) /\ End(datas, c) \in Nat
        BY <3>2, SliceNumbers, PositionsAre, Zenon
      <3>4. c < b => End(datas, c) <= b
        BY Zenon DEF Slices
      <3>5. c = b => End(datas, c) = e
        BY Zenon
      <3>6. c > b
        <4> HIDE DEF e
        <4> QED
          BY <1>3, <3>1, <3>3, <3>4, <3>5
      <3> QED
        BY <3>2, <3>6, Zenon
    <2> HIDE DEF T, F, few
    <2> QED
      BY <1>4, <2>1, <2>2, Zenon
  <1>6. TotalLength(few) = Cardinality(F)
    BY <1>2, <1>5, TotalLengthIs, Zenon
  <1>7. IsFiniteSet(S)
    BY StoredIs, Zenon
  <1>8. IsFiniteSet(F) /\ Cardinality(F) \in Nat
    BY <1>3, <1>7, RankSplit, Zenon
  <1>9. ASSUME NEW x \in Positions(datas, b)
        PROVE  Cardinality(From(S, x)) = e - x + Cardinality(F)
    <2> DEFINE n == e - x
               P == x .. x + n - 1
    <2>1. x \in Nat /\ b <= x /\ x < e
      BY PositionsAre, Zenon
    <2>2. n \in Nat /\ x + n - 1 = e - 1
      BY <1>3, <2>1
    <2>3. IsFiniteSet(P) /\ Cardinality(P) = n
      <3> HIDE DEF n
      <3> QED
        BY <2>1, <2>2, SpanIs, Zenon
    <2>4. \A y : y \in P <=> y \in Nat /\ x <= y /\ y < e
      <3> HIDE DEF n, e
      <3> QED
        BY <1>3, <2>1, <2>2
    <2>5. P \subseteq S
      <3>1. \A y \in P : y \in Nat /\ b <= y /\ y < e
        <4> HIDE DEF P, e
        <4> QED
          BY <1>3, <2>1, <2>4
      <3>2. P \subseteq Positions(datas, b)
        BY <3>1, PositionsAre, Zenon
      <3> QED
        BY <3>2, StoredIs, Zenon
    <2>6. From(S, x) = P \cup F /\ P \cap F = {}
      <3>1. \A y \in S : /\ y >= x <=> (x <= y /\ y < e) \/ y >= e
                         /\ ~((x <= y /\ y < e) /\ y >= e)
                         /\ y \in Nat
        <4> HIDE DEF e, S
        <4> QED
          BY <1>3, <2>1
      <3> HIDE DEF P, e, S
      <3> QED
        BY <2>4, <2>5, <3>1, Zenon DEF From
    <2> HIDE DEF P, F, n
    <2>7. Cardinality(P \cup F) = Cardinality(P) + Cardinality(F) - Cardinality(P \cap F)
      BY <1>8, <2>3, FS_Union, Zenon
    <2>8. Cardinality(P \cap F) = 0
      BY <2>6, FS_EmptySet, Zenon
    <2>9. Cardinality(From(S, x)) = n + Cardinality(F)
      BY <1>8, <2>2, <2>3, <2>6, <2>7, <2>8
    <2> QED
      BY <2>9, Zenon DEF n
  <1> HIDE DEF F
  <1>10. /\ TotalLength(few) \in Nat /\ TotalLength(few) = Cardinality(F)
         /\ \A x \in Positions(datas, b) : Cardinality(From(S, x)) = e - x + TotalLength(few)
    BY <1>6, <1>8, <1>9, Zenon
  <1> QED
    BY <1>10, Zenon DEF F

LEMMA DiscardIs ==
  ASSUME NEW low \in Nat, NEW high \in Nat, NEW datas, Slices(datas, low, high),
         NEW n \in Nat
  PROVE  /\ Slices(Discard(datas, n), low, high)
         /\ Stored(Discard(datas, n)) =
              {x \in Stored(datas) : Cardinality(From(Stored(datas), x)) > n}
  <1> DEFINE above(b) == TotalLength(Restrict(datas, {c \in DOMAIN datas : c > b}))
             kept(b) == Len(datas[b]) - Greatest(0, n - above(b))
             T == {c \in DOMAIN datas : kept(c) > 0}
             d == Discard(datas, n)
             S == Stored(datas)
  <1>1. d = [b \in T |-> SubSeq(datas[b], 1, kept(b))]
    BY Zenon DEF Discard
  <1>2. \A b \in DOMAIN datas :
          /\ above(b) \in Nat
          /\ \A x \in Positions(datas, b) : Cardinality(From(S, x)) = End(datas, b) - x + above(b)
    <2> SUFFICES ASSUME NEW b \in DOMAIN datas
                 PROVE  /\ above(b) \in Nat
                        /\ \A x \in Positions(datas, b) :
                             Cardinality(From(S, x)) = End(datas, b) - x + above(b)
      BY Zenon
    <2> QED
      BY AboveIs
  <1> HIDE DEF above
  <1>3. \A b \in DOMAIN datas :
          /\ b \in Nat /\ low <= b /\ Len(datas[b]) \in Nat /\ End(datas, b) \in Nat
          /\ End(datas, b) = b + Len(datas[b]) /\ End(datas, b) <= high
    <2> SUFFICES ASSUME NEW b \in DOMAIN datas
                 PROVE  /\ b \in Nat /\ low <= b /\ Len(datas[b]) \in Nat /\ End(datas, b) \in Nat
                        /\ End(datas, b) = b + Len(datas[b]) /\ End(datas, b) <= high
      BY Zenon
    <2> QED
      BY SliceNumbers
  <1>4. \A b \in DOMAIN datas : /\ kept(b) \in Int /\ kept(b) <= Len(datas[b])
                                /\ \/ n <= above(b) /\ kept(b) = Len(datas[b])
                                   \/ n > above(b) /\ kept(b) = Len(datas[b]) - n + above(b)
    BY <1>2, <1>3, SMTT(30), SMTT(90) DEF Greatest
  <1> HIDE DEF kept
  <1>5. DOMAIN d = T /\ T \subseteq DOMAIN datas /\ \A b \in T : d[b] = SubSeq(datas[b], 1, kept(b))
    BY <1>1, Zenon
  <1>6. \A b \in T : /\ Slice(d[b], b) /\ Len(d[b]) = kept(b)
                     /\ End(d, b) = b + kept(b) /\ End(d, b) <= End(datas, b)
    <2> SUFFICES ASSUME NEW b \in T
                 PROVE  /\ Slice(d[b], b) /\ Len(d[b]) = kept(b)
                        /\ End(d, b) = b + kept(b) /\ End(d, b) <= End(datas, b)
      BY Zenon
    <2> DEFINE q == datas[b]
               m == kept(b)
    <2>1. b \in DOMAIN datas /\ m > 0
      BY Zenon
    <2>2. m \in Int /\ m <= Len(q) /\ Len(q) \in Nat /\ b \in Nat
      BY <1>3, <1>4, <2>1, Zenon
    <2>3. q \in Seq(Nat) /\ \A k \in 1..Len(q) : q[k] = b + k - 1
      BY <2>1, Zenon DEF Slices, Slice, Run
    <2>4. d[b] = SubSeq(q, 1, m)
      BY <1>5, Zenon
    <2>5. End(datas, b) = b + Len(q) /\ End(d, b) = b + Len(d[b])
      BY Zenon DEF End
    <2> HIDE DEF q, m, d
    <2>6. Len(d[b]) = m /\ d[b] \in Seq(Nat) /\ \A k \in 1..m : d[b][k] = q[k]
      BY <2>1, <2>2, <2>3, <2>4, SMTT(30), SMTT(90)
    <2>7. \A k \in 1..m : d[b][k] = b + k - 1
      BY <2>2, <2>3, <2>6
    <2>8. End(d, b) = b + m /\ End(d, b) <= End(datas, b)
      BY <2>2, <2>5, <2>6
    <2> QED
      BY <2>1, <2>6, <2>7, <2>8, Zenon DEF Slice, Run, m
  <1>7. Slices(d, low, high)
    <2>1. \A b \in T : End(d, b) \in Int /\ End(d, b) <= high
      BY <1>3, <1>4, <1>5, <1>6
    <2>2. ASSUME NEW b \in T, NEW c \in T, b < c
          PROVE  End(d, b) <= c
      <3>1. End(datas, b) <= c /\ End(d, b) <= End(datas, b) /\ End(datas, b) \in Nat /\ c \in Nat
        BY <1>3, <1>5, <1>6, <2>2, Zenon DEF Slices
      <3> QED
        BY <2>1, <3>1
    <2>3. T \subseteq low .. high - 1
      BY <1>5, Zenon DEF Slices
    <2> HIDE DEF T, d
    <2> QED
      BY <1>5, <1>6, <2>1, <2>2, <2>3, Zenon DEF Slices
  <1>8. \A x : x \in Stored(d) <=> x \in S /\ Cardinality(From(S, x)) > n
    <2>1. \A x : x \in Stored(d) <=> \E b \in DOMAIN d : x \in Nat /\ b <= x /\ x < End(d, b)
      <3> HIDE DEF d
      <3>1. \A x : x \in Stored(d) <=> \E b \in DOMAIN d : x \in Positions(d, b)
        BY <1>7, StoredIs, Zenon
      <3>2. \A b \in DOMAIN d : \A x : x \in Positions(d, b) <=> x \in Nat /\ b <= x /\ x < End(d, b)
        BY <1>7, PositionsAre, Zenon
      <3> QED
        BY <3>1, <3>2, Zenon
    <2>2. \A x : x \in S <=> \E b \in DOMAIN datas : x \in Positions(datas, b)
      BY StoredIs, Zenon
    <2>3. ASSUME NEW b \in DOMAIN datas, NEW x \in Nat, b <= x
          PROVE  (b \in T /\ x < End(d, b)) <=>
                   (x \in Positions(datas, b) /\ Cardinality(From(S, x)) > n)
      <3> DEFINE e == End(datas, b)
      <3>1. b \in Nat /\ e \in Nat /\ e = b + Len(datas[b]) /\ Len(datas[b]) \in Nat /\ above(b) \in Nat
        BY <1>2, <1>3, Zenon
      <3>2. b \in T => End(d, b) = b + kept(b)
        BY <1>6, Zenon
      <3>3. b \in T <=> kept(b) > 0
        BY Zenon
      <3>4. x \in Positions(datas, b) <=> x < e
        BY <2>3, PositionsAre, Zenon
      <3>5. x \in Positions(datas, b) => Cardinality(From(S, x)) = e - x + above(b)
        BY <1>2, Zenon
      <3>6. /\ kept(b) \in Int /\ kept(b) <= Len(datas[b])
            /\ \/ n <= above(b) /\ kept(b) = Len(datas[b])
               \/ n > above(b) /\ kept(b) = Len(datas[b]) - n + above(b)
        BY <1>4, Zenon
      <3> DEFINE len == Len(datas[b])
                 k == kept(b)
                 a == above(b)
                 inT == b \in T
                 inP == x \in Positions(datas, b)
                 card == Cardinality(From(S, x))
                 end == End(d, b)
      <3> HIDE DEF len, k, a, inT, inP, card, end, e
      <3>7. /\ b \in Nat /\ e \in Nat /\ len \in Nat /\ a \in Nat /\ x \in Nat /\ k \in Int
            /\ e = b + len
            /\ b <= x /\ k <= len
            /\ inT => end = b + k
            /\ inT <=> k > 0
            /\ inP <=> x < e
            /\ inP => card = e - x + a
            /\ \/ n <= a /\ k = len
               \/ n > a /\ k = len - n + a
        BY <2>3, <3>1, <3>2, <3>3, <3>4, <3>5, <3>6, Zenon DEF len, k, a, inT, inP, card, end, e
      <3>8. (inT /\ x < end) <=> (inP /\ card > n)
        BY <3>7
      <3> QED
        BY <3>8, Zenon DEF inT, inP, card, end
    <2>4. \A b \in DOMAIN datas : \A x \in Positions(datas, b) : x \in Nat /\ b <= x
      BY PositionsAre, Zenon
    <2> HIDE DEF T, d, S
    <2> QED
      BY <1>5, <2>1, <2>2, <2>3, <2>4, Zenon
  <1> HIDE DEF d, S
  <1>9. Stored(d) = {x \in S : Cardinality(From(S, x)) > n}
    BY <1>8, Zenon
  <1> QED
    BY <1>7, <1>9, Zenon DEF d, S


LEMMA DiscardKeepsNearest ==
  ASSUME NEW low \in Nat, NEW high \in Nat, NEW datas, Slices(datas, low, high),
         NEW n \in Nat, n <= Cardinality(Stored(datas))
  PROVE  /\ Slices(Discard(datas, n), low, high)
         /\ Stored(Discard(datas, n)) =
              Nearest(Stored(datas), Cardinality(Stored(datas)) - n)
         /\ Cardinality(Stored(Discard(datas, n))) = Cardinality(Stored(datas)) - n
  <1> DEFINE S == Stored(datas)
             N == Cardinality(S)
             d == Discard(datas, n)
  <1>1. S \subseteq Nat /\ IsFiniteSet(S) /\ N \in Nat
    <2>1. S \subseteq low .. high - 1 /\ IsFiniteSet(S) /\ N \in Nat
      BY StoredIs, Zenon
    <2> QED
      BY <2>1
  <1>2. Slices(d, low, high) /\ Stored(d) = {x \in S : Cardinality(From(S, x)) > n}
    BY DiscardIs
  <1> HIDE DEF S, d
  <1>3. ASSUME NEW x \in S
        PROVE  Cardinality(From(S, x)) > n <=> Cardinality(Below(S, x)) < N - n
    <2>1. /\ Cardinality(Below(S, x)) \in Nat /\ Cardinality(From(S, x)) \in Nat
          /\ N = Cardinality(Below(S, x)) + Cardinality(From(S, x))
      BY <1>1, RankSplit, Zenon
    <2> HIDE DEF N
    <2> QED
      BY <1>1, <2>1
  <1>4. Stored(d) = Nearest(S, N - n)
    BY <1>2, <1>3, Zenon DEF Nearest
  <1>5. N - n \in 0..N
    BY <1>1 DEF S
  <1>6. Cardinality(Nearest(S, N - n)) = N - n
    BY <1>1, <1>5, NearestCount, Zenon
  <1> QED
    BY <1>2, <1>4, <1>6, Zenon DEF S, d

-----------------------------------------------------------------------------
(* What is inserted: the ranges that no slice covers.                      *)

LEMMA NeededIs ==
  ASSUME NEW datas, NEW begin \in Nat, NEW end \in Nat
  PROVE  LET missing == (begin .. end - 1) \ Stored(datas)
             needed == NeededRanges(datas, begin, end)
         IN  /\ DOMAIN needed \subseteq missing
             /\ \A b \in DOMAIN needed : /\ needed[b] \in b + 1 .. end
                                         /\ (b .. needed[b] - 1) \subseteq missing
             /\ \A x \in missing : \E b \in DOMAIN needed : b <= x /\ x < needed[b]
             /\ \A b, c \in DOMAIN needed : b < c => needed[b] <= c
  <1> DEFINE missing == (begin .. end - 1) \ Stored(datas)
             starts == {i \in missing : i = begin \/ i - 1 \notin missing}
             needed == NeededRanges(datas, begin, end)
             Ends(b, e) == (b .. e - 1) \subseteq missing /\ e \notin missing
  <1>1. needed = [b \in starts |-> CHOOSE e \in b + 1 .. end : Ends(b, e)]
    BY Zenon DEF NeededRanges
  <1>2. \A x \in missing : x \in Nat /\ begin <= x /\ x < end
    BY Zenon, SMT
  <1>3. end \notin missing
    BY <1>2
  <1> HIDE DEF missing
  <1>4. ASSUME NEW b \in missing
        PROVE  \E e \in b + 1 .. end : Ends(b, e)
    <2> DEFINE T == {e \in b + 1 .. end : e \notin missing}
    <2>1. b \in Nat /\ b < end
      BY <1>2, Zenon
    <2>2. T \subseteq Nat /\ end \in T
      BY <1>3, <2>1
    <2> HIDE DEF T
    <2>3. PICK e \in T : \A y \in T : e <= y
      BY <2>2, NatLeast, Zenon
    <2>4. e \in b + 1 .. end /\ e \notin missing
      BY Zenon DEF T
    <2>5. ASSUME NEW x \in b .. e - 1
          PROVE  x \in missing
      <3>1. x # b => x \in b + 1 .. end /\ ~(e <= x)
        BY <2>1, <2>4
      <3> QED
        BY <2>3, <3>1, Zenon DEF T
    <2> QED
      BY <2>4, <2>5, Zenon
  <1>5. DOMAIN needed = starts /\ starts \subseteq missing
    BY <1>1, Zenon
  <1>6. \A b \in starts : needed[b] \in b + 1 .. end /\ Ends(b, needed[b])
    BY <1>1, <1>4, ZenonT(30)
  <1> HIDE DEF needed
  <1>7. ASSUME NEW x \in missing
        PROVE  \E b \in starts : b <= x /\ x < needed[b]
    <2> DEFINE T == {y \in missing : y <= x /\ (y .. x) \subseteq missing}
    <2>1. x \in Nat /\ T \subseteq Nat /\ x .. x = {x}
      BY <1>2
    <2>2. x \in T
      BY <2>1
    <2> HIDE DEF T
    <2>3. PICK b \in T : \A y \in T : b <= y
      BY <2>1, <2>2, NatLeast, Zenon
    <2>4. b \in missing /\ b <= x /\ (b .. x) \subseteq missing /\ b \in Nat
      BY <2>1, Zenon DEF T
    <2>5. b - 1 \notin missing
      <3> SUFFICES ASSUME b - 1 \in missing
                   PROVE  FALSE
        BY Zenon
      <3>1. b - 1 \in Nat /\ b - 1 <= x /\ ~(b <= b - 1)
        BY <1>2, <2>1, <2>4
      <3>2. \A z \in b - 1 .. x : z = b - 1 \/ z \in b .. x
        BY <2>1, <2>4
      <3>3. (b - 1 .. x) \subseteq missing
        BY <2>4, <3>2, Zenon
      <3> QED
        BY <2>3, <3>1, <3>3, Zenon DEF T
    <2>6. b \in starts
      BY <2>4, <2>5, Zenon
    <2>7. needed[b] \in b + 1 .. end /\ needed[b] \notin missing
      BY <1>6, <2>6, Zenon
    <2>8. x < needed[b]
      <3>1. needed[b] <= x => needed[b] \in b .. x
        BY <2>1, <2>4, <2>7
      <3>2. ~(needed[b] <= x)
        BY <2>4, <2>7, <3>1, Zenon
      <3> QED
        BY <2>1, <2>7, <3>2
    <2> QED
      BY <2>4, <2>6, <2>8, Zenon
  <1>8. ASSUME NEW b \in starts, NEW c \in starts, b < c
        PROVE  needed[b] <= c
    <2>1. b \in Nat /\ begin <= b /\ c \in Nat
      BY <1>2, Zenon
    <2>2. needed[b] \in b + 1 .. end /\ (b .. needed[b] - 1) \subseteq missing
      BY <1>6, Zenon
    <2>3. c = begin \/ c - 1 \notin missing
      BY Zenon
    <2>4. c # begin
      BY <1>8, <2>1
    <2>5. c - 1 \notin b .. needed[b] - 1
      BY <2>2, <2>3, <2>4, Zenon
    <2> QED
      BY <1>8, <2>1, <2>2, <2>5
  <1>9. /\ DOMAIN needed \subseteq missing
        /\ \A b \in DOMAIN needed : needed[b] \in b + 1 .. end /\ (b .. needed[b] - 1) \subseteq missing
        /\ \A x \in missing : \E b \in DOMAIN needed : b <= x /\ x < needed[b]
        /\ \A b, c \in DOMAIN needed : b < c => needed[b] <= c
    <2> HIDE DEF starts
    <2> QED
      BY <1>5, <1>6, <1>7, <1>8, Zenon
  <1> QED
    BY <1>9, Zenon DEF missing, needed

LEMMA WiderSlices ==
  ASSUME NEW low \in Nat, NEW high \in Nat, NEW datas, Slices(datas, low, high),
         NEW lower \in Nat, NEW higher \in Nat, lower <= low, high <= higher
  PROVE  Slices(datas, lower, higher)
  <1>1. DOMAIN datas \subseteq low .. high - 1 /\ low .. high - 1 \subseteq lower .. higher - 1
    BY DEF Slices
  <1>2. \A b \in DOMAIN datas : Slice(datas[b], b)
    BY Zenon DEF Slices
  <1>3. ASSUME NEW b \in DOMAIN datas
        PROVE  End(datas, b) <= higher
    BY SliceNumbers
  <1>4. \A b, c \in DOMAIN datas : b < c => End(datas, b) <= c
    BY Zenon DEF Slices
  <1> QED
    BY <1>1, <1>2, <1>3, <1>4, Zenon DEF Slices


LEMMA EndIs ==
  ASSUME NEW datas, NEW b \in Nat, Len(datas[b]) \in Nat, NEW e, b + Len(datas[b]) = e
  PROVE  End(datas, b) = e /\ Positions(datas, b) = b .. e - 1
  BY DEF End, Positions

LEMMA SubSeqIs ==
  ASSUME NEW q \in Seq(Nat), NEW i \in 1 .. Len(q) + 1, NEW j \in i - 1 .. Len(q)
  PROVE  /\ SubSeq(q, i, j) \in Seq(Nat) /\ Len(SubSeq(q, i, j)) = j - i + 1
         /\ \A k \in 1 .. j - i + 1 : SubSeq(q, i, j)[k] = q[i + k - 1]
  <1>1. i \in Int /\ j \in Int /\ 1 <= i /\ j <= Len(q)
    OBVIOUS
  <1>2. SubSeq(q, i, j) \in Seq(Nat)
    BY <1>1, SMTT(20), SMTT(90)
  <1>3. Len(SubSeq(q, i, j)) = j - i + 1
    BY <1>1, SMTT(20), SMTT(90)
  <1>4. \A k \in 1 .. j - i + 1 : SubSeq(q, i, j)[k] = q[i + k - 1]
    BY <1>1, SMTT(20), SMTT(90)
  <1> QED
    BY <1>2, <1>3, <1>4, Zenon

\* The slices that insert_without_overlap() makes of a substring.
NewSlices(datas, data, index) ==
  LET needed == NeededRanges(datas, index, index + Len(data))
  IN  [b \in DOMAIN needed |-> SubSeq(data, b - index + 1, needed[b] - index)]

LEMMA NewSlicesAre ==
  ASSUME NEW datas, NEW index \in Nat, NEW data \in Seq(Nat), Run(data, index)
  PROVE  /\ Slices(NewSlices(datas, data, index), index, index + Len(data))
         /\ Stored(NewSlices(datas, data, index)) =
              (index .. index + Len(data) - 1) \ Stored(datas)
  <1> DEFINE end == index + Len(data)
             missing == (index .. end - 1) \ Stored(datas)
             needed == NeededRanges(datas, index, end)
             new == NewSlices(datas, data, index)
  <1>1. Len(data) \in Nat /\ end \in Nat
    OBVIOUS
  <1>2. /\ DOMAIN new = DOMAIN needed
        /\ \A b \in DOMAIN needed : new[b] = SubSeq(data, b - index + 1, needed[b] - index)
    BY Zenon DEF NewSlices
  <1>3. /\ DOMAIN needed \subseteq missing
        /\ \A b \in DOMAIN needed : needed[b] \in b + 1 .. end /\ (b .. needed[b] - 1) \subseteq missing
        /\ \A x \in missing : \E b \in DOMAIN needed : b <= x /\ x < needed[b]
        /\ \A b, c \in DOMAIN needed : b < c => needed[b] <= c
    <2> HIDE DEF end
    <2> QED
      BY <1>1, NeededIs, Zenon
  <1> HIDE DEF new, needed
  <1>4. ASSUME NEW b \in DOMAIN needed
        PROVE  /\ b \in index .. end - 1 /\ Slice(new[b], b)
               /\ End(new, b) = needed[b] /\ needed[b] <= end
               /\ Positions(new, b) = b .. needed[b] - 1
    <2> DEFINE e == needed[b]
               q == new[b]
               n == Len(data)
    <2>1. /\ b \in index .. end - 1 /\ b \in Nat /\ e \in Nat /\ n \in Nat
          /\ index <= b /\ b < e /\ e <= index + n /\ e <= end
      <3>1. b \in index .. end - 1 /\ e \in b + 1 .. end
        BY <1>3
      <3> HIDE DEF e
      <3> QED
        BY <1>1, <3>1
    <2>2. q = SubSeq(data, b - index + 1, e - index)
      BY <1>2, Zenon
    <2>3. \A k \in 1..Len(data) : data[k] = index + k - 1
      BY Zenon DEF Run
    <2> HIDE DEF e, q, n, end, missing
    <2>4. /\ q \in Seq(Nat) /\ Len(q) = e - b
          /\ \A k \in 1..Len(q) : q[k] = data[b - index + k]
      <3> DEFINE i == b - index + 1
                 j == e - index
      <3>1. i \in 1 .. n + 1 /\ j \in i - 1 .. n /\ j - i + 1 = e - b
        BY <2>1
      <3>2. ASSUME NEW k \in Nat
            PROVE  i + k - 1 = b - index + k
        <4>1. b \in Int
          BY <2>1
        <4> QED
          BY <4>1
      <3> HIDE DEF i, j
      <3>3. /\ SubSeq(data, i, j) \in Seq(Nat) /\ Len(SubSeq(data, i, j)) = j - i + 1
            /\ \A k \in 1 .. j - i + 1 : SubSeq(data, i, j)[k] = data[i + k - 1]
        BY <3>1, SubSeqIs DEF n
      <3>4. q = SubSeq(data, i, j)
        BY <2>2, Zenon DEF i, j
      <3>5. \A k \in 1 .. e - b : k \in Nat /\ q[k] = data[i + k - 1]
        BY <3>1, <3>3, <3>4
      <3>6. Len(q) = e - b /\ q \in Seq(Nat)
        BY <3>1, <3>3, <3>4
      <3> QED
        BY <3>2, <3>5, <3>6, Zenon
    <2>5. ASSUME NEW k \in 1..Len(q)
          PROVE  q[k] = b + k - 1
      <3>1. q[k] = data[b - index + k]
        BY <2>4, Zenon
      <3>2. k \in 1 .. e - b
        BY <2>4, Zenon
      <3>3. b - index + k \in 1..n
        BY <2>1, <3>2
      <3>4. q[k] = index + (b - index + k) - 1
        BY <2>3, <3>1, <3>3, Zenon DEF n
      <3> QED
        BY <2>1, <3>2, <3>4
    <2>6. Len(q) > 0 /\ b + Len(q) = e /\ e <= end
      <3>1. Len(q) = e - b
        BY <2>4, Zenon
      <3> QED
        BY <2>1, <3>1
    <2>7. Slice(q, b)
      BY <2>4, <2>5, <2>6, Zenon DEF Slice, Run
    <2>8. b + Len(new[b]) = needed[b]
      BY <2>6, Zenon DEF e, q
    <2>9. End(new, b) = needed[b] /\ Positions(new, b) = b .. needed[b] - 1
      <3>1. b \in Nat /\ Len(new[b]) \in Nat
        BY <2>1, <2>4 DEF q
      <3> QED
        BY <2>8, <3>1, EndIs, Zenon
    <2> QED
      BY <2>1, <2>7, <2>9, Zenon DEF e, q
  <1>5. Slices(new, index, end)
    <2> HIDE DEF end, missing
    <2>1. DOMAIN new \subseteq index .. end - 1
      BY <1>2, <1>4, Zenon
    <2> QED
      BY <1>2, <1>3, <1>4, <2>1, Zenon DEF Slices
  <1>6. \A x : x \in Stored(new) <=> \E b \in DOMAIN needed : x \in b .. needed[b] - 1
    BY <1>2, <1>4, Zenon DEF Stored
  <1>7. ASSUME NEW x \in missing
        PROVE  \E b \in DOMAIN needed : x \in b .. needed[b] - 1
    <2>1. PICK b \in DOMAIN needed : b <= x /\ x < needed[b]
      BY <1>3, Zenon
    <2>2. b \in index .. end - 1 /\ needed[b] \in b + 1 .. end /\ x \in index .. end - 1
      BY <1>3, <1>4, Zenon
    <2>3. x \in b .. needed[b] - 1
      BY <1>1, <2>1, <2>2
    <2> QED
      BY <2>3, Zenon
  <1> HIDE DEF missing, end
  <1>8. Stored(new) = missing
    BY <1>3, <1>6, <1>7, Zenon
  <1> QED
    BY <1>5, <1>8 DEF new, missing, end

\* Slices that hold different bytes can be put together.
LEMMA InsertedAre ==
  ASSUME NEW low \in Nat, NEW high \in Nat, NEW old, Slices(old, low, high),
         NEW new, Slices(new, low, high), Stored(old) \cap Stored(new) = {}
  PROVE  /\ Slices(Inserted(old, new), low, high)
         /\ Stored(Inserted(old, new)) = Stored(old) \cup Stored(new)
  <1> DEFINE all == Inserted(old, new)
  <1>1. \A b \in DOMAIN old : b \in Stored(old)
    BY StoredIs, Zenon
  <1>2. \A b \in DOMAIN new : b \in Stored(new) /\ b \notin DOMAIN old
    BY <1>1, StoredIs, Zenon
  <1>3. /\ DOMAIN all = DOMAIN old \cup DOMAIN new
        /\ \A b \in DOMAIN old : all[b] = old[b]
        /\ \A b \in DOMAIN new : all[b] = new[b]
    BY <1>2, Zenon DEF Inserted
  <1> HIDE DEF all
  <1>4. /\ \A b \in DOMAIN old : End(all, b) = End(old, b) /\ Positions(all, b) = Positions(old, b)
        /\ \A b \in DOMAIN new : End(all, b) = End(new, b) /\ Positions(all, b) = Positions(new, b)
    BY <1>3, Zenon DEF End, Positions
  <1>5. Stored(all) = Stored(old) \cup Stored(new)
    <2>1. \A x : x \in Stored(all) <=> \E b \in DOMAIN all : x \in Positions(all, b)
      BY Zenon DEF Stored
    <2>2. \A x : x \in Stored(old) <=> \E b \in DOMAIN old : x \in Positions(old, b)
      BY Zenon DEF Stored
    <2>3. \A x : x \in Stored(new) <=> \E b \in DOMAIN new : x \in Positions(new, b)
      BY Zenon DEF Stored
    <2>4. ASSUME NEW x \in Stored(all)
          PROVE  x \in Stored(old) \/ x \in Stored(new)
      <3>1. PICK b \in DOMAIN all : x \in Positions(all, b)
        BY <2>1, Zenon
      <3> QED
        BY <1>3, <1>4, <2>2, <2>3, <3>1, Zenon
    <2>5. ASSUME NEW x, x \in Stored(old) \/ x \in Stored(new)
          PROVE  x \in Stored(all)
      BY <1>3, <1>4, <2>1, <2>2, <2>3, <2>5, Zenon
    <2> QED
      BY <2>4, <2>5, Zenon
  <1>6. DOMAIN all \subseteq low .. high - 1
    BY <1>3, Zenon DEF Slices
  <1>7. \A b \in DOMAIN all : Slice(all[b], b) /\ End(all, b) <= high
    BY <1>3, <1>4, Zenon DEF Slices
  <1>8. ASSUME NEW b \in DOMAIN old, NEW c \in DOMAIN new
        PROVE  /\ b < c => End(old, b) <= c
               /\ c < b => End(new, c) <= b
    <2>1. b \in Nat /\ c \in Nat /\ End(old, b) \in Nat /\ End(new, c) \in Nat
      BY SliceNumbers, Zenon
    <2>2. c \notin Positions(old, b) /\ b \notin Positions(new, c)
      BY <1>1, <1>2, StoredIs, Zenon
    <2>3. ~(b <= c /\ c < End(old, b))
      BY <2>1, <2>2, PositionsAre, Zenon
    <2>4. ~(c <= b /\ b < End(new, c))
      BY <2>1, <2>2, PositionsAre, Zenon
    <2> QED
      BY <2>1, <2>3, <2>4
  <1>9. ASSUME NEW b \in DOMAIN all, NEW c \in DOMAIN all, b < c
        PROVE  End(all, b) <= c
    <2>1. CASE b \in DOMAIN old /\ c \in DOMAIN old
      BY <1>4, <1>9, <2>1, Zenon DEF Slices
    <2>2. CASE b \in DOMAIN new /\ c \in DOMAIN new
      BY <1>4, <1>9, <2>2, Zenon DEF Slices
    <2>3. CASE b \in DOMAIN old /\ c \in DOMAIN new
      BY <1>4, <1>8, <1>9, <2>3, Zenon
    <2>4. CASE b \in DOMAIN new /\ c \in DOMAIN old
      BY <1>4, <1>8, <1>9, <2>4, Zenon
    <2> QED
      BY <1>3, <2>1, <2>2, <2>3, <2>4, Zenon
  <1>10. Slices(all, low, high)
    BY <1>6, <1>7, <1>9, Zenon DEF Slices
  <1> QED
    BY <1>5, <1>10, Zenon DEF all


-----------------------------------------------------------------------------
(* The output and the reassembler.  Exact: the output has taken the bytes  *)
(* before next, in order.  Ready holds between any two statements of       *)
(* push_substring() once the end is noted; Settled when it returns: no     *)
(* slice begins at the gap.                                                *)

IsStream(s) ==
  s \in [capacity : {s.capacity}, queue : {s.queue}, bytes_written : {s.bytes_written},
         bytes_read : {s.bytes_read}, input_ended : {s.input_ended}, error : {s.error}]

Exact(s, capacity, next) ==
  /\ IsStream(s)
  /\ s.capacity = capacity /\ s.queue \in Seq(Nat) /\ s.bytes_read \in Nat
  /\ s.bytes_written = next /\ s.bytes_read + Len(s.queue) = next
  /\ Len(s.queue) <= capacity /\ Run(s.queue, s.bytes_read)
  /\ s.input_ended \in BOOLEAN

IsReassembler(r) ==
  r \in [output : {r.output}, datas : {r.datas}, unasm_bytes : {r.unasm_bytes},
         next_index : {r.next_index}, eof : {r.eof}, eof_index : {r.eof_index}]

Open(r, capacity, length) ==
  /\ IsReassembler(r)
  /\ r.next_index \in 0..length
  /\ Exact(r.output, capacity, r.next_index)
  /\ Slices(r.datas, r.next_index, length)
  /\ r.unasm_bytes = Cardinality(Stored(r.datas))
  /\ r.unasm_bytes + Len(r.output.queue) <= capacity
  /\ r.eof \in BOOLEAN /\ (r.eof => r.eof_index = length)
  /\ r.output.input_ended => r.eof /\ r.next_index = length

Ready(r, capacity, length) ==
  /\ Open(r, capacity, length)
  /\ r.eof /\ r.next_index = length => r.output.input_ended

Settled(r, capacity, length) ==
  Ready(r, capacity, length) /\ r.next_index \notin DOMAIN r.datas

LEMMA ConcatIs ==
  ASSUME NEW p \in Seq(Nat), NEW q \in Seq(Nat)
  PROVE  /\ p \o q \in Seq(Nat) /\ Len(p \o q) = Len(p) + Len(q)
         /\ \A k \in 1..Len(p) : (p \o q)[k] = p[k]
         /\ \A k \in Len(p) + 1 .. Len(p) + Len(q) : (p \o q)[k] = q[k - Len(p)]
  OBVIOUS

LEMMA WriteIs ==
  ASSUME NEW capacity \in Nat, NEW next \in Nat, NEW s, Exact(s, capacity, next),
         NEW data \in Seq(Nat), Run(data, next), Len(data) <= RemainingCapacity(s)
  PROVE  /\ Exact(WriteStream(s, data), capacity, next + Len(data))
         /\ WriteStream(s, data).bytes_read = s.bytes_read
         /\ WriteStream(s, data).input_ended = s.input_ended
         /\ Len(WriteStream(s, data).queue) = Len(s.queue) + Len(data)
  <1> DEFINE q == s.queue
             room == RemainingCapacity(s)
             count == Least(Len(data), room)
             t == WriteStream(s, data)
             all == q \o SubSeq(data, 1, count)
  <1>1. /\ IsStream(s) /\ s.capacity = capacity /\ q \in Seq(Nat) /\ s.bytes_read \in Nat
        /\ s.bytes_written = next /\ s.bytes_read + Len(q) = next
        /\ Len(q) <= capacity /\ Run(q, s.bytes_read) /\ s.input_ended \in BOOLEAN
    BY Zenon DEF Exact
  <1>2. room = capacity - Len(q) /\ Len(q) \in Nat /\ Len(data) \in Nat /\ Len(data) <= room
    BY <1>1 DEF RemainingCapacity, BufferSize
  <1>3. count = Len(data)
    <2> HIDE DEF room
    <2> QED
      BY <1>2 DEF Least
  <1>4. t = [s EXCEPT !.queue = all, !.bytes_written = s.bytes_written + count]
    BY Zenon DEF WriteStream
  <1>5. /\ IsStream(t) /\ t.capacity = s.capacity /\ t.queue = all
        /\ t.bytes_written = s.bytes_written + count /\ t.bytes_read = s.bytes_read
        /\ t.input_ended = s.input_ended
    <2> HIDE DEF all, count, t
    <2> QED
      BY <1>1, <1>4, Zenon DEF IsStream
  <1>6. SubSeq(data, 1, count) \in Seq(Nat) /\ Len(SubSeq(data, 1, count)) = Len(data)
        /\ \A k \in 1..Len(data) : SubSeq(data, 1, count)[k] = data[k]
    <2> HIDE DEF count
    <2> QED
      BY <1>2, <1>3
  <1> DEFINE sub == SubSeq(data, 1, count)
  <1> HIDE DEF sub
  <1>7. /\ all \in Seq(Nat) /\ Len(all) = Len(q) + Len(data)
        /\ \A k \in 1..Len(q) : all[k] = q[k]
        /\ \A k \in Len(q) + 1 .. Len(q) + Len(data) : all[k] = data[k - Len(q)]
    <2>1. all = q \o sub
      BY Zenon DEF sub
    <2>2. sub \in Seq(Nat) /\ Len(sub) = Len(data) /\ \A k \in 1..Len(data) : sub[k] = data[k]
      BY <1>6, Zenon DEF sub
    <2> HIDE DEF all, q
    <2>3. /\ all \in Seq(Nat) /\ Len(all) = Len(q) + Len(sub)
          /\ \A k \in 1..Len(q) : all[k] = q[k]
          /\ \A k \in Len(q) + 1 .. Len(q) + Len(sub) : all[k] = sub[k - Len(q)]
      BY <1>1, <2>1, <2>2, ConcatIs, Zenon
    <2>4. \A k \in Len(q) + 1 .. Len(q) + Len(data) : k - Len(q) \in 1..Len(data)
      BY <1>2
    <2> QED
      BY <2>2, <2>3, <2>4, Zenon
  <1>8. Run(all, s.bytes_read)
    <2> SUFFICES ASSUME NEW k \in 1..Len(all)
                 PROVE  all[k] = s.bytes_read + k - 1
      BY Zenon DEF Run
    <2> HIDE DEF all, q
    <2>1. CASE k \in 1..Len(q)
      BY <1>1, <1>7, <2>1, Zenon DEF Run
    <2>2. CASE k \in Len(q) + 1 .. Len(q) + Len(data)
      <3>1. k - Len(q) \in 1..Len(data) /\ k \in Nat
        BY <1>2, <2>2
      <3>2. data[k - Len(q)] = next + (k - Len(q)) - 1
        BY <3>1, Zenon DEF Run
      <3>3. all[k] = next + (k - Len(q)) - 1
        BY <1>7, <2>2, <3>2, Zenon
      <3> DEFINE from == s.bytes_read
                 len == Len(q)
      <3>4. from + len = next /\ from \in Nat /\ len \in Nat
        BY <1>1, <1>2, Zenon
      <3> HIDE DEF from, len
      <3>5. next + (k - len) - 1 = from + k - 1
        BY <3>1, <3>4
      <3> QED
        BY <3>3, <3>5, Zenon DEF from, len
    <2>3. k \in 1..Len(q) \/ k \in Len(q) + 1 .. Len(q) + Len(data)
      <3>1. k \in 1 .. Len(q) + Len(data)
        BY <1>7, Zenon
      <3> QED
        BY <1>2, <3>1
    <2> QED
      BY <2>1, <2>2, <2>3, Zenon
  <1>9. /\ Len(t.queue) = Len(q) + Len(data) /\ Len(t.queue) <= capacity
        /\ t.bytes_written = next + Len(data) /\ t.bytes_read + Len(t.queue) = next + Len(data)
    <2> DEFINE from == s.bytes_read
               len == Len(q)
               more == Len(data)
    <2>1. /\ Len(t.queue) = len + more /\ t.bytes_written = next + more /\ t.bytes_read = from
          /\ from + len = next /\ from \in Nat /\ len \in Nat /\ more \in Nat
          /\ more <= room /\ room = capacity - len
      <3> HIDE DEF all, q, t, count, room
      <3> QED
        BY <1>1, <1>2, <1>3, <1>5, <1>7, Zenon
    <2> HIDE DEF t, from, len, more, room
    <2>2. /\ len + more <= capacity /\ from + (len + more) = next + more
      BY <2>1
    <2> QED
      BY <2>1, <2>2, Zenon DEF len, more
  <1> HIDE DEF t, q, all, count
  <1>10. Exact(t, capacity, next + Len(data))
    BY <1>1, <1>5, <1>7, <1>8, <1>9, Zenon DEF Exact
  <1> QED
    BY <1>5, <1>9, <1>10, Zenon DEF t, q


\* The reassemblers differ at most in whether the output has ended.
Alike(r, t) ==
  /\ t.datas = r.datas /\ t.unasm_bytes = r.unasm_bytes /\ t.next_index = r.next_index
  /\ t.eof = r.eof /\ t.eof_index = r.eof_index
  /\ t.output.queue = r.output.queue /\ t.output.bytes_read = r.output.bytes_read

LEMMA CheckEofIs ==
  ASSUME NEW capacity \in Nat, NEW length \in Nat, NEW r, Open(r, capacity, length)
  PROVE  Ready(check_eof(r), capacity, length) /\ Alike(r, check_eof(r))
  <1> DEFINE t == check_eof(r)
             s == EndInput(r.output)
  <1>1. /\ IsReassembler(r) /\ Exact(r.output, capacity, r.next_index)
        /\ r.eof \in BOOLEAN /\ (r.eof => r.eof_index = length)
    BY Zenon DEF Open
  <1>2. CASE r.eof /\ r.next_index = r.eof_index
    <2>1. t = [r EXCEPT !.output = s]
      BY <1>2, Zenon DEF check_eof
    <2>2. s = [r.output EXCEPT !.input_ended = TRUE]
      BY Zenon DEF EndInput
    <2> HIDE DEF s, t
    <2>3. /\ IsStream(s) /\ s.capacity = r.output.capacity /\ s.queue = r.output.queue
          /\ s.bytes_written = r.output.bytes_written /\ s.bytes_read = r.output.bytes_read
          /\ s.input_ended = TRUE
      BY <1>1, <2>2, Zenon DEF IsStream, Exact
    <2>4. Exact(s, capacity, r.next_index)
      BY <1>1, <2>3, Zenon DEF Exact
    <2>5. /\ IsReassembler(t) /\ t.output = s /\ t.datas = r.datas /\ t.unasm_bytes = r.unasm_bytes
          /\ t.next_index = r.next_index /\ t.eof = r.eof /\ t.eof_index = r.eof_index
      BY <1>1, <2>1, Zenon DEF IsReassembler
    <2>6. r.next_index = length
      BY <1>1, <1>2, Zenon
    <2>7. Open(t, capacity, length) /\ t.output.input_ended
      BY <1>2, <2>3, <2>4, <2>5, <2>6, Zenon DEF Open
    <2>8. Alike(r, t)
      BY <2>3, <2>5, Zenon DEF Alike
    <2> QED
      BY <2>7, <2>8, Zenon DEF Ready, t
  <1>3. CASE ~(r.eof /\ r.next_index = r.eof_index)
    <2>1. t = r
      BY <1>3, Zenon DEF check_eof
    <2>2. ~(r.eof /\ r.next_index = length)
      BY <1>1, <1>3, Zenon
    <2> HIDE DEF t
    <2> QED
      BY <2>1, <2>2, Zenon DEF Ready, Alike, t
  <1> QED
    BY <1>2, <1>3, Zenon

\* From r to t, slices at the gap were written to the output.
Advanced(r, t, capacity, length) ==
  /\ Ready(t, capacity, length)
  /\ r.next_index <= t.next_index
  /\ (r.next_index .. t.next_index - 1) \subseteq Stored(r.datas)
  /\ Stored(t.datas) = Stored(r.datas) \ (r.next_index .. t.next_index - 1)
  /\ t.output.bytes_read = r.output.bytes_read
  /\ t.eof = r.eof

LEMMA AdvancedTwice ==
  ASSUME NEW capacity \in Nat, NEW length \in Nat, NEW r, NEW t, NEW u,
         Ready(r, capacity, length), Advanced(r, t, capacity, length), Advanced(t, u, capacity, length)
  PROVE  Advanced(r, u, capacity, length)
  <1> DEFINE a == r.next_index
             b == t.next_index
             c == u.next_index
  <1>1. a \in Nat /\ b \in Nat /\ c \in Nat
    <2>1. a \in 0..length /\ b \in 0..length /\ c \in 0..length
      BY Zenon DEF Advanced, Ready, Open
    <2> QED
      BY <2>1
  <1>2. a <= b /\ b <= c
    BY Zenon DEF Advanced
  <1> HIDE DEF a, b, c
  <1>3. /\ a <= c /\ (a .. c - 1) = (a .. b - 1) \cup (b .. c - 1)
    BY <1>1, <1>2
  <1>4. /\ (a .. b - 1) \subseteq Stored(r.datas)
        /\ Stored(t.datas) = Stored(r.datas) \ (a .. b - 1)
        /\ (b .. c - 1) \subseteq Stored(t.datas)
        /\ Stored(u.datas) = Stored(t.datas) \ (b .. c - 1)
    BY Zenon DEF Advanced, a, b, c
  <1>5. /\ (a .. c - 1) \subseteq Stored(r.datas)
        /\ Stored(u.datas) = Stored(r.datas) \ (a .. c - 1)
    BY <1>3, <1>4, Zenon
  <1> QED
    BY <1>3, <1>5, Zenon DEF Advanced, a, c


\* The slice at the gap is taken out.
LEMMA WithoutFirst ==
  ASSUME NEW low \in Nat, NEW high \in Nat, NEW datas, Slices(datas, low, high),
         low \in DOMAIN datas
  PROVE  LET few == Without(datas, low)
             e == End(datas, low)
         IN  /\ e \in Nat /\ e <= high /\ low < e /\ Slices(few, e, high)
             /\ DOMAIN few = DOMAIN datas \ {low}
             /\ (low .. e - 1) \subseteq Stored(datas)
             /\ Stored(few) = Stored(datas) \ (low .. e - 1)
             /\ Cardinality(Stored(few)) = Cardinality(Stored(datas)) - (e - low)
             /\ Cardinality(Stored(datas)) \in Nat /\ Cardinality(Stored(few)) \in Nat
  <1> DEFINE T == DOMAIN datas \ {low}
             few == Without(datas, low)
             e == End(datas, low)
             P == Positions(datas, low)
  <1>1. e \in Nat /\ e <= high /\ low < e /\ e = low + Len(datas[low]) /\ Len(datas[low]) \in Nat
    BY SliceNumbers
  <1>2. P = low .. e - 1
    BY <1>1, EndIs, Zenon
  <1>3. T \subseteq DOMAIN datas
    BY Zenon
  <1>4. few = Restrict(datas, T)
    BY Zenon DEF Without
  <1>5. /\ DOMAIN few = T /\ Slices(few, low, high)
        /\ \A b \in T : /\ few[b] = datas[b] /\ End(few, b) = End(datas, b)
                        /\ Positions(few, b) = Positions(datas, b)
    <2> HIDE DEF T, few
    <2>1. /\ DOMAIN few = T
          /\ \A b \in T : /\ few[b] = datas[b] /\ End(few, b) = End(datas, b)
                          /\ Positions(few, b) = Positions(datas, b)
      BY <1>3, <1>4, FewerSlices
    <2>2. Slices(few, low, high)
      BY <1>3, <1>4, FewerSlices
    <2> QED
      BY <2>1, <2>2, Zenon
  <1>6. Slices(few, e, high)
    <2>1. ASSUME NEW b \in T
          PROVE  b \in e .. high - 1
      <3>1. b \in DOMAIN datas /\ b # low /\ b \in low .. high - 1
        BY Zenon DEF Slices
      <3>2. low < b => e <= b
        BY <3>1, Zenon DEF Slices
      <3> HIDE DEF e
      <3> QED
        BY <1>1, <3>1, <3>2
    <2>2. DOMAIN few \subseteq e .. high - 1
      BY <1>5, <2>1, Zenon
    <2> HIDE DEF few, e
    <2> QED
      BY <1>5, <2>2, Zenon DEF Slices
  <1>7. /\ \A x : x \in Stored(datas) <=> \E b \in DOMAIN datas : x \in Positions(datas, b)
        /\ Cardinality(Stored(datas)) \in Nat
    BY StoredIs, Zenon
  <1>8. \A x : x \in Stored(few) <=> \E b \in T : x \in Positions(datas, b)
    <2> HIDE DEF few, T
    <2> QED
      BY <1>5, Zenon DEF Stored
  <1>9. P \subseteq Stored(datas) /\ Stored(few) = Stored(datas) \ P
    <2>1. \A b \in T : P \cap Positions(datas, b) = {}
      BY SlicesApart, Zenon
    <2> HIDE DEF few, P
    <2>2. P \subseteq Stored(datas)
      BY <1>7, Zenon DEF P
    <2>3. ASSUME NEW x \in Stored(few)
          PROVE  x \in Stored(datas) /\ x \notin P
      BY <1>7, <1>8, <2>1, Zenon
    <2>4. ASSUME NEW x \in Stored(datas), x \notin P
          PROVE  x \in Stored(few)
      BY <1>7, <1>8, <2>4, Zenon DEF P
    <2> QED
      BY <2>2, <2>3, <2>4, Zenon
  <1>10. Cardinality(Stored(datas)) = Len(datas[low]) + Cardinality(Stored(few))
    <2>1. Stored(datas) = Within(datas, DOMAIN datas)
      BY Zenon DEF Stored, Within
    <2>2. Stored(few) = Within(datas, T)
      <3>1. \A x : x \in Within(datas, T) <=> \E b \in T : x \in Positions(datas, b)
        BY Zenon DEF Within
      <3> HIDE DEF few, T
      <3> QED
        BY <1>8, <3>1, Zenon
    <2> DEFINE D == DOMAIN datas
    <2>3. D \subseteq DOMAIN datas /\ low \in D
      BY Zenon
    <2> HIDE DEF D
    <2>4. Cardinality(Within(datas, D)) = Len(datas[low]) + Cardinality(Within(datas, D \ {low}))
      BY <2>3, WithinGrows
    <2> QED
      BY <2>1, <2>2, <2>4, Zenon DEF D
  <1>11. Cardinality(Stored(few)) \in Nat
    <2> HIDE DEF few, e
    <2> QED
      BY <1>5, StoredIs, Zenon
  <1> DEFINE N == Cardinality(Stored(datas))
             n == Cardinality(Stored(few))
             len == Len(datas[low])
  <1>12. n = N - (e - low)
    <2>1. N = len + n /\ n \in Nat /\ e = low + len /\ len \in Nat
      BY <1>1, <1>10, <1>11, Zenon
    <2> HIDE DEF N, n, len, e
    <2> QED
      BY <2>1
  <1> HIDE DEF few, e, P
  <1>13. /\ e \in Nat /\ e <= high /\ low < e /\ Slices(few, e, high)
         /\ DOMAIN few = DOMAIN datas \ {low}
         /\ (low .. e - 1) \subseteq Stored(datas)
         /\ Stored(few) = Stored(datas) \ (low .. e - 1)
         /\ Cardinality(Stored(few)) = Cardinality(Stored(datas)) - (e - low)
         /\ Cardinality(Stored(datas)) \in Nat /\ Cardinality(Stored(few)) \in Nat
    BY <1>1, <1>2, <1>5, <1>6, <1>7, <1>9, <1>11, <1>12, Zenon
  <1> QED
    BY <1>13, Zenon DEF few, e


LEMMA AssembleIs ==
  ASSUME NEW capacity \in Nat, NEW length \in Nat, NEW r, Ready(r, capacity, length)
  PROVE  /\ Advanced(r, Assemble(r), capacity, length)
         /\ r.next_index \notin DOMAIN r.datas => Assemble(r) = r
         /\ r.next_index \in DOMAIN r.datas =>
              DOMAIN Assemble(r).datas = DOMAIN r.datas \ {r.next_index}
  <1> DEFINE b == r.next_index
             datas == r.datas
             data == datas[b]
             room == RemainingCapacity(r.output)
             S == Stored(datas)
  <1>1. /\ IsReassembler(r) /\ b \in 0..length /\ Exact(r.output, capacity, b)
        /\ Slices(datas, b, length) /\ r.unasm_bytes = Cardinality(S)
        /\ r.unasm_bytes + Len(r.output.queue) <= capacity
        /\ r.eof \in BOOLEAN /\ (r.eof => r.eof_index = length)
        /\ r.output.input_ended => r.eof /\ b = length
    BY Zenon DEF Ready, Open
  <1>2. b \in Nat /\ b <= length
    BY <1>1
  <1>3. CASE b \notin DOMAIN datas
    <2>1. Assemble(r) = r
      BY <1>3, Zenon DEF Assemble
    <2>2. b <= b /\ (b .. b - 1) = {}
      BY <1>2
    <2>3. (b .. b - 1) \subseteq S /\ S = S \ (b .. b - 1)
      BY <2>2, Zenon
    <2>4. Advanced(r, r, capacity, length)
      BY <2>2, <2>3, Zenon DEF Advanced
    <2> QED
      BY <1>3, <2>1, <2>4, Zenon
  <1>4. CASE b \in DOMAIN datas
    <2> DEFINE few == Without(datas, b)
               e == End(datas, b)
               w == WriteStream(r.output, data)
               mid == [r EXCEPT !.output = w, !.unasm_bytes = r.unasm_bytes - Len(data),
                                !.next_index = b + Len(data), !.datas = few]
               N == Cardinality(S)
               n == Cardinality(Stored(few))
               len == Len(data)
               used == Len(r.output.queue)
    <2>1. /\ e \in Nat /\ e <= length /\ b < e /\ Slices(few, e, length)
          /\ DOMAIN few = DOMAIN datas \ {b}
          /\ (b .. e - 1) \subseteq S
          /\ Stored(few) = S \ (b .. e - 1)
          /\ n = N - (e - b)
          /\ N \in Nat /\ n \in Nat
      <3> HIDE DEF b, datas
      <3> QED
        BY <1>1, <1>2, <1>4, WithoutFirst, Zenon
    <2>2. e = b + len /\ data \in Seq(Nat) /\ Run(data, b) /\ len \in Nat
      <3>1. Slice(data, b)
        BY <1>1, <1>4, Zenon DEF Slices
      <3>2. data \in Seq(Nat) /\ Run(data, b)
        BY <3>1, Zenon DEF Slice
      <3>3. e = b + len
        BY Zenon DEF End
      <3> HIDE DEF data
      <3> QED
        BY <3>2, <3>3
    <2>3. /\ used \in Nat /\ room = capacity - used /\ N + used <= capacity
      <3>1. r.output.queue \in Seq(Nat) /\ r.output.capacity = capacity
        BY <1>1, Zenon DEF Exact
      <3>2. used \in Nat
        BY <3>1
      <3>3. room = capacity - used
        BY <3>1, Zenon DEF RemainingCapacity, BufferSize
      <3> QED
        BY <1>1, <3>2, <3>3, Zenon
    <2>4. len <= room
      <3> HIDE DEF e, N, n, len, used, room, b
      <3> QED
        BY <1>2, <2>1, <2>2, <2>3, SMTT(30), SMTT(90)
    <2>5. Assemble(r) = check_eof(mid)
      BY <1>4, <2>4, Zenon DEF Assemble
    <2>6. /\ Exact(w, capacity, b + len) /\ w.bytes_read = r.output.bytes_read
          /\ w.input_ended = r.output.input_ended /\ Len(w.queue) = used + len
      <3> DEFINE o == r.output
      <3> HIDE DEF data, b, o
      <3>1. /\ Len(data) <= RemainingCapacity(o) /\ Exact(o, capacity, b) /\ b \in Nat
            /\ data \in Seq(Nat) /\ Run(data, b)
        BY <1>1, <1>2, <2>2, <2>4, Zenon DEF o
      <3>2. /\ Exact(WriteStream(o, data), capacity, b + Len(data))
            /\ WriteStream(o, data).bytes_read = o.bytes_read
            /\ WriteStream(o, data).input_ended = o.input_ended
            /\ Len(WriteStream(o, data).queue) = Len(o.queue) + Len(data)
        BY <3>1, WriteIs
      <3> QED
        BY <3>2, Zenon DEF o
    <2>7. /\ IsReassembler(mid) /\ mid.output = w /\ mid.unasm_bytes = r.unasm_bytes - len
          /\ mid.next_index = b + len /\ mid.datas = few /\ mid.eof = r.eof
          /\ mid.eof_index = r.eof_index
      <3> HIDE DEF w, few, data
      <3>1. IsReassembler(r)
        BY <1>1, Zenon
      <3> QED
        BY <3>1, Zenon DEF IsReassembler
    <2>8. /\ e \in 0..length /\ N - len = n /\ n + (used + len) <= capacity /\ b # length
          /\ b <= e
      <3> HIDE DEF e, N, n, len, used, room, b
      <3> QED
        BY <1>2, <2>1, <2>2, <2>3
    <2> HIDE DEF mid
    <2>9. Open(mid, capacity, length)
      <3>1. mid.next_index = e /\ mid.unasm_bytes = n
        BY <1>1, <2>2, <2>7, <2>8, Zenon
      <3>2. Exact(mid.output, capacity, mid.next_index) /\ Len(mid.output.queue) = used + len
        BY <2>6, <2>7, Zenon
      <3>3. ~mid.output.input_ended
        BY <1>1, <2>6, <2>7, <2>8, Zenon
      <3> HIDE DEF w, e, few, len, n, N, used
      <3> QED
        BY <1>1, <2>1, <2>7, <2>8, <3>1, <3>2, <3>3, Zenon DEF Open, n
    <2> DEFINE t == check_eof(mid)
    <2>10. Ready(t, capacity, length) /\ Alike(mid, t)
      BY <2>9, CheckEofIs, Zenon
    <2> HIDE DEF t, e, w, few, len, n, N, used
    <2>11. /\ t.next_index = e /\ t.datas = few /\ t.eof = r.eof
           /\ t.output.bytes_read = r.output.bytes_read
      BY <2>2, <2>6, <2>7, <2>10, Zenon DEF Alike
    <2>12. Advanced(r, t, capacity, length)
      BY <2>1, <2>8, <2>10, <2>11, Zenon DEF Advanced
    <2>13. Assemble(r) = t
      BY <2>5, Zenon DEF t
    <2> QED
      BY <1>4, <2>1, <2>11, <2>12, <2>13, Zenon
  <1> QED
    BY <1>3, <1>4, Zenon


\* The loop of reassemble(): the recursive function it is written with
\* exists, one point after the other.
Turns(r, last) ==
  CHOOSE turn : turn = [k \in 0..last |-> IF k = 0 THEN check_eof(r) ELSE Assemble(turn[k - 1])]

LEMMA TurnIs ==
  ASSUME NEW r, NEW last \in Nat
  PROVE  /\ Turns(r, last)[0] = check_eof(r)
         /\ \A k \in 1..last : Turns(r, last)[k] = Assemble(Turns(r, last)[k - 1])
  <1> DEFINE Step(f, k) == IF k = 0 THEN check_eof(r) ELSE Assemble(f[k - 1])
             Is(f, n) == f = [k \in 0..n |-> Step(f, k)]
             Bad == {n \in Nat : ~\E f : Is(f, n)}
  <1>1. Bad = {}
    <2> SUFFICES ASSUME Bad # {}
                 PROVE  FALSE
      BY Zenon
    <2>1. Bad \subseteq Nat
      BY Zenon
    <2>2. PICK n \in Bad : \A m \in Bad : n <= m
      BY <2>1, NatLeast, Zenon
    <2>3. n # 0
      <3> SUFFICES ASSUME n = 0
                   PROVE  FALSE
        BY Zenon
      <3> DEFINE f == [k \in 0..0 |-> check_eof(r)]
      <3>1. \A k \in 0..0 : k = 0
        OBVIOUS
      <3>2. \A k \in 0..0 : Step(f, k) = check_eof(r)
        BY <3>1, Zenon
      <3>3. Is(f, 0)
        BY <3>2, Zenon
      <3> QED
        BY <2>2, <3>3, Zenon
    <2>4. n - 1 \in Nat /\ ~(n <= n - 1) /\ n \in Nat
      BY <2>1, <2>3
    <2>5. PICK f : Is(f, n - 1)
      BY <2>2, <2>4, Zenon
    <2> DEFINE g == [k \in 0..n |-> IF k = n THEN Step(f, n) ELSE f[k]]
    <2>6. \A k \in 0 .. n - 1 : k \in 0..n /\ k # n
      BY <2>4
    <2>7. \A k \in 0..n : k = n \/ k \in 0 .. n - 1
      BY <2>4
    <2>8. \A k \in 0..n : k # 0 => k - 1 \in 0 .. n - 1
      BY <2>4
    <2>9. \A k \in 0 .. n - 1 : g[k] = f[k]
      BY <2>6, Zenon
    <2>10. n \in 0..n
      BY <2>4
    <2>11. g[n] = Step(f, n)
      BY <2>10, Zenon
    <2>12. \A k \in 0 .. n - 1 : f[k] = Step(f, k)
      <3> HIDE DEF Step
      <3> QED
        BY <2>5, Zenon
    <2>13. \A k \in 0..n : Step(g, k) = Step(f, k)
      <3> HIDE DEF g
      <3> QED
        BY <2>8, <2>9, Zenon
    <2>14. \A k \in 0..n : g[k] = Step(g, k)
      <3> HIDE DEF g, Step
      <3> QED
        BY <2>7, <2>9, <2>11, <2>12, <2>13, Zenon
    <2>15. g = [k \in 0..n |-> g[k]]
      BY Zenon
    <2> HIDE DEF g, Step
    <2>16. Is(g, n)
      BY <2>14, <2>15, Zenon
    <2> QED
      BY <2>2, <2>16, Zenon
  <1> DEFINE turn == CHOOSE f : Is(f, last)
  <1>2. Is(turn, last)
    <2>1. \E f : Is(f, last)
      BY <1>1, Zenon
    <2> HIDE DEF Is
    <2> QED
      BY <2>1, Zenon
  <1>3. 0 \in 0..last /\ \A k \in 1..last : k \in 0..last /\ k # 0
    OBVIOUS
  <1> HIDE DEF turn
  <1>4. \A k \in 0..last : turn[k] = Step(turn, k)
    <2> HIDE DEF Step
    <2> QED
      BY <1>2, Zenon
  <1>5. turn[0] = check_eof(r) /\ \A k \in 1..last : turn[k] = Assemble(turn[k - 1])
    BY <1>3, <1>4, Zenon
  <1> QED
    BY <1>5, Zenon DEF turn, Turns

LEMMA ReassembleIs ==
  ASSUME NEW capacity \in Nat, NEW length \in Nat, NEW r, Ready(r, capacity, length)
  PROVE  /\ Advanced(r, reassemble(r), capacity, length)
         /\ Settled(reassemble(r), capacity, length)
  <1> DEFINE last == Cardinality(DOMAIN r.datas)
             turn == Turns(r, last)
             Fine(t, k) == /\ Advanced(r, t, capacity, length)
                           /\ IsFiniteSet(DOMAIN t.datas)
                           /\ \/ t.next_index \notin DOMAIN t.datas
                              \/ Cardinality(DOMAIN t.datas) <= last - k
             Bad == {k \in 0..last : ~Fine(turn[k], k)}
  <1>1. reassemble(r) = turn[last]
    BY Zenon DEF reassemble, Turns
  <1>2. /\ r.next_index \in 0..length /\ Slices(r.datas, r.next_index, length)
    BY Zenon DEF Ready, Open
  <1>3. r.next_index \in Nat
    BY <1>2
  <1>4. IsFiniteSet(DOMAIN r.datas) /\ last \in Nat
    <2>1. IsFiniteSet(DOMAIN r.datas)
      BY <1>2, <1>3, StoredIs, Zenon
    <2> QED
      BY <2>1, FS_CardinalityType, Zenon
  <1>5. turn[0] = check_eof(r) /\ \A k \in 1..last : turn[k] = Assemble(turn[k - 1])
    <2> HIDE DEF last
    <2> QED
      BY <1>4, TurnIs, Zenon
  <1> HIDE DEF turn
  <1>6. Fine(turn[0], 0)
    <2> DEFINE t == check_eof(r)
               S == Stored(r.datas)
               a == r.next_index
    <2>1. Ready(t, capacity, length) /\ Alike(r, t)
      BY CheckEofIs, Zenon DEF Ready
    <2>2. a <= a /\ (a .. a - 1) = {} /\ last <= last - 0
      BY <1>3, <1>4
    <2>3. (a .. a - 1) \subseteq S /\ S = S \ (a .. a - 1)
      BY <2>2, Zenon
    <2> HIDE DEF t
    <2>4. /\ t.datas = r.datas /\ t.next_index = a /\ t.eof = r.eof
          /\ t.output.bytes_read = r.output.bytes_read
      BY <2>1, Zenon DEF Alike
    <2>5. Advanced(r, t, capacity, length)
      BY <2>1, <2>2, <2>3, <2>4, Zenon DEF Advanced
    <2>6. Fine(t, 0)
      BY <1>4, <2>2, <2>4, <2>5, Zenon
    <2> QED
      BY <1>5, <2>6, Zenon DEF t
  <1>7. ASSUME NEW k \in 1..last, Fine(turn[k - 1], k - 1)
        PROVE  Fine(turn[k], k)
    <2> DEFINE t == turn[k - 1]
               u == Assemble(t)
               b == t.next_index
    <2>1. Ready(t, capacity, length)
      BY <1>7, Zenon DEF Advanced
    <2>2. /\ Advanced(t, u, capacity, length)
          /\ b \notin DOMAIN t.datas => u = t
          /\ b \in DOMAIN t.datas => DOMAIN u.datas = DOMAIN t.datas \ {b}
      <3> HIDE DEF t
      <3> QED
        BY <2>1, AssembleIs
    <2> HIDE DEF t, u
    <2>3. Advanced(r, u, capacity, length)
      <3>1. Advanced(r, t, capacity, length)
        BY <1>7, Zenon DEF t
      <3> QED
        BY <2>2, <3>1, AdvancedTwice
    <2>4. CASE b \notin DOMAIN t.datas
      <3>1. IsFiniteSet(DOMAIN t.datas)
        BY <1>7, Zenon DEF t
      <3>2. u = t
        BY <2>2, <2>4, Zenon
      <3>3. Fine(u, k)
        BY <2>3, <2>4, <3>1, <3>2, Zenon
      <3> QED
        BY <1>5, <3>3, Zenon DEF u, t
    <2>5. CASE b \in DOMAIN t.datas
      <3> DEFINE D == DOMAIN t.datas
      <3>1. IsFiniteSet(D) /\ Cardinality(D) <= last - (k - 1)
        BY <1>7, <2>5, Zenon DEF t
      <3> HIDE DEF D
      <3>2. /\ IsFiniteSet(D \ {b})
            /\ Cardinality(D \ {b}) = IF b \in D THEN Cardinality(D) - 1 ELSE Cardinality(D)
        BY <3>1, FS_RemoveElement, Zenon
      <3>3. Cardinality(D \ {b}) = Cardinality(D) - 1 /\ Cardinality(D) \in Nat
        BY <2>5, <3>1, <3>2, FS_CardinalityType, Zenon DEF D
      <3>4. Cardinality(D \ {b}) <= last - k
        <4> HIDE DEF last
        <4> QED
          BY <1>4, <3>1, <3>3
      <3>5. DOMAIN u.datas = D \ {b}
        BY <2>2, <2>5, Zenon DEF D
      <3>6. Fine(u, k)
        BY <2>3, <3>2, <3>4, <3>5, Zenon
      <3> QED
        BY <1>5, <3>6, Zenon DEF u, t
    <2> QED
      BY <2>4, <2>5, Zenon
  <1>8. Bad = {}
    <2> SUFFICES ASSUME Bad # {}
                 PROVE  FALSE
      BY Zenon
    <2>1. Bad \subseteq Nat
      <3> HIDE DEF Fine, last
      <3> QED
        BY <1>4
    <2>2. PICK k \in Bad : \A m \in Bad : k <= m
      BY <2>1, NatLeast, Zenon
    <2>3. k \in 0..last /\ ~Fine(turn[k], k)
      BY <2>2, Zenon
    <2>4. k # 0
      BY <1>6, <2>3, Zenon
    <2> HIDE DEF last, Fine
    <2>5. k \in 1..last /\ k - 1 \in 0..last /\ ~(k <= k - 1)
      BY <1>4, <2>3, <2>4
    <2>6. Fine(turn[k - 1], k - 1)
      BY <2>2, <2>5, Zenon
    <2> QED
      BY <1>7, <2>3, <2>5, <2>6, Zenon
  <1>9. Fine(turn[last], last)
    <2>1. last \in 0..last
      BY <1>4
    <2> HIDE DEF Fine
    <2> QED
      BY <1>8, <2>1, Zenon
  <1> DEFINE t == turn[last]
  <1>10. t.next_index \notin DOMAIN t.datas
    <2>1. last - last = 0
      BY <1>4
    <2>2. CASE Cardinality(DOMAIN t.datas) <= 0
      <3>1. Cardinality(DOMAIN t.datas) \in Nat
        BY <1>9, FS_CardinalityType, Zenon
      <3>2. Cardinality(DOMAIN t.datas) = 0
        BY <2>2, <3>1
      <3>3. DOMAIN t.datas = {}
        BY <1>9, <3>2, FS_EmptySet, Zenon
      <3> QED
        BY <3>3, Zenon
    <2> QED
      BY <1>9, <2>1, <2>2, Zenon
  <1> QED
    BY <1>1, <1>9, <1>10, Zenon DEF Settled, Advanced


-----------------------------------------------------------------------------
(* insert_without_overlap() and push_substring().                          *)

\* From r to t, the bytes of span were stored, or discarded as too far ahead.
Taken(r, t, capacity, length, span) ==
  /\ Ready(t, capacity, length)
  /\ t.output = r.output /\ t.next_index = r.next_index /\ t.eof = r.eof
  /\ Stored(t.datas) = Nearest(Stored(r.datas) \cup span, capacity - Len(r.output.queue))

LEMMA InsertIs ==
  ASSUME NEW capacity \in Nat, NEW length \in Nat, NEW r, Ready(r, capacity, length),
         NEW index \in Nat, NEW data \in Seq(Nat), Run(data, index),
         r.next_index <= index, index + Len(data) <= length
  PROVE  Taken(r, insert_without_overlap(r, data, index), capacity, length,
               index .. index + Len(data) - 1)
  <1> DEFINE low == r.next_index
             old == r.datas
             new == NewSlices(old, data, index)
             all == Inserted(old, new)
             span == index .. index + Len(data) - 1
             S == Stored(old) \cup span
             used == Len(r.output.queue)
             had == Cardinality(Stored(old))
             add == TotalLength(new)
             over == Greatest(0, add - remaining_memory(r))
             d == Discard(all, over)
             t == insert_without_overlap(r, data, index)
  <1>1. /\ IsReassembler(r) /\ low \in 0..length /\ Exact(r.output, capacity, low)
        /\ Slices(old, low, length) /\ r.unasm_bytes = had /\ r.unasm_bytes + used <= capacity
    BY Zenon DEF Ready, Open
  <1>2. /\ low \in Nat /\ Len(data) \in Nat /\ index + Len(data) \in Nat
        /\ used \in Nat /\ had \in Nat /\ had + used <= capacity
    <2>1. r.output.queue \in Seq(Nat)
      BY <1>1, Zenon DEF Exact
    <2>2. low \in Nat
      BY <1>1
    <2>3. had \in Nat
      BY <1>1, <2>2, StoredIs, Zenon
    <2>4. had + used <= capacity
      BY <1>1, Zenon
    <2> QED
      BY <2>1, <2>2, <2>3, <2>4
  <1>3. Slices(new, index, index + Len(data)) /\ Stored(new) = span \ Stored(old)
    <2> HIDE DEF old
    <2> QED
      BY NewSlicesAre, Zenon
  <1>4. Slices(new, low, length)
    <2> HIDE DEF new
    <2> QED
      BY <1>2, <1>3, WiderSlices
  <1>5. add = Cardinality(Stored(new)) /\ add \in Nat
    <2> HIDE DEF new, low
    <2> QED
      BY <1>2, <1>4, TotalLengthIs, StoredIs
  <1>6. Slices(all, low, length) /\ Stored(all) = S
    <2>1. Stored(old) \cap Stored(new) = {} /\ Stored(old) \cup Stored(new) = S
      BY <1>3, Zenon
    <2> HIDE DEF new, low, old, S
    <2>2. Slices(all, low, length)
      BY <1>1, <1>2, <1>4, <2>1, InsertedAre, ZenonT(30), SMTT(30)
    <2>3. Stored(all) = Stored(old) \cup Stored(new)
      BY <1>1, <1>2, <1>4, <2>1, InsertedAre, SMTT(30), SMTT(90)
    <2> QED
      BY <2>1, <2>2, <2>3, Zenon
  <1>7. /\ IsFiniteSet(S) /\ S \subseteq Nat /\ Cardinality(S) = had + add
    <2>1. IsFiniteSet(Stored(all)) /\ Stored(all) \subseteq low .. length - 1
      <3> HIDE DEF all, low
      <3> QED
        BY <1>2, <1>6, StoredIs, Zenon
    <2>2. S \subseteq low .. length - 1
      BY <1>6, <2>1, Zenon
    <2>3. S \subseteq Nat
      <3> HIDE DEF S, low
      <3> QED
        BY <1>2, <2>2
    <2>4. Stored(old) \cap Stored(new) = {} /\ Stored(old) \cup Stored(new) = S
      BY <1>3, Zenon
    <2> HIDE DEF new, low, old, S
    <2>5. IsFiniteSet(Stored(old)) /\ IsFiniteSet(Stored(new))
      BY <1>1, <1>2, <1>4, StoredIs, Zenon
    <2>6. Cardinality(Stored(old) \cup Stored(new)) =
            Cardinality(Stored(old)) + Cardinality(Stored(new)) - Cardinality(Stored(old) \cap Stored(new))
      BY <2>5, FS_Union, Zenon
    <2>7. Cardinality(Stored(old) \cap Stored(new)) = 0
      BY <2>4, FS_EmptySet, Zenon
    <2>8. Cardinality(S) = had + add - 0
      BY <1>5, <2>4, <2>6, <2>7, Zenon
    <2> QED
      <3> HIDE DEF had, add
      <3>1. Cardinality(S) = had + add
        BY <1>2, <1>5, <2>8
      <3> QED
        BY <1>6, <2>1, <2>3, <3>1, Zenon
  <1>8. remaining_memory(r) = capacity - (had + used)
    <2>1. r.output.capacity = capacity
      BY <1>1, Zenon DEF Exact
    <2> QED
      BY <1>1, <2>1, Zenon DEF remaining_memory, BufferSize
  <1>9. /\ over \in Nat /\ over <= had + add
        /\ had + add - over \in Nat /\ had + add - over + used <= capacity
        /\ \/ had + add - over = capacity - used
           \/ over = 0 /\ had + add <= capacity - used
        /\ capacity - used \in Nat
    <2> HIDE DEF had, add, used
    <2> QED
      BY <1>2, <1>5, <1>8, SMTT(30), SMTT(90) DEF Greatest
  <1>10. /\ Slices(d, low, length)
         /\ Stored(d) = Nearest(S, had + add - over)
         /\ Cardinality(Stored(d)) = had + add - over
    <2> HIDE DEF all, low, over, S
    <2>1. /\ low \in Nat /\ Slices(all, low, length) /\ over \in Nat
          /\ over <= Cardinality(Stored(all))
      BY <1>2, <1>6, <1>7, <1>9, Zenon
    <2>2. /\ Slices(d, low, length)
          /\ Stored(d) = Nearest(Stored(all), Cardinality(Stored(all)) - over)
          /\ Cardinality(Stored(d)) = Cardinality(Stored(all)) - over
      BY <2>1, DiscardKeepsNearest
    <2> HIDE DEF d, had, add
    <2>3. (had + add) - over = had + add - over
      BY <1>2, <1>5, <1>9
    <2> QED
      BY <1>6, <1>7, <2>2, <2>3, Zenon
  <1>11. Stored(d) = Nearest(S, capacity - used)
    <2> HIDE DEF S, had, add, over, used, d
    <2>1. CASE had + add - over = capacity - used
      BY <1>10, <2>1, Zenon
    <2>2. CASE over = 0 /\ had + add <= capacity - used
      <3>1. Cardinality(S) <= had + add - over /\ Cardinality(S) <= capacity - used
        BY <1>2, <1>5, <1>7, <2>2
      <3>2. Nearest(S, had + add - over) = S
        BY <1>7, <1>9, <3>1, NearestAll, Zenon
      <3>3. Nearest(S, capacity - used) = S
        BY <1>7, <1>9, <3>1, NearestAll, Zenon
      <3> QED
        BY <1>10, <3>2, <3>3, Zenon
    <2> QED
      BY <1>9, <2>1, <2>2, Zenon
  <1>12. t = [r EXCEPT !.datas = d, !.unasm_bytes = r.unasm_bytes + add - over]
    BY Zenon DEF insert_without_overlap, NewSlices
  <1> HIDE DEF d, t, add, over
  <1>13. /\ IsReassembler(t) /\ t.datas = d /\ t.unasm_bytes = r.unasm_bytes + add - over
         /\ t.output = r.output /\ t.next_index = low /\ t.eof = r.eof /\ t.eof_index = r.eof_index
    <2>1. IsReassembler(r)
      BY <1>1, Zenon
    <2> QED
      BY <1>12, <2>1, Zenon DEF IsReassembler
  <1>14. t.unasm_bytes = Cardinality(Stored(d)) /\ t.unasm_bytes + used <= capacity
    <2>1. t.unasm_bytes = had + add - over
      BY <1>1, <1>13, Zenon
    <2> HIDE DEF had, used
    <2>2. had + add - over = (had + add) - over
      BY <1>2, <1>5, <1>9
    <2> QED
      BY <1>9, <1>10, <2>1, <2>2, Zenon
  <1>15. Ready(t, capacity, length)
    BY <1>10, <1>13, <1>14, Zenon DEF Ready, Open
  <1>16. Stored(t.datas) = Nearest(S, capacity - used)
    BY <1>11, <1>13, Zenon
  <1> QED
    BY <1>13, <1>15, <1>16, Zenon DEF Taken, t


LEMMA SettledGap ==
  ASSUME NEW capacity \in Nat, NEW length \in Nat, NEW r, Settled(r, capacity, length)
  PROVE  /\ r.next_index \in Nat /\ r.next_index <= length
         /\ r.next_index \notin Stored(r.datas)
         /\ \A x \in Stored(r.datas) : x \in Nat /\ r.next_index < x /\ x < length
         /\ IsFiniteSet(Stored(r.datas)) /\ Cardinality(Stored(r.datas)) \in Nat
         /\ Cardinality(Stored(r.datas)) <= capacity - Len(r.output.queue)
         /\ capacity - Len(r.output.queue) \in Nat
  <1> DEFINE low == r.next_index
             S == Stored(r.datas)
             used == Len(r.output.queue)
  <1>1. /\ low \in 0..length /\ Slices(r.datas, low, length) /\ low \notin DOMAIN r.datas
        /\ r.unasm_bytes = Cardinality(S) /\ r.unasm_bytes + used <= capacity
        /\ r.output.queue \in Seq(Nat)
    BY Zenon DEF Settled, Ready, Open, Exact
  <1>2. low \in Nat /\ low <= length /\ used \in Nat
    BY <1>1
  <1>3. /\ IsFiniteSet(S) /\ Cardinality(S) \in Nat /\ S \subseteq low .. length - 1
        /\ \A x : x \in S <=> \E b \in DOMAIN r.datas : x \in Positions(r.datas, b)
    BY <1>1, <1>2, StoredIs, Zenon
  <1>4. ASSUME low \in S
        PROVE  FALSE
    <2>1. PICK b \in DOMAIN r.datas : low \in Positions(r.datas, b)
      BY <1>3, <1>4, Zenon
    <2>2. b <= low /\ low <= b /\ b \in Nat
      BY <1>1, <1>2, <2>1, PositionsAre, SliceNumbers, Zenon
    <2>3. b = low
      <3> HIDE DEF low
      <3> QED
        BY <1>2, <2>2
    <2> QED
      BY <1>1, <2>3, Zenon
  <1>5. ASSUME NEW x \in S
        PROVE  x \in Nat /\ low < x /\ x < length
    <2>1. x \in low .. length - 1 /\ x # low
      BY <1>3, <1>4, Zenon
    <2> HIDE DEF low
    <2> QED
      BY <1>2, <2>1
  <1>6. Cardinality(S) <= capacity - used /\ capacity - used \in Nat
    <2>1. Cardinality(S) + used <= capacity
      BY <1>1, Zenon
    <2> HIDE DEF S, used
    <2> QED
      BY <1>2, <1>3, <2>1
  <1> QED
    BY <1>2, <1>3, <1>4, <1>5, <1>6, Zenon

\* Noting the end of the stream.
Noted(r, eof, end) == IF eof /\ ~r.eof THEN [r EXCEPT !.eof = TRUE, !.eof_index = end] ELSE r
Ended(r, eof, end) == IF eof THEN check_eof(Noted(r, eof, end)) ELSE Noted(r, eof, end)

LEMMA EndedIs ==
  ASSUME NEW capacity \in Nat, NEW length \in Nat, NEW r, Ready(r, capacity, length),
         NEW eof \in BOOLEAN, NEW end, eof => end = length
  PROVE  LET t == Ended(r, eof, end)
         IN  /\ Ready(t, capacity, length)
             /\ t.datas = r.datas /\ t.next_index = r.next_index
             /\ t.output.queue = r.output.queue /\ t.output.bytes_read = r.output.bytes_read
             /\ t.eof = (r.eof \/ eof)
  <1> DEFINE n == Noted(r, eof, end)
             t == Ended(r, eof, end)
  <1>1. IsReassembler(r) /\ r.eof \in BOOLEAN
    BY Zenon DEF Ready, Open
  <1>2. CASE ~eof
    <2>1. t = r
      BY <1>2, Zenon DEF Noted, Ended
    <2>2. r.eof = (r.eof \/ eof)
      BY <1>1, <1>2, Zenon
    <2> HIDE DEF t
    <2> QED
      BY <2>1, <2>2, Zenon DEF t
  <1>3. CASE eof
    <2>1. /\ Open(n, capacity, length)
          /\ n.datas = r.datas /\ n.next_index = r.next_index /\ n.output = r.output /\ n.eof = TRUE
      <3>1. CASE r.eof
        <4>1. n = r
          BY <3>1, Zenon DEF Noted
        <4>2. r.eof = TRUE
          BY <1>1, <3>1, Zenon
        <4> HIDE DEF n
        <4> QED
          BY <4>1, <4>2, Zenon DEF Ready
      <3>2. CASE ~r.eof
        <4>1. n = [r EXCEPT !.eof = TRUE, !.eof_index = end]
          BY <1>3, <3>2, Zenon DEF Noted
        <4> HIDE DEF n
        <4>2. /\ IsReassembler(n) /\ n.datas = r.datas /\ n.next_index = r.next_index
              /\ n.output = r.output /\ n.unasm_bytes = r.unasm_bytes /\ n.eof = TRUE
              /\ n.eof_index = end
          BY <1>1, <4>1, Zenon DEF IsReassembler
        <4>3. end = length
          BY <1>3, Zenon
        <4>4. Open(n, capacity, length)
          BY <4>2, <4>3, Zenon DEF Ready, Open
        <4> QED
          BY <4>2, <4>4, Zenon
      <3> QED
        BY <3>1, <3>2, Zenon
    <2>2. t = check_eof(n)
      BY <1>3, Zenon DEF Ended
    <2> HIDE DEF n, t
    <2>3. Ready(t, capacity, length) /\ Alike(n, t)
      BY <2>1, <2>2, CheckEofIs, Zenon
    <2>4. t.eof = (r.eof \/ eof)
      BY <1>3, <2>1, <2>3, Zenon DEF Alike
    <2> QED
      BY <2>1, <2>3, <2>4, Zenon DEF Alike, t
  <1> QED
    BY <1>2, <1>3, Zenon


\* The bytes that are stored or written after a push.
Kept(r, capacity, index, len) ==
  Nearest(Stored(r.datas) \cup {i \in index .. index + len - 1 : i >= r.next_index},
          capacity - Len(r.output.queue))

Pushed(r, t, capacity, length, kept, eof) ==
  /\ Settled(t, capacity, length)
  /\ r.next_index <= t.next_index
  /\ (r.next_index .. t.next_index - 1) \subseteq kept
  /\ Stored(t.datas) = kept \ (r.next_index .. t.next_index - 1)
  /\ t.output.bytes_read = r.output.bytes_read
  /\ t.eof = (r.eof \/ eof)

LEMMA PushIs ==
  ASSUME NEW capacity \in Nat, NEW length \in Nat, NEW r, Settled(r, capacity, length),
         NEW index \in Nat, NEW data \in Seq(Nat), Run(data, index), NEW eof \in BOOLEAN,
         index + Len(data) <= length, eof => index + Len(data) = length
  PROVE  Pushed(r, push_substring(r, data, index, eof), capacity, length,
                Kept(r, capacity, index, Len(data)), eof)
  <1> DEFINE next == r.next_index
             len == Len(data)
             end == index + len
             t == push_substring(r, data, index, eof)
             v == Ended(r, eof, end)
             begin == Greatest(index, next)
             rest == SubSeq(data, begin - index + 1, len)
             S == Stored(r.datas)
             offered == {i \in index .. index + len - 1 : i >= next}
             room == capacity - Len(r.output.queue)
             kept == Kept(r, capacity, index, len)
  <1>1. t = IF len = 0 \/ end <= next THEN v ELSE reassemble(insert_without_overlap(v, rest, begin))
    BY Zenon DEF push_substring, Ended, Noted
  <1>2. /\ next \in Nat /\ S \subseteq Nat /\ IsFiniteSet(S) /\ Cardinality(S) <= room /\ room \in Nat
    BY SettledGap, Zenon
  <1>3. /\ Ready(v, capacity, length)
        /\ v.datas = r.datas /\ v.next_index = next
        /\ v.output.queue = r.output.queue /\ v.output.bytes_read = r.output.bytes_read
        /\ v.eof = (r.eof \/ eof)
    <2>1. Ready(r, capacity, length)
      BY Zenon DEF Settled
    <2>2. eof => end = length
      BY Zenon
    <2> HIDE DEF end
    <2> QED
      BY <2>1, <2>2, EndedIs
  <1>4. kept = Nearest(S \cup offered, room)
    BY Zenon DEF Kept
  <1>5. len \in Nat /\ end \in Nat
    OBVIOUS
  <1>6. CASE len = 0 \/ end <= next
    <2>1. t = v
      BY <1>1, <1>6, Zenon
    <2>2. offered = {}
      <3> HIDE DEF next, len
      <3> QED
        BY <1>2, <1>5, <1>6
    <2>3. kept = S
      <3>1. S \cup offered = S
        BY <2>2, Zenon
      <3> HIDE DEF S, room
      <3>2. Nearest(S, room) = S
        BY <1>2, NearestAll, Zenon
      <3> QED
        BY <1>4, <3>1, <3>2, Zenon
    <2>4. next <= next /\ (next .. next - 1) = {}
      BY <1>2, SMTT(30), SMTT(90)
    <2>5. (next .. next - 1) \subseteq kept /\ S = kept \ (next .. next - 1)
      BY <2>3, <2>4, Zenon
    <2>6. Settled(v, capacity, length)
      BY <1>3, Zenon DEF Settled
    <2> HIDE DEF t, v, kept
    <2> QED
      BY <1>3, <2>1, <2>4, <2>5, <2>6, Zenon DEF Pushed, t, kept
  <1>7. CASE ~(len = 0 \/ end <= next)
    <2> DEFINE w == insert_without_overlap(v, rest, begin)
               u == reassemble(w)
    <2>1. t = u
      BY <1>1, <1>7, Zenon
    <2>2. /\ begin \in Nat /\ index <= begin /\ next <= begin /\ begin < end
          /\ offered = begin .. end - 1
      <3>1. /\ begin \in Nat /\ index <= begin /\ next <= begin /\ begin < end
            /\ begin = index \/ begin = next
        <4> HIDE DEF next, len
        <4> QED
          BY <1>2, <1>5, <1>7 DEF Greatest
      <3> HIDE DEF begin, next, len
      <3> QED
        BY <1>2, <1>5, <3>1
    <2>3. rest \in Seq(Nat) /\ Len(rest) = end - begin /\ Run(rest, begin)
      <3> DEFINE i == begin - index + 1
      <3>1. i \in 1 .. len + 1 /\ len \in i - 1 .. len /\ len - i + 1 = end - begin
        <4> HIDE DEF begin, len
        <4> QED
          BY <1>5, <2>2
      <3>2. /\ SubSeq(data, i, len) \in Seq(Nat) /\ Len(SubSeq(data, i, len)) = len - i + 1
            /\ \A k \in 1 .. len - i + 1 : SubSeq(data, i, len)[k] = data[i + k - 1]
        <4> HIDE DEF i
        <4> QED
          BY <3>1, SubSeqIs, Zenon
      <3>3. ASSUME NEW k \in 1 .. end - begin
            PROVE  rest[k] = begin + k - 1
        <4>1. rest[k] = data[i + k - 1]
          <5>1. k \in 1 .. len - i + 1
            BY <3>1, Zenon
          <5> QED
            BY <3>2, <5>1, Zenon
        <4>2. i + k - 1 \in 1..len /\ index + (i + k - 1) - 1 = begin + k - 1
          <5> HIDE DEF begin, len
          <5> QED
            BY <1>5, <2>2
        <4>3. data[i + k - 1] = index + (i + k - 1) - 1
          <5> DEFINE j == i + k - 1
          <5>1. j \in 1..len
            BY <4>2, Zenon
          <5> HIDE DEF j
          <5>2. data[j] = index + j - 1
            BY <5>1, Zenon DEF Run
          <5> QED
            BY <5>2, Zenon DEF j
        <4> QED
          BY <4>1, <4>2, <4>3, Zenon
      <3>4. rest \in Seq(Nat) /\ Len(rest) = end - begin
        BY <3>1, <3>2, Zenon
      <3> HIDE DEF rest
      <3> QED
        BY <3>3, <3>4, Zenon DEF Run
    <2>4. begin + Len(rest) = end /\ begin + Len(rest) - 1 = end - 1
      <3> HIDE DEF begin, rest, end
      <3> QED
        BY <1>5, <2>2, <2>3
    <2>5. /\ Ready(w, capacity, length)
          /\ w.output = v.output /\ w.next_index = v.next_index /\ w.eof = v.eof
          /\ Stored(w.datas) = Nearest(Stored(v.datas) \cup (begin .. begin + Len(rest) - 1),
                                       capacity - Len(v.output.queue))
      <3>1. v.next_index <= begin /\ begin + Len(rest) <= length
        BY <1>3, <2>2, <2>4, Zenon
      <3> HIDE DEF v, begin, rest
      <3>2. /\ begin \in Nat /\ rest \in Seq(Nat) /\ Run(rest, begin) /\ Ready(v, capacity, length)
            /\ v.next_index <= begin /\ begin + Len(rest) <= length
        BY <1>3, <2>2, <2>3, <3>1, Zenon
      <3>3. Taken(v, w, capacity, length, begin .. begin + Len(rest) - 1)
        BY <3>2, InsertIs, Zenon
      <3> QED
        BY <3>3, Zenon DEF Taken
    <2>6. Stored(w.datas) = kept
      BY <1>3, <1>4, <2>2, <2>4, <2>5, Zenon
    <2>7. Advanced(w, u, capacity, length) /\ Settled(u, capacity, length)
      <3> HIDE DEF w
      <3> QED
        BY <2>5, ReassembleIs, Zenon
    <2> HIDE DEF w, u, v, t, kept
    <2>8. Pushed(r, u, capacity, length, kept, eof)
      BY <1>3, <2>5, <2>6, <2>7, Zenon DEF Advanced, Pushed
    <2> QED
      BY <2>1, <2>8, Zenon DEF t, kept
  <1> QED
    BY <1>6, <1>7, Zenon

\* A reassembler that has been given nothing.
LEMMA NewIs ==
  ASSUME NEW capacity \in Nat, NEW length \in Nat
  PROVE  LET r == NewReassembler(capacity)
         IN  /\ Settled(r, capacity, length) /\ r.next_index = 0 /\ r.eof = FALSE
             /\ r.output.bytes_read = 0
  <1> DEFINE r == NewReassembler(capacity)
             s == r.output
  <1>1. r = [output |-> NewStream(capacity), datas |-> <<>>, unasm_bytes |-> 0,
             next_index |-> 0, eof |-> FALSE, eof_index |-> 0]
    BY Zenon DEF NewReassembler
  <1> HIDE DEF r
  <1>2. /\ IsReassembler(r) /\ s = NewStream(capacity) /\ r.datas = <<>> /\ r.unasm_bytes = 0
        /\ r.next_index = 0 /\ r.eof = FALSE
    <2>1. /\ r.output = NewStream(capacity) /\ r.datas = <<>> /\ r.unasm_bytes = 0
          /\ r.next_index = 0 /\ r.eof = FALSE /\ r.eof_index = 0
      BY <1>1, Zenon
    <2>2. IsReassembler(r)
      BY <1>1, <2>1, Zenon DEF IsReassembler
    <2> QED
      BY <2>1, <2>2, Zenon
  <1>3. s = [capacity |-> capacity, queue |-> <<>>, bytes_written |-> 0,
             bytes_read |-> 0, input_ended |-> FALSE, error |-> FALSE]
    BY <1>2, Zenon DEF NewStream
  <1> HIDE DEF s
  <1>4. /\ IsStream(s) /\ s.capacity = capacity /\ s.queue = <<>> /\ s.bytes_written = 0
        /\ s.bytes_read = 0 /\ s.input_ended = FALSE
    BY <1>3, Zenon DEF IsStream
  <1>5. <<>> \in Seq(Nat) /\ Len(<<>>) = 0 /\ 0 + 0 = 0 /\ 0 <= capacity /\ 0 \in 0..length
        /\ 0 \in Nat /\ FALSE \in BOOLEAN
    OBVIOUS
  <1>6. Run(<<>>, 0)
    BY DEF Run
  <1>7. Exact(s, capacity, 0)
    BY <1>4, <1>5, <1>6, Zenon DEF Exact
  <1>8. DOMAIN r.datas = {}
    BY <1>2
  <1>9. Slices(r.datas, 0, length) /\ Stored(r.datas) = {}
    BY <1>8, Zenon DEF Slices, Stored
  <1>10. Cardinality(Stored(r.datas)) = 0
    BY <1>9, FS_EmptySet, Zenon
  <1>11. Open(r, capacity, length)
    BY <1>2, <1>4, <1>5, <1>7, <1>9, <1>10, ZenonT(30) DEF Open, s
  <1> QED
    BY <1>2, <1>4, <1>8, <1>11, Zenon DEF Settled, Ready, r, s

\* The application reads len bytes of the output.
Popped(r, t, capacity, length, len) ==
  /\ Settled(t, capacity, length)
  /\ t.datas = r.datas /\ t.next_index = r.next_index /\ t.eof = r.eof
  /\ t.output.input_ended = r.output.input_ended
  /\ t.output.bytes_read = r.output.bytes_read + len
  /\ Len(t.output.queue) = Len(r.output.queue) - len

LEMMA PopIs ==
  ASSUME NEW capacity \in Nat, NEW length \in Nat, NEW r, Settled(r, capacity, length),
         NEW len \in Nat, len <= Len(r.output.queue)
  PROVE  Popped(r, [r EXCEPT !.output = PopStream(@, len)], capacity, length, len)
  <1> DEFINE o == r.output
             q == o.queue
             s == PopStream(o, len)
             t == [r EXCEPT !.output = PopStream(@, len)]
  <1>1. /\ IsReassembler(r) /\ Exact(o, capacity, r.next_index)
        /\ r.unasm_bytes + Len(q) <= capacity /\ r.unasm_bytes = Cardinality(Stored(r.datas))
    BY Zenon DEF Settled, Ready, Open
  <1>2. /\ IsStream(o) /\ q \in Seq(Nat) /\ o.bytes_read \in Nat
        /\ o.bytes_read + Len(q) = r.next_index /\ Len(q) <= capacity /\ Run(q, o.bytes_read)
    BY <1>1, Zenon DEF Exact
  <1>3. len <= Len(q) /\ t = [r EXCEPT !.output = s] /\ len \in Nat
    BY Zenon
  <1>4. s = [o EXCEPT !.queue = SubSeq(q, len + 1, Len(q)), !.bytes_read = o.bytes_read + len]
    BY Zenon DEF PopStream
  <1> DEFINE p == SubSeq(q, len + 1, Len(q))
  <1> HIDE DEF p, o, s, t, q
  <1>5. /\ IsStream(s) /\ s.capacity = o.capacity /\ s.queue = p /\ s.bytes_written = o.bytes_written
        /\ s.bytes_read = o.bytes_read + len /\ s.input_ended = o.input_ended
    BY <1>2, <1>4, Zenon DEF IsStream, p
  <1>6. /\ IsReassembler(t) /\ t.output = s /\ t.datas = r.datas /\ t.unasm_bytes = r.unasm_bytes
        /\ t.next_index = r.next_index /\ t.eof = r.eof /\ t.eof_index = r.eof_index
    BY <1>1, <1>3, Zenon DEF IsReassembler
  <1>7. Len(q) \in Nat /\ len + 1 \in 1 .. Len(q) + 1 /\ Len(q) \in (len + 1) - 1 .. Len(q)
        /\ Len(q) - (len + 1) + 1 = Len(q) - len
    BY <1>2, <1>3, SMTT(30), SMTT(90)
  <1>8. /\ p \in Seq(Nat) /\ Len(p) = Len(q) - len
        /\ \A k \in 1 .. Len(q) - len : p[k] = q[(len + 1) + k - 1]
    <2> DEFINE i == len + 1
               j == Len(q)
    <2>1. i \in 1 .. Len(q) + 1 /\ j \in i - 1 .. Len(q) /\ j - i + 1 = Len(q) - len
      BY <1>7, Zenon
    <2> HIDE DEF i, j
    <2>2. /\ SubSeq(q, i, j) \in Seq(Nat) /\ Len(SubSeq(q, i, j)) = j - i + 1
          /\ \A k \in 1 .. j - i + 1 : SubSeq(q, i, j)[k] = q[i + k - 1]
      BY <1>2, <2>1, SubSeqIs, Zenon
    <2> QED
      BY <2>1, <2>2, Zenon DEF i, j, p
  <1>9. Run(p, o.bytes_read + len)
    <2> DEFINE from == o.bytes_read
    <2>1. from \in Nat
      BY <1>2, Zenon
    <2> HIDE DEF from
    <2> SUFFICES ASSUME NEW k \in 1..Len(p)
                 PROVE  p[k] = (from + len) + k - 1
      BY Zenon DEF Run, from
    <2>2. k \in 1 .. Len(q) - len
      BY <1>8, Zenon
    <2>3. p[k] = q[(len + 1) + k - 1]
      BY <1>8, <2>2, Zenon
    <2>4. (len + 1) + k - 1 \in 1..Len(q) /\ from + ((len + 1) + k - 1) - 1 = (from + len) + k - 1
      <3> DEFINE n == Len(q)
      <3>1. n \in Nat /\ k \in 1 .. n - len
        BY <1>7, <2>2, Zenon
      <3> HIDE DEF n
      <3>2. (len + 1) + k - 1 \in 1..n
        BY <1>3, <3>1
      <3>3. from + ((len + 1) + k - 1) - 1 = (from + len) + k - 1
        BY <1>3, <2>1, <3>1, SMTT(30), SMTT(90)
      <3> QED
        BY <3>2, <3>3, Zenon DEF n
    <2>5. \A j \in 1..Len(q) : q[j] = from + j - 1
      BY <1>2, Zenon DEF Run, from
    <2> DEFINE j == (len + 1) + k - 1
    <2>6. q[j] = from + j - 1
      <3>1. j \in 1..Len(q)
        BY <2>4, Zenon
      <3> HIDE DEF j
      <3> QED
        BY <2>5, <3>1, Zenon
    <2> QED
      BY <2>3, <2>4, <2>6, Zenon
  <1> DEFINE from == o.bytes_read
             used == Len(q)
             kept == r.unasm_bytes
             next == r.next_index
  <1>10. /\ from + len \in Nat /\ (from + len) + Len(p) = next /\ Len(p) <= capacity
         /\ kept + Len(p) <= capacity
    <2>1. kept \in Nat
      <3>1. Cardinality(Stored(r.datas)) \in Nat
        BY SettledGap, Zenon
      <3> QED
        BY <1>1, <3>1, Zenon
    <2>2. /\ from \in Nat /\ used \in Nat /\ from + used = next /\ used <= capacity
          /\ kept + used <= capacity /\ len <= used /\ Len(p) = used - len
      BY <1>1, <1>2, <1>3, <1>7, <1>8, Zenon DEF q, o
    <2> HIDE DEF from, used, kept, next
    <2> QED
      BY <1>3, <2>1, <2>2, SMTT(30), SMTT(90)
  <1>11. Exact(s, capacity, next)
    BY <1>1, <1>5, <1>8, <1>9, <1>10, ZenonT(30) DEF Exact
  <1>12. Settled(t, capacity, length)
    BY <1>5, <1>6, <1>10, <1>11, Zenon DEF Settled, Ready, Open, o
  <1> QED
    BY <1>3, <1>5, <1>6, <1>8, <1>12, Zenon DEF Popped, o, q, t
=============================================================================
