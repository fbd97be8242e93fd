---------------------------- MODULE SeqNumProofs ----------------------------
(***************************************************************************)
(* Facts about wrapping sequence numbers, for every size of the space: the *)
(* comparisons of reliable.go agree with the order of the unwrapped        *)
(* counters as long as the two are at most half the space apart.           *)
(***************************************************************************)
EXTENDS SeqNum, TLAPS

\* A remainder is determined by any decomposition into multiple and rest.
LEMMA ModUnique ==
  ASSUME NEW m \in Nat \ {0}, NEW q \in Int, NEW r \in 0 .. (m - 1)
  PROVE  ((q * m) + r) % m = r
  OBVIOUS

\* Division with remainder by a positive number.
LEMMA ModDecomp ==
  ASSUME NEW m \in Nat \ {0}, NEW a \in Int
  PROVE  /\ (a % m) \in 0 .. (m - 1)
         /\ (a \div m) \in Int
         /\ a = ((a \div m) * m) + (a % m)
  OBVIOUS

\* Reducing a number first changes no sum's remainder.
LEMMA ModAdd ==
  ASSUME NEW m \in Nat \ {0}, NEW a \in Int, NEW b \in Int
  PROVE  ((a % m) + b) % m = (a + b) % m
<1> DEFINE qa == a \div m  ra == a % m  d == ra + b
           qd == d \div m  rd == d % m
<1>1. a = (qa * m) + ra /\ qa \in Int /\ ra \in Int
  BY ModDecomp
<1>2. d = (qd * m) + rd /\ qd \in Int /\ rd \in 0 .. (m - 1)
  <2>1. d \in Int BY <1>1
  <2> HIDE DEF d
  <2> QED BY <2>1, ModDecomp
<1>3. a + b = ((qa + qd) * m) + rd
  <2> HIDE DEF qa, ra, qd, rd
  <2> QED BY <1>1, <1>2
<1>4. (a + b) % m = rd
  <2> HIDE DEF qa, ra, qd, rd, d
  <2>1. qa + qd \in Int BY <1>1, <1>2
  <2> QED BY <2>1, <1>2, <1>3, ModUnique
<1> QED BY <1>4

\* Reducing both numbers first changes no difference's remainder.
LEMMA ModSub ==
  ASSUME NEW m \in Nat \ {0}, NEW a \in Int, NEW b \in Int
  PROVE  ((a % m) - (b % m)) % m = (a - b) % m
<1> DEFINE qa == a \div m  qb == b \div m  ra == a % m  rb == b % m
           d == ra - rb  qd == d \div m  rd == d % m
<1>1. /\ a = (qa * m) + ra /\ qa \in Int /\ ra \in Int
      /\ b = (qb * m) + rb /\ qb \in Int /\ rb \in Int
  BY ModDecomp
<1>2. d = (qd * m) + rd /\ qd \in Int /\ rd \in 0 .. (m - 1)
  <2>1. d \in Int BY <1>1
  <2> HIDE DEF d
  <2> QED BY <2>1, ModDecomp
<1>3. a - b = ((qa - qb + qd) * m) + rd
  <2> HIDE DEF qa, qb, ra, rb, qd, rd
  <2> QED BY <1>1, <1>2
<1>4. (a - b) % m = rd
  <2> HIDE DEF qa, qb, ra, rb, qd, rd, d
  <2>1. qa - qb + qd \in Int BY <1>1, <1>2
  <2> QED BY <2>1, <1>2, <1>3, ModUnique
<1> QED BY <1>4

\* The size of the space is positive.
LEMMA SpaceType == Space \in Nat \ {0} /\ Space = 2 * HalfSpace
  BY HalfSpaceAssumption DEF Space

\* uint32 addition stays in uint32.
LEMMA SeqPlusType ==
  ASSUME NEW a \in SeqNums, NEW k \in Nat
  PROVE  Plus(a, k) \in SeqNums
<1>1. a + k \in Int BY SpaceType DEF SeqNums
<1>2. ((a + k) % Space) \in 0 .. (Space - 1)
  <2> HIDE DEF Space
  <2> QED BY <1>1, SpaceType, ModDecomp
<1> QED BY <1>2 DEF Plus, SeqNums

\* The signed difference is an integer, and zero for equal numbers.
LEMMA SeqDiffType ==
  ASSUME NEW a \in SeqNums, NEW b \in SeqNums
  PROVE  Diff(a, b) \in Int /\ Diff(a, a) = 0
<1>1. a - b \in Int /\ a - a = 0 BY SpaceType DEF SeqNums
<1>2. ((a - b) % Space) \in 0 .. (Space - 1)
  <2> HIDE DEF Space
  <2> QED BY <1>1, SpaceType, ModDecomp
<1>3. (0 % Space) = 0
  <2> HIDE DEF Space
  <2> QED BY SpaceType
<1> QED BY <1>1, <1>2, <1>3, SpaceType, HalfSpaceAssumption DEF Diff, Offset

\* A counter's uint32 value is a uint32.
LEMMA WireType ==
  ASSUME NEW a \in Nat
  PROVE  Wire(a) \in SeqNums
<1>1. (a % Space) \in 0 .. (Space - 1)
  <2> HIDE DEF Space
  <2> QED BY SpaceType, ModDecomp
<1> QED BY <1>1 DEF Wire, SeqNums

\* uint32(x + k) of a counter's value is the value k increments later.
LEMMA WirePlus ==
  ASSUME NEW a \in Nat, NEW k \in Nat
  PROVE  Plus(Wire(a), k) = Wire(a + k)
<1>1. ((a % Space) + k) % Space = (a + k) % Space
  <2> HIDE DEF Space
  <2> DEFINE m == Space
  <2>1. m \in Nat \ {0} /\ a \in Int /\ k \in Int BY SpaceType
  <2> HIDE DEF m
  <2>2. ((a % m) + k) % m = (a + k) % m BY <2>1, ModAdd
  <2> QED BY <2>2 DEF m
<1> QED BY <1>1 DEF Plus, Wire

\* Plus(x, Space - 1) is the decrement x - 1 of a uint32.
LEMMA WirePred ==
  ASSUME NEW a \in Nat, a > 0
  PROVE  Plus(Wire(a), Space - 1) = Wire(a - 1)
<1> DEFINE m == Space
<1>1. m \in Nat \ {0} BY SpaceType
<1> HIDE DEF m
<1>2. ((a % m) + (m - 1)) % m = (a + (m - 1)) % m
  <2>1. m - 1 \in Int /\ a \in Int BY <1>1
  <2> QED BY <1>1, <2>1, ModAdd
<1>3. (a + (m - 1)) % m = (a - 1) % m
  <2> DEFINE q == (a - 1) \div m  r == (a - 1) % m
  <2>1. a - 1 \in Int OBVIOUS
  <2>2. a - 1 = (q * m) + r /\ q \in Int /\ r \in 0 .. (m - 1)
    BY <1>1, <2>1, ModDecomp
  <2> HIDE DEF q, r
  <2>3. a + (m - 1) = ((q + 1) * m) + r BY <1>1, <2>2
  <2>4. q + 1 \in Int BY <2>2
  <2>5. (((q + 1) * m) + r) % m = r BY <1>1, <2>2, <2>4, ModUnique
  <2> QED BY <2>3, <2>5 DEF r
<1> QED BY <1>2, <1>3 DEF Plus, Wire, m

\* The uint32 difference of two counters that are less than a space apart.
LEMMA WireOffset ==
  ASSUME NEW a \in Nat, NEW b \in Nat
  PROVE  /\ a >= b /\ a - b < Space => Offset(Wire(a), Wire(b)) = a - b
         /\ a < b /\ b - a <= Space => Offset(Wire(a), Wire(b)) = a - b + Space
<1> DEFINE m == Space
<1>1. m \in Nat \ {0} BY SpaceType
<1> HIDE DEF m
<1>2. ((a % m) - (b % m)) % m = (a - b) % m
  <2>1. a \in Int /\ b \in Int OBVIOUS
  <2> QED BY <1>1, <2>1, ModSub
<1>3. ASSUME a >= b, a - b < m PROVE (a - b) % m = a - b
  <2>1. a - b \in 0 .. (m - 1) BY <1>1, <1>3
  <2>2. ((0 * m) + (a - b)) % m = a - b BY <1>1, <2>1, ModUnique
  <2> QED BY <1>1, <2>2
<1>4. ASSUME a < b, b - a <= m PROVE (a - b) % m = a - b + m
  <2>1. a - b + m \in 0 .. (m - 1) BY <1>1, <1>4
  <2>2. (((-1) * m) + (a - b + m)) % m = a - b + m BY <1>1, <2>1, ModUnique
  <2>3. ((-1) * m) + (a - b + m) = a - b BY <1>1
  <2> QED BY <2>2, <2>3
<1> QED BY <1>2, <1>3, <1>4 DEF Offset, Wire, m

\* int32(a - b) is the difference of the counters when they are at most half
\* the space apart (the last value only on the negative side).
LEMMA WireDiff ==
  ASSUME NEW a \in Nat, NEW b \in Nat, a - b < HalfSpace, b - a <= HalfSpace
  PROVE  Diff(Wire(a), Wire(b)) = a - b
<1>1. CASE a >= b
  <2>1. Offset(Wire(a), Wire(b)) = a - b
    BY <1>1, WireOffset, HalfSpaceAssumption, SpaceType
  <2> QED BY <2>1 DEF Diff
<1>2. CASE a < b
  <2>1. Offset(Wire(a), Wire(b)) = a - b + Space
    BY <1>2, WireOffset, HalfSpaceAssumption, SpaceType
  <2> QED BY <1>2, <2>1, HalfSpaceAssumption, SpaceType DEF Diff
<1> QED BY <1>1, <1>2

\* Two counters less than a space apart have the same number only when equal.
LEMMA WireInjective ==
  ASSUME NEW a \in Nat, NEW b \in Nat, Wire(a) = Wire(b),
         a - b < Space, b - a < Space
  PROVE  a = b
<1>1. Offset(Wire(a), Wire(b)) = Offset(Wire(a), Wire(a)) OBVIOUS
<1>2. Offset(Wire(a), Wire(a)) = 0 BY WireOffset, SpaceType
<1> QED BY <1>1, <1>2, WireOffset, SpaceType
=============================================================================
