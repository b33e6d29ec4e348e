------------------------------ MODULE ModArith ------------------------------
(***************************************************************************)
(* Facts about numbers that the proofs share.  Remainders: indices that    *)
(* wrap at 2^32 and slots taken modulo a ring size.  Least numbers: what a *)
(* loop does, or a CHOOSE of a first one.                                  *)
(***************************************************************************)
EXTENDS Integers, TLAPS, WellFoundedInduction

\* A multiple of m strictly between -m and m is zero.
LEMMA SmallMultiple ==
  ASSUME NEW m \in Nat \ {0}, NEW k \in Int, m * k < m, -m < m * k
  PROVE  k = 0
<1>1. CASE k >= 1
  <2>1. m * k >= m  BY <1>1, SMT
  <2>. QED  BY <2>1, SMT
<1>2. CASE k <= -1
  <2>1. m * k <= -m  BY <1>2, SMT
  <2>. QED  BY <2>1, SMT
<1>. QED  BY <1>1, <1>2

LEMMA Distribute ==
  ASSUME NEW m \in Int, NEW x \in Int, NEW y \in Int
  PROVE  m * (x + y) = m * x + m * y
  BY SMT

LEMMA Associate ==
  ASSUME NEW m \in Int, NEW k \in Int, NEW x \in Int
  PROVE  m * (k * x) = (k * m) * x
  BY SMT

LEMMA Division ==
  ASSUME NEW a \in Int, NEW m \in Nat \ {0}
  PROVE  /\ a \div m \in Int
         /\ a % m \in 0 .. (m - 1)
         /\ a = m * (a \div m) + (a % m)
  BY SMT

\* The remainder is the only r in 0 .. m-1 that differs from a by a multiple of m.
LEMMA RemainderUnique ==
  ASSUME NEW a \in Int, NEW m \in Nat \ {0}, NEW q \in Int,
         NEW r \in 0 .. (m - 1), a = m * q + r
  PROVE  a % m = r
<1>1. /\ a \div m \in Int /\ a % m \in 0 .. (m - 1)
      /\ a = m * (a \div m) + (a % m)
  BY Division
<1> DEFINE k == q - (a \div m)
<1>2. k \in Int  BY <1>1
<1>3. m * k = (a % m) - r
  <2>1. m * k = m * q - m * (a \div m)  BY <1>1, SMT
  <2>. QED  BY <2>1, <1>1, SMT
<1>4. m * k < m /\ -m < m * k  BY <1>1, <1>3, SMT
<1> HIDE DEF k
<1>5. k = 0  BY <1>2, <1>4, SmallMultiple
<1>6. m * k = 0  BY <1>5, SMT
<1>. QED  BY <1>6, <1>3, <1>1, SMT

LEMMA RemainderSmall ==
  ASSUME NEW m \in Nat \ {0}, NEW a \in 0 .. (m - 1)
  PROVE  a % m = a
<1>1. a = m * 0 + a  BY SMT
<1>. QED  BY <1>1, RemainderUnique

\* Adding to a wrapped index and wrapping again.
LEMMA RemainderAdd ==
  ASSUME NEW m \in Nat \ {0}, NEW a \in Int, NEW i \in Int
  PROVE  ((a % m) + i) % m = (a + i) % m
<1> DEFINE b == a + i
           r == b % m
           q == (b \div m) - (a \div m)
<1>1. /\ a \div m \in Int /\ a % m \in 0 .. (m - 1)
      /\ a = m * (a \div m) + (a % m)
  BY Division
<1>2. /\ b \div m \in Int /\ r \in 0 .. (m - 1) /\ b = m * (b \div m) + r
  BY Division
<1>3. q \in Int /\ (a % m) + i \in Int  BY <1>1, <1>2
<1>4. m * q = m * (b \div m) - m * (a \div m)  BY <1>1, <1>2, SMT
<1>5. (a % m) + i = m * q + r  BY <1>1, <1>2, <1>4, SMT
<1> HIDE DEF q, r
<1>6. ((a % m) + i) % m = r  BY <1>2, <1>3, <1>5, RemainderUnique
<1>. QED  BY <1>6 DEF r

\* Taking the remainder of what is subtracted changes nothing either.
LEMMA RemainderSub ==
  ASSUME NEW m \in Nat \ {0}, NEW a \in Int, NEW b \in Int
  PROVE  (a - (b % m)) % m = (a - b) % m
<1> DEFINE q == b \div m
           r == b % m
           p == (a - b) \div m
           s == (a - b) % m
<1>1. q \in Int /\ r \in 0 .. (m - 1) /\ b = m * q + r  BY Division
<1>2. a - b \in Int  BY SMT
<1>3. p \in Int /\ s \in 0 .. (m - 1) /\ a - b = m * p + s  BY <1>2, Division
<1> HIDE DEF q, r, p, s
<1>4. m * (p + q) = m * p + m * q  BY <1>1, <1>3, Distribute
<1> DEFINE x == m * p
           y == m * q
           z == m * (p + q)
<1>5. x \in Int /\ y \in Int /\ z \in Int  BY <1>1, <1>3, SMT
<1>6. b = y + r /\ a - b = x + s /\ z = x + y  BY <1>1, <1>3, <1>4
<1> HIDE DEF x, y, z
<1>7. a - r = z + s  BY <1>1, <1>3, <1>5, <1>6
<1>8. a - r \in Int /\ p + q \in Int  BY <1>1, <1>3
<1>9. (a - r) % m = s  BY <1>3, <1>7, <1>8, RemainderUnique DEF z
<1>. QED  BY <1>9 DEF r, s

\* The distance between two wrapped indices less than one wrap apart.
LEMMA RemainderDistance ==
  ASSUME NEW m \in Nat \ {0}, NEW a \in Int, NEW b \in Int,
         a - b \in 0 .. (m - 1)
  PROVE  ((a % m) - (b % m)) % m = a - b
<1> DEFINE q == (b \div m) - (a \div m)
           d == (a % m) - (b % m)
<1>1. /\ a \div m \in Int /\ a % m \in 0 .. (m - 1)
      /\ a = m * (a \div m) + (a % m)
  BY Division
<1>2. /\ b \div m \in Int /\ b % m \in 0 .. (m - 1)
      /\ b = m * (b \div m) + (b % m)
  BY Division
<1>3. q \in Int /\ d \in Int  BY <1>1, <1>2
<1>4. m * q = m * (b \div m) - m * (a \div m)  BY <1>1, <1>2, SMT
<1>5. d = m * q + (a - b)
  <2>1. a % m = a - m * (a \div m)  BY <1>1, SMT
  <2>2. b % m = b - m * (b \div m)  BY <1>2, SMT
  <2>. QED  BY <2>1, <2>2, <1>1, <1>2, <1>4, SMT
<1> HIDE DEF q, d
<1>6. d % m = a - b  BY <1>3, <1>5, RemainderUnique
<1>. QED  BY <1>6 DEF d

\* The slot of an index is the same before and after the index wraps, when the
\* wrap is a whole number of laps.
LEMMA RemainderOfRemainder ==
  ASSUME NEW m \in Nat \ {0}, NEW k \in Nat \ {0}, NEW a \in Int
  PROVE  (a % (k * m)) % m = a % m
<1> DEFINE w == k * m
           s == a % w
           q == k * (a \div w) + (s \div m)
<1>0. w \in Nat \ {0}  BY SMT
<1>1. /\ a \div w \in Int /\ s \in 0 .. (w - 1) /\ a = w * (a \div w) + s
  BY <1>0, Division
<1>2. s \in Int  BY <1>0, <1>1
<1>3. /\ s \div m \in Int /\ s % m \in 0 .. (m - 1)
      /\ s = m * (s \div m) + (s % m)
  BY <1>2, Division
<1>4. q \in Int  BY <1>1, <1>3
<1>5. m * q = w * (a \div w) + m * (s \div m)
  <2>1. k * (a \div w) \in Int  BY <1>1, SMT
  <2>2. m * q = m * (k * (a \div w)) + m * (s \div m)
    BY <2>1, <1>3, Distribute
  <2>3. m * (k * (a \div w)) = (k * m) * (a \div w)  BY <1>1, Associate
  <2>. QED  BY <2>2, <2>3
<1>6. a = m * q + (s % m)  BY <1>1, <1>3, <1>5, SMT
<1> HIDE DEF q
<1>7. a % m = s % m  BY <1>3, <1>4, <1>6, RemainderUnique
<1>. QED  BY <1>7

\* Indices less than one lap apart have different slots.
LEMMA RemainderDistinct ==
  ASSUME NEW m \in Nat \ {0}, NEW a \in Int, NEW b \in Int,
         a # b, a - b < m, b - a < m
  PROVE  a % m # b % m
<1> SUFFICES ASSUME a % m = b % m  PROVE FALSE
  OBVIOUS
<1> DEFINE k == (a \div m) - (b \div m)
<1>1. /\ a \div m \in Int /\ a % m \in 0 .. (m - 1)
      /\ a = m * (a \div m) + (a % m)
  BY Division
<1>2. /\ b \div m \in Int /\ b = m * (b \div m) + (b % m)
  BY Division
<1>3. k \in Int  BY <1>1, <1>2
<1>4. m * k = m * (a \div m) - m * (b \div m)  BY <1>1, <1>2, SMT
<1>5. m * k = a - b  BY <1>1, <1>2, <1>4, SMT
<1> HIDE DEF k
<1>6. k = 0  BY <1>3, <1>5, SmallMultiple
<1>7. m * k = 0  BY <1>6, SMT
<1>. QED  BY <1>5, <1>7

-----------------------------------------------------------------------------
\* A set of numbers that is not empty has a least one.
LEMMA LeastNat ==
  ASSUME NEW T \in SUBSET Nat, T # {}
  PROVE  \E x \in T : \A y \in T : x <= y
<1> DEFINE R == {ss \in Nat \X Nat : ss[1] < ss[2]}
<1>1. IsWellFoundedOn(R, Nat)
  BY NatLessThanWellFounded DEF OpToRel
<1> HIDE DEF R
<1>2. PICK x \in T : \A y \in T : ~ (<< y, x >> \in R)
  BY <1>1, WFMin
<1>3. \A y \in T : << y, x >> \in R \/ x <= y
  BY DEF R
<1>. QED  BY <1>2, <1>3

\* Induction up to n, over the set of the numbers of which a fact holds.
LEMMA UpTo ==
  ASSUME NEW n \in Nat, NEW S, 0 \in S, \A k \in 0 .. (n - 1) : k \in S => k + 1 \in S
  PROVE  0 .. n \subseteq S
<1> DEFINE T == {k \in 0 .. n : k \notin S}
<1> SUFFICES ASSUME T # {}  PROVE FALSE
  OBVIOUS
<1>1. T \in SUBSET Nat  OBVIOUS
<1>2. PICK x \in T : \A y \in T : x <= y  BY <1>1, LeastNat
<1>3. x # 0 /\ x \in 0 .. n  OBVIOUS
<1>4. x - 1 \in 0 .. (n - 1)  BY <1>3
<1>5. x - 1 \in S  BY <1>2, <1>4
<1>. QED  BY <1>3, <1>4, <1>5
=============================================================================
