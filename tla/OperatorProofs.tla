--------------------------- MODULE OperatorProofs ---------------------------
(***************************************************************************)
(* Lemmas about the operators that the models are built from.  The share   *)
(* algebra of Words is right for every word size: the two output shares of *)
(* an operation, each computed from the party's own shares, its material   *)
(* and the peer's blinded values, combine to the operation on the two      *)
(* secrets.  LinkOK of Fifo survives reading, writing and cutting a queue. *)
(*                                                                         *)
(* Induction is stated for a set of numbers: the provers cannot use a      *)
(* theorem that takes an operator as a parameter.                          *)
(***************************************************************************)
EXTENDS Words, Fifo, SequenceTheorems, WellFoundedInduction, TLAPS

\* Every integer is a multiple of m plus its residue.
LEMMA DivMod ==
  ASSUME NEW m \in Nat \ {0}, NEW a \in Int
  PROVE  a % m \in 0 .. (m - 1) /\ \E q \in Int : a = m * q + (a % m)
<1>1. a % m \in 0 .. (m - 1)
  OBVIOUS
<1>2. a = m * (a \div m) + (a % m) /\ a \div m \in Int
  OBVIOUS
<1> QED
  BY <1>1, <1>2

\* The residue is the only such remainder.
LEMMA ModUnique ==
  ASSUME NEW m \in Nat \ {0}, NEW a \in Int, NEW q \in Int,
         NEW r \in 0 .. (m - 1), a = m * q + r
  PROVE  a % m = r
<1>1. PICK k \in Int : a = m * k + (a % m)
  BY DivMod
<1>2. a % m \in 0 .. (m - 1)
  BY DivMod
<1>3. m * (q - k) = (a % m) - r
  BY <1>1, <1>2
<1>4. CASE q - k >= 1
  <2>1. m * (q - k) >= m
    BY <1>4
  <2> QED
    BY <2>1, <1>2, <1>3
<1>5. CASE q - k <= -1
  <2>1. m * (q - k) <= -m
    BY <1>5
  <2> QED
    BY <2>1, <1>2, <1>3
<1>6. CASE q = k
  BY <1>6, <1>1, <1>2
<1> QED
  BY <1>4, <1>5, <1>6

\* Wrapping around does not change a residue.
LEMMA ModShift ==
  ASSUME NEW m \in Nat \ {0}, NEW a \in Int, NEW q \in Int
  PROVE  (a + m * q) % m = a % m
<1>1. PICK k \in Int : a = m * k + (a % m)
  BY DivMod
<1>2. a % m \in 0 .. (m - 1)
  BY DivMod
<1>3. a + m * q = m * (k + q) + (a % m)
  BY <1>1, <1>2
<1>4. a + m * q \in Int /\ k + q \in Int
  OBVIOUS
<1> QED
  BY <1>2, <1>3, <1>4, ModUnique

\* Residues may be taken before an addition ...
LEMMA ModAdd ==
  ASSUME NEW m \in Nat \ {0}, NEW a \in Int, NEW b \in Int
  PROVE  ((a % m) + (b % m)) % m = (a + b) % m
<1>1. PICK j \in Int : a = m * j + (a % m)
  BY DivMod
<1>2. PICK k \in Int : b = m * k + (b % m)
  BY DivMod
<1>3. a % m \in Int /\ b % m \in Int
  BY DivMod
<1> DEFINE r == a % m
           s == b % m
<1> HIDE DEF r, s
<1>4. r \in Int /\ s \in Int /\ a = m * j + r /\ b = m * k + s
  BY <1>1, <1>2, <1>3 DEF r, s
<1>5. a + b = (r + s) + m * (j + k)
  BY <1>4
<1>6. r + s \in Int /\ j + k \in Int
  BY <1>4
<1>7. ((r + s) + m * (j + k)) % m = (r + s) % m
  BY <1>6, ModShift
<1> QED
  BY <1>5, <1>7 DEF r, s

\* ... or a multiplication.
LEMMA ModMul ==
  ASSUME NEW m \in Nat \ {0}, NEW a \in Int, NEW b \in Int
  PROVE  ((a % m) * (b % m)) % m = (a * b) % m
<1>1. PICK j \in Int : a = m * j + (a % m)
  BY DivMod
<1>2. PICK k \in Int : b = m * k + (b % m)
  BY DivMod
<1>3. a % m \in Int /\ b % m \in Int
  BY DivMod
<1> DEFINE r == a % m
           s == b % m
           c == r * s
           q == m * j * k + j * s + k * r
<1> HIDE DEF r, s
<1>4. r \in Int /\ s \in Int /\ a = m * j + r /\ b = m * k + s
  BY <1>1, <1>2, <1>3 DEF r, s
<1>5. q \in Int /\ c \in Int
  BY <1>4
<1>6. a * b = (m * j + r) * (m * k + s)
  BY <1>4
<1>7. (m * j + r) * (m * k + s) = c + m * q
  BY <1>4
<1> HIDE DEF c, q
<1>8. (c + m * q) % m = c % m
  BY <1>5, ModShift
<1> QED
  BY <1>6, <1>7, <1>8 DEF c, r, s

-----------------------------------------------------------------------------
\* One party's output of mpc_mul before it is truncated to a word: u and v are
\* the values the peer blinded, b is the party's own Y, g its gamma.
Beaver(x, y, b, u, v, g) == x * (y + v) - b * u + g

\* The wrap-arounds of the peer's messages and of gamma vanish.
LEMMA MulShareResidue ==
  ASSUME NEW x, NEW y, NEW b, NEW g, NEW u, NEW v,
         x \in Int /\ y \in Int /\ b \in Int, g \in Int /\ u \in Int /\ v \in Int
  PROVE  Wrap(Beaver(x, y, b, Wrap(u), Wrap(v), Wrap(g))) = Wrap(Beaver(x, y, b, u, v, g))
<1> DEFINE m == Modulus
<1>m. m \in Nat \ {0}
  BY WordSize
<1> HIDE DEF m
<1>1. PICK i \in Int : u = m * i + (u % m)
  BY <1>m, DivMod
<1>2. PICK j \in Int : v = m * j + (v % m)
  BY <1>m, DivMod
<1>3. PICK k \in Int : g = m * k + (g % m)
  BY <1>m, DivMod
<1> DEFINE r == u % m
           s == v % m
           t == g % m
           a == x * (y + s) - b * r + t
           q == x * j - b * i + k
<1>4. r \in Int /\ s \in Int /\ t \in Int
  BY <1>m, DivMod
<1> HIDE DEF r, s, t
<1>5. u = m * i + r /\ v = m * j + s /\ g = m * k + t
  BY <1>1, <1>2, <1>3 DEF r, s, t
<1>6. a \in Int /\ q \in Int
  BY <1>4
<1>7. x * (y + (m * j + s)) - b * (m * i + r) + (m * k + t) = a + m * q
  BY <1>4, <1>m
<1> HIDE DEF a, q
<1>8. (a + m * q) % m = a % m
  BY <1>m, <1>6, ModShift
<1>9. x * (y + v) - b * u + g = a + m * q
  BY <1>5, <1>7
<1> QED
  BY <1>8, <1>9 DEF Beaver, Wrap, a, r, s, t, m

\* Two parties with any material whose cross terms the gammas cancel.
LEMMA MulAlgebra ==
  ASSUME NEW x0 \in Int, NEW x1 \in Int, NEW y0 \in Int, NEW y1 \in Int,
         NEW xa \in Int, NEW ya \in Int, NEW xb \in Int, NEW yb \in Int,
         NEW g0 \in Int, NEW g1 \in Int,
         g0 + g1 = ya * xb + yb * xa
  PROVE  (x0 * (y0 + (y1 + yb)) - ya * (x1 + xb) + g0)
           + (x1 * (y1 + (y0 + ya)) - yb * (x0 + xa) + g1)
           = (x0 + x1) * (y0 + y1)
<1>1. (x0 * (y0 + (y1 + yb)) - ya * (x1 + xb))
         + (x1 * (y1 + (y0 + ya)) - yb * (x0 + xa)) + (ya * xb + yb * xa)
         = (x0 + x1) * (y0 + y1)
  OBVIOUS
<1> DEFINE e0 == x0 * (y0 + (y1 + yb)) - ya * (x1 + xb)
           e1 == x1 * (y1 + (y0 + ya)) - yb * (x0 + xa)
           c == ya * xb + yb * xa
           z == (x0 + x1) * (y0 + y1)
<1>2. e0 \in Int /\ e1 \in Int /\ c \in Int /\ z \in Int
  OBVIOUS
<1>3. e0 + e1 + c = z /\ g0 + g1 = c
  BY <1>1
<1> HIDE DEF e0, e1, c, z
<1>4. (e0 + g0) + (e1 + g1) = z
  BY <1>2, <1>3
<1> QED
  BY <1>4 DEF e0, e1, z

Quad == [X0 : AWord, Y0 : AWord, X1 : AWord, Y1 : AWord]

\* The output shares of mpc_mul with the material read from the wire.
LEMMA MulWireCorrect ==
  ASSUME NEW x0 \in AWord, NEW x1 \in AWord, NEW y0 \in AWord, NEW y1 \in AWord,
         NEW d \in Quad
  PROVE  LET m0 == MulWire("P0", d)
             m1 == MulWire("P1", d)
         IN  CombineA(MulShare(x0, y0, m0, MulBlind(x1, y1, m1)),
                      MulShare(x1, y1, m1, MulBlind(x0, y0, m0)))
               = Wrap(CombineA(x0, x1) * CombineA(y0, y1))
<1> DEFINE m == Modulus
           p0 == Beaver(x0, y0, d.X1, x1 + d.Y0, y1 + d.Y1, d.X0 * d.Y1)
           p1 == Beaver(x1, y1, d.Y1, x0 + d.X0, y0 + d.X1, d.X1 * d.Y0)
<1>m. m \in Nat \ {0} /\ AWord \subseteq Int
  BY WordSize DEF AWord
<1>d. d.X0 \in Int /\ d.Y0 \in Int /\ d.X1 \in Int /\ d.Y1 \in Int
  BY <1>m DEF Quad
<1>x. x0 \in Int /\ x1 \in Int /\ y0 \in Int /\ y1 \in Int
  BY <1>m
<1>1. MulShare(x0, y0, MulWire("P0", d), MulBlind(x1, y1, MulWire("P1", d))) = Wrap(p0)
  <2> DEFINE u == x1 + d.Y0
             v == y1 + d.Y1
             g == d.X0 * d.Y1
             b == d.X1
  <2>1. u \in Int /\ v \in Int /\ g \in Int /\ b \in Int
    BY <1>d, <1>x
  <2> HIDE DEF u, v, g, b
  <2>2. Wrap(Beaver(x0, y0, b, Wrap(u), Wrap(v), Wrap(g))) = Wrap(Beaver(x0, y0, b, u, v, g))
    BY <2>1, <1>x, MulShareResidue
  <2> QED
    BY <2>2 DEF MulShare, MulWire, MulBlind, Beaver, u, v, g, b
<1>2. MulShare(x1, y1, MulWire("P1", d), MulBlind(x0, y0, MulWire("P0", d))) = Wrap(p1)
  <2> DEFINE u == x0 + d.X0
             v == y0 + d.X1
             g == d.X1 * d.Y0
             b == d.Y1
  <2>1. u \in Int /\ v \in Int /\ g \in Int /\ b \in Int
    BY <1>d, <1>x
  <2> HIDE DEF u, v, g, b
  <2>2. Wrap(Beaver(x1, y1, b, Wrap(u), Wrap(v), Wrap(g))) = Wrap(Beaver(x1, y1, b, u, v, g))
    BY <2>1, <1>x, MulShareResidue
  <2> QED
    BY <2>2 DEF MulShare, MulWire, MulBlind, Beaver, u, v, g, b
<1>3. p0 \in Int /\ p1 \in Int
  BY <1>d, <1>x DEF Beaver
<1>4. p0 + p1 = (x0 + x1) * (y0 + y1)
  <2>1. d.X0 * d.Y1 \in Int /\ d.X1 * d.Y0 \in Int
    BY <1>d
  <2>2. d.X0 * d.Y1 + d.X1 * d.Y0 = d.X1 * d.Y0 + d.Y1 * d.X0
    BY <1>d
  <2> QED
    BY <2>1, <2>2, <1>d, <1>x, MulAlgebra DEF Beaver
<1> HIDE DEF p0, p1
<1>5. ((p0 % m) + (p1 % m)) % m = (p0 + p1) % m
  BY <1>m, <1>3, ModAdd
<1>6. x0 + x1 \in Int /\ y0 + y1 \in Int
  BY <1>x
<1>7. (((x0 + x1) % m) * ((y0 + y1) % m)) % m = ((x0 + x1) * (y0 + y1)) % m
  BY <1>m, <1>6, ModMul
<1> QED
  BY <1>1, <1>2, <1>4, <1>5, <1>7 DEF CombineA, Wrap

\* The output shares of mpc_mul with the material read from the tapes.
LEMMA MulTapeCorrect ==
  ASSUME NEW x0 \in AWord, NEW x1 \in AWord, NEW y0 \in AWord, NEW y1 \in AWord,
         NEW d \in Quad
  PROVE  LET m0 == MulTape("P0", d)
             m1 == MulTape("P1", d)
         IN  CombineA(MulShare(x0, y0, m0, MulBlind(x1, y1, m1)),
                      MulShare(x1, y1, m1, MulBlind(x0, y0, m0)))
               = Wrap(CombineA(x0, x1) * CombineA(y0, y1))
<1> DEFINE m == Modulus
           p0 == Beaver(x0, y0, d.Y0, x1 + d.X1, y1 + d.Y1, d.X0 * d.Y1)
           p1 == Beaver(x1, y1, d.Y1, x0 + d.X0, y0 + d.Y0, d.X1 * d.Y0)
<1>m. m \in Nat \ {0} /\ AWord \subseteq Int
  BY WordSize DEF AWord
<1>d. d.X0 \in Int /\ d.Y0 \in Int /\ d.X1 \in Int /\ d.Y1 \in Int
  BY <1>m DEF Quad
<1>x. x0 \in Int /\ x1 \in Int /\ y0 \in Int /\ y1 \in Int
  BY <1>m
<1>1. MulShare(x0, y0, MulTape("P0", d), MulBlind(x1, y1, MulTape("P1", d))) = Wrap(p0)
  <2> DEFINE u == x1 + d.X1
             v == y1 + d.Y1
             g == d.X0 * d.Y1
             b == d.Y0
  <2>1. u \in Int /\ v \in Int /\ g \in Int /\ b \in Int
    BY <1>d, <1>x
  <2> HIDE DEF u, v, g, b
  <2>2. Wrap(Beaver(x0, y0, b, Wrap(u), Wrap(v), Wrap(g))) = Wrap(Beaver(x0, y0, b, u, v, g))
    BY <2>1, <1>x, MulShareResidue
  <2> QED
    BY <2>2 DEF MulShare, MulTape, MulBlind, Beaver, u, v, g, b
<1>2. MulShare(x1, y1, MulTape("P1", d), MulBlind(x0, y0, MulTape("P0", d))) = Wrap(p1)
  <2> DEFINE u == x0 + d.X0
             v == y0 + d.Y0
             g == d.X1 * d.Y0
             b == d.Y1
  <2>1. u \in Int /\ v \in Int /\ g \in Int /\ b \in Int
    BY <1>d, <1>x
  <2> HIDE DEF u, v, g, b
  <2>2. Wrap(Beaver(x1, y1, b, Wrap(u), Wrap(v), Wrap(g))) = Wrap(Beaver(x1, y1, b, u, v, g))
    BY <2>1, <1>x, MulShareResidue
  <2> QED
    BY <2>2 DEF MulShare, MulTape, MulBlind, Beaver, u, v, g, b
<1>3. p0 \in Int /\ p1 \in Int
  BY <1>d, <1>x DEF Beaver
<1>4. p0 + p1 = (x0 + x1) * (y0 + y1)
  <2>1. d.X0 * d.Y1 \in Int /\ d.X1 * d.Y0 \in Int
    BY <1>d
  <2>2. d.X0 * d.Y1 + d.X1 * d.Y0 = d.Y0 * d.X1 + d.Y1 * d.X0
    BY <1>d
  <2> QED
    BY <2>1, <2>2, <1>d, <1>x, MulAlgebra DEF Beaver
<1> HIDE DEF p0, p1
<1>5. ((p0 % m) + (p1 % m)) % m = (p0 + p1) % m
  BY <1>m, <1>3, ModAdd
<1>6. x0 + x1 \in Int /\ y0 + y1 \in Int
  BY <1>x
<1>7. (((x0 + x1) % m) * ((y0 + y1) % m)) % m = ((x0 + x1) * (y0 + y1)) % m
  BY <1>m, <1>6, ModMul
<1> QED
  BY <1>1, <1>2, <1>4, <1>5, <1>7 DEF CombineA, Wrap

-----------------------------------------------------------------------------
XQuad == [X0 : XWord, Y0 : XWord, X1 : XWord, Y1 : XWord]

\* The output shares of mpc_and.
LEMMA AndCorrect ==
  ASSUME NEW x0 \in XWord, NEW x1 \in XWord, NEW y0 \in XWord, NEW y1 \in XWord,
         NEW d \in XQuad
  PROVE  LET m0 == AndTriple("P0", d)
             m1 == AndTriple("P1", d)
         IN  CombineX(AndShare(x0, y0, m0, AndBlind(x1, y1, m1)),
                      AndShare(x1, y1, m1, AndBlind(x0, y0, m0)))
               = CombineX(x0, x1) \cap CombineX(y0, y1)
<1> DEFINE X0 == d.X0
           Y0 == d.Y0
           X1 == d.X1
           Y1 == d.Y1
<1>1. /\ AndShare(x0, y0, AndTriple("P0", d), AndBlind(x1, y1, AndTriple("P1", d)))
           = Xor(Xor(x0 \cap Xor(y0, Xor(y1, Y1)), Y0 \cap Xor(x1, X1)), X0 \cap Y1)
      /\ AndShare(x1, y1, AndTriple("P1", d), AndBlind(x0, y0, AndTriple("P0", d)))
           = Xor(Xor(x1 \cap Xor(y1, Xor(y0, Y0)), Y1 \cap Xor(x0, X0)), X1 \cap Y0)
  BY DEF AndTriple, AndBlind, AndShare
<1> HIDE DEF X0, Y0, X1, Y1
<1>2. ASSUME NEW a, NEW b, NEW i PROVE i \in Xor(a, b) <=> ~(i \in a <=> i \in b)
  BY DEF Xor
<1>3. ASSUME NEW i
      PROVE  i \in Xor(Xor(Xor(x0 \cap Xor(y0, Xor(y1, Y1)), Y0 \cap Xor(x1, X1)), X0 \cap Y1),
                       Xor(Xor(x1 \cap Xor(y1, Xor(y0, Y0)), Y1 \cap Xor(x0, X0)), X1 \cap Y0))
             <=> i \in Xor(x0, x1) \cap Xor(y0, y1)
  BY <1>2
<1> QED
  BY <1>1, <1>3 DEF CombineX

\* The output shares of mpc_or, XOR plus AND.
LEMMA OrCorrect ==
  ASSUME NEW x0 \in XWord, NEW x1 \in XWord, NEW y0 \in XWord, NEW y1 \in XWord,
         NEW d \in XQuad
  PROVE  LET m0 == AndTriple("P0", d)
             m1 == AndTriple("P1", d)
         IN  CombineX(OrShare(x0, y0, m0, AndBlind(x1, y1, m1)),
                      OrShare(x1, y1, m1, AndBlind(x0, y0, m0)))
               = CombineX(x0, x1) \cup CombineX(y0, y1)
<1> DEFINE a0 == AndShare(x0, y0, AndTriple("P0", d), AndBlind(x1, y1, AndTriple("P1", d)))
           a1 == AndShare(x1, y1, AndTriple("P1", d), AndBlind(x0, y0, AndTriple("P0", d)))
<1>1. Xor(a0, a1) = Xor(x0, x1) \cap Xor(y0, y1)
  BY AndCorrect DEF CombineX
<1> HIDE DEF a0, a1
<1>2. Xor(Xor(Xor(x0, y0), a0), Xor(Xor(x1, y1), a1)) = Xor(x0, x1) \cup Xor(y0, y1)
  BY <1>1 DEF Xor
<1> QED
  BY <1>2 DEF OrShare, CombineX, a0, a1

-----------------------------------------------------------------------------
(* Induction, and what it shows of bits and of the OR tree of mpc_eqz.     *)

\* A set of natural numbers that is not empty has a least element.
LEMMA Least ==
  ASSUME NEW T, T \subseteq Nat, T # {}
  PROVE  \E m \in T : \A k \in T : m <= k
<1> DEFINE R == OpToRel(<, Nat)
<1>1. IsWellFoundedOn(R, Nat)
  BY NatLessThanWellFounded
<1>2. \A x, y \in Nat : <<x, y>> \in R <=> x < y
  BY DEF OpToRel
<1> HIDE DEF R
<1>3. PICK x \in T : \A y \in T : ~(<<y, x>> \in R)
  BY <1>1, WFMin, Zenon
<1>4. \A y \in T : ~(y < x)
  BY <1>2, <1>3
<1>5. \A y \in T : x <= y
  BY <1>3, <1>4
<1> QED
  BY <1>3, <1>5

\* Induction, for a property that is given as a set.
LEMMA Induction ==
  ASSUME NEW T, 0 \in T, \A n \in Nat : n \in T => n + 1 \in T
  PROVE  Nat \subseteq T
<1> DEFINE M == {n \in Nat : n \notin T}
<1>1. SUFFICES ASSUME M # {} PROVE FALSE
  OBVIOUS
<1>2. M \subseteq Nat
  OBVIOUS
<1> HIDE DEF M
<1>3. PICK m \in M : \A k \in M : m <= k
  BY <1>1, <1>2, Least
<1>4. m \in Nat /\ m # 0 /\ m - 1 \in Nat
  BY <1>3 DEF M
<1>5. m - 1 \in T
  BY <1>3, <1>4 DEF M
<1> QED
  BY <1>3, <1>4, <1>5 DEF M

\* Shifting by one more bit halves.
LEMMA DivTwice ==
  ASSUME NEW n \in Nat, NEW p \in Nat \ {0}
  PROVE  n \div p = 2 * (n \div (2 * p)) + ((n \div p) % 2)
<1> DEFINE a == n \div p
           b == n \div (2 * p)
<1>1. a \in Int /\ a * p <= n /\ n < a * p + p
  OBVIOUS
<1>2. b \in Int /\ b * (2 * p) <= n /\ n < b * (2 * p) + 2 * p
  OBVIOUS
<1>3. a % 2 \in {0, 1} /\ a = 2 * (a \div 2) + (a % 2) /\ a \div 2 \in Int
  BY <1>1
<1> HIDE DEF a, b
<1> DEFINE h == a \div 2
           e == a % 2
<1>4. h \in Int /\ e \in {0, 1} /\ a = 2 * h + e
  BY <1>3
<1> HIDE DEF h, e
<1>5. (2 * h) * p <= n /\ n < (2 * h) * p + 2 * p
  <2>1. CASE e = 0
    BY <2>1, <1>4, <1>1
  <2>2. CASE e = 1
    <3>1. a * p = (2 * h) * p + p
      BY <2>2, <1>4
    <3> QED
      BY <3>1, <1>1, <1>4
  <2> QED
    BY <2>1, <2>2, <1>4
<1>6. h = b
  <2>1. (2 * h) * p = h * (2 * p) /\ h * (2 * p) \in Int /\ b * (2 * p) \in Int
    BY <1>4, <1>2
  <2>2. (h - b) * (2 * p) < 2 * p /\ (b - h) * (2 * p) < 2 * p
    BY <2>1, <1>5, <1>2, <1>4
  <2>3. CASE h - b >= 1
    <3>1. (h - b) * (2 * p) >= 2 * p
      BY <2>3, <1>4, <1>2
    <3> QED
      BY <3>1, <2>2, <1>4, <1>2
  <2>4. CASE b - h >= 1
    <3>1. (b - h) * (2 * p) >= 2 * p
      BY <2>4, <1>4, <1>2
    <3> QED
      BY <3>1, <2>2, <1>4, <1>2
  <2> QED
    BY <2>3, <2>4, <1>4, <1>2
<1> QED
  BY <1>4, <1>6 DEF a, b, e, h

\* Words with the same bits are equal.
LEMMA BitsInjective ==
  ASSUME NEW m \in AWord, NEW n \in AWord, Bits(m) = Bits(n)
  PROVE  m = n
<1>0. m \in Nat /\ n \in Nat /\ W \in Nat /\ m < 2 ^ W /\ n < 2 ^ W /\ 2 ^ W \in Nat \ {0}
  BY WordSize DEF AWord, Modulus
<1> DEFINE T == {k \in Nat : k <= W => m \div 2 ^ (W - k) = n \div 2 ^ (W - k)}
<1>1. 0 \in T
  <2>1. W - 0 = W
    BY <1>0
  <2> DEFINE p == 2 ^ W
  <2>2. p \in Nat \ {0} /\ m < p /\ n < p
    BY <1>0
  <2> HIDE DEF p
  <2>3. m \div p = 0 /\ n \div p = 0
    BY <1>0, <2>2
  <2> QED
    BY <2>1, <2>3 DEF p
<1>2. ASSUME NEW k \in Nat, k \in T PROVE k + 1 \in T
  <2>1. SUFFICES ASSUME k + 1 <= W PROVE m \div 2 ^ (W - (k + 1)) = n \div 2 ^ (W - (k + 1))
    OBVIOUS
  <2> DEFINE i == W - (k + 1)
             p == 2 ^ i
  <2>2. i \in 0 .. (W - 1) /\ i + 1 = W - k /\ k <= W
    BY <2>1, <1>0
  <2>3. m \div 2 ^ (i + 1) = n \div 2 ^ (i + 1)
    BY <1>2, <2>2
  <2> HIDE DEF i
  <2>4. p \in Nat \ {0} /\ 2 ^ (i + 1) = 2 * p
    BY <2>2, PowersOfTwo
  <2>5. i \in Bits(m) <=> i \in Bits(n)
    OBVIOUS
  <2>6. (m \div p) % 2 = 1 <=> (n \div p) % 2 = 1
    BY <2>2, <2>5 DEF Bits
  <2> HIDE DEF p
  <2>7. m \div (2 * p) = n \div (2 * p)
    BY <2>3, <2>4
  <2>8. (m \div p) % 2 \in {0, 1} /\ (n \div p) % 2 \in {0, 1}
    BY <2>4, <1>0
  <2>9. (m \div p) % 2 = (n \div p) % 2
    BY <2>6, <2>8
  <2>10. m \div p = n \div p
    <3>1. /\ m \div p = 2 * (m \div (2 * p)) + ((m \div p) % 2)
          /\ n \div p = 2 * (n \div (2 * p)) + ((n \div p) % 2)
      BY <2>4, <1>0, DivTwice
    <3> QED
      BY <3>1, <2>7, <2>9, Zenon
  <2> QED
    BY <2>10 DEF p, i
<1> HIDE DEF T
<1>3. Nat \subseteq T
  BY <1>1, <1>2, Induction
<1>4. m \div 2 ^ (W - W) = n \div 2 ^ (W - W)
  <2>1. W \in T
    BY <1>3, <1>0
  <2> QED
    BY <2>1, <1>0 DEF T
<1>5. W - W = 0
  BY <1>0
<1> QED
  <2>1. m \div 1 = n \div 1
    BY <1>4, <1>5, PowersOfTwo, Zenon
  <2> QED
    BY <2>1, <1>0

\* The root of the tree is set exactly if a leaf is: the leaves are the bits of
\* w, and the j-th OR takes the nodes 2j-1 and 2j.
LEMMA OrTree ==
  ASSUME NEW w \in XWord, NEW N,
         \A i \in 1 .. W : N[i] = BitOf(w, i - 1),
         \A j \in 1 .. (W - 1) : N[W + j] = N[2 * j - 1] \cup N[2 * j]
  PROVE  N[2 * W - 1] = IF w = {} THEN {} ELSE {0}
<1>0. W \in Nat \ {0}
  BY WordSize
<1>1. ASSUME NEW i \in 1 .. (2 * W - 1)
      PROVE  N[i] \subseteq (IF w = {} THEN {} ELSE {0})
  <2> DEFINE E == IF w = {} THEN {} ELSE {0}
             T == {k \in 1 .. (2 * W - 1) : ~(N[k] \subseteq E)}
  <2>1. SUFFICES ASSUME T # {} PROVE FALSE
    OBVIOUS
  <2>2. T \subseteq Nat
    BY <1>0
  <2>3. PICK m \in T : \A k \in T : m <= k
    <3> HIDE DEF T
    <3> QED
      BY <2>1, <2>2, Least
  <2>4. m \in 1 .. (2 * W - 1) /\ ~(N[m] \subseteq E)
    BY <2>3
  <2>5. m > W
    <3>1. SUFFICES ASSUME m \in 1 .. W PROVE FALSE
      BY <2>4, <1>0
    <3>2. N[m] = BitOf(w, m - 1)
      BY <3>1
    <3> QED
      BY <3>2, <2>4 DEF BitOf
  <2> DEFINE j == m - W
  <2>6. j \in 1 .. (W - 1) /\ m = W + j /\ 2 * j - 1 \in 1 .. (2 * W - 1) /\ 2 * j \in 1 .. (2 * W - 1)
        /\ 2 * j - 1 < m /\ 2 * j < m
    BY <2>4, <2>5, <1>0
  <2>7. N[m] = N[2 * j - 1] \cup N[2 * j]
    BY <2>6
  <2> HIDE DEF j, E
  <2>8. N[2 * j - 1] \subseteq E /\ N[2 * j] \subseteq E
    <3>1. 2 * j - 1 \notin T /\ 2 * j \notin T
      BY <2>3, <2>4, <2>6
    <3> QED
      BY <3>1, <2>6
  <2> QED
    BY <2>4, <2>7, <2>8
<1>2. ASSUME w # {} PROVE 0 \in N[2 * W - 1]
  <2>1. PICK b \in w : b \in 0 .. (W - 1)
    BY <1>2 DEF XWord
  <2>2. N[b + 1] = {0} /\ b + 1 \in 1 .. W
    <3>1. b + 1 \in 1 .. W /\ (b + 1) - 1 = b
      BY <2>1, <1>0
    <3>2. N[b + 1] = BitOf(w, b)
      BY <3>1
    <3> QED
      BY <3>1, <3>2, <2>1 DEF BitOf
  <2> DEFINE T == {k \in 0 .. (2 * W - 2) : 0 \in N[2 * W - 1 - k]}
             q0 == 2 * W - 2 - b
  <2>3. q0 \in 0 .. (2 * W - 2) /\ 2 * W - 1 - q0 = b + 1
    BY <2>1, <1>0
  <2>4. q0 \in T
    BY <2>2, <2>3
  <2>5. T \subseteq Nat /\ T # {}
    BY <2>4, <1>0
  <2>6. PICK m \in T : \A k \in T : m <= k
    <3> HIDE DEF T
    <3> QED
      BY <2>5, Least
  <2> DEFINE q == 2 * W - 1 - m
             j == (q + 1) \div 2
  <2>7. q \in 1 .. (2 * W - 1) /\ 0 \in N[q] /\ m \in 0 .. (2 * W - 2)
    BY <2>6, <1>0
  <2>8. CASE q = 2 * W - 1
    BY <2>7, <2>8
  <2>9. CASE q < 2 * W - 1
    <3>0. q \in Int
      BY <2>7
    <3> HIDE DEF q
    <3>1. j \in Int /\ (q = 2 * j - 1 \/ q = 2 * j)
      BY <3>0
    <3> HIDE DEF j
    <3>2. j \in 1 .. (W - 1) /\ q < W + j /\ W + j <= 2 * W - 1
      BY <3>1, <2>7, <2>9, <1>0
    <3>3. 0 \in N[W + j]
      <4>1. N[W + j] = N[2 * j - 1] \cup N[2 * j]
        BY <3>2
      <4> QED
        BY <4>1, <3>1, <2>7
    <3> DEFINE k == 2 * W - 1 - (W + j)
    <3>4. k \in 0 .. (2 * W - 2) /\ 2 * W - 1 - k = W + j /\ k < m
      BY <3>2, <2>7, <1>0 DEF q
    <3>5. k \in T
      BY <3>3, <3>4
    <3> QED
      BY <3>4, <3>5, <2>6, <2>7
  <2>10. q = 2 * W - 1 \/ q < 2 * W - 1
    BY <2>7, <1>0
  <2> QED
    BY <2>8, <2>9, <2>10
<1>3. 2 * W - 1 \in 1 .. (2 * W - 1)
  BY <1>0
<1> QED
  BY <1>1, <1>2, <1>3

-----------------------------------------------------------------------------
(* Sequences whose elements have no common type.                           *)

\* IsSeq is membership in Seq of some set.
LEMMA IsSeqInSeq ==
  ASSUME NEW s, IsSeq(s)
  PROVE  s \in Seq({s[i] : i \in 1 .. Len(s)})
BY DEF IsSeq

\* Append gives a sequence: its length and its elements.
LEMMA AppendIsSeq ==
  ASSUME NEW s, IsSeq(s), NEW e
  PROVE  /\ IsSeq(Append(s, e)) /\ Len(Append(s, e)) = Len(s) + 1
         /\ \A i \in 1 .. Len(s) : Append(s, e)[i] = s[i]
         /\ Append(s, e)[Len(s) + 1] = e
<1> DEFINE T == {s[i] : i \in 1 .. Len(s)}
           S == T \cup {e}
<1>0. s \in Seq(T)
  BY IsSeqInSeq
<1>1. T \subseteq S /\ e \in S
  OBVIOUS
<1> HIDE DEF S, T
<1>2. s \in Seq(S)
  BY SeqMonotonic, <1>0, <1>1
<1>3. Append(s, e) \in Seq(S) /\ Len(Append(s, e)) = Len(s) + 1
  BY <1>1, <1>2
<1>4. IsSeq(Append(s, e))
  BY <1>3, LenProperties DEF IsSeq
<1>5. /\ \A i \in 1 .. Len(s) : Append(s, e)[i] = s[i]
      /\ Append(s, e)[Len(s) + 1] = e
  BY <1>1, <1>2
<1> QED
  BY <1>3, <1>4, <1>5

\* Tail gives a sequence: its length and its elements.
LEMMA TailIsSeq ==
  ASSUME NEW s, IsSeq(s), s # <<>>
  PROVE  /\ IsSeq(Tail(s)) /\ Len(s) >= 1 /\ Len(Tail(s)) = Len(s) - 1
         /\ Head(s) = s[1]
         /\ \A i \in 1 .. Len(Tail(s)) : Tail(s)[i] = s[i + 1]
<1> DEFINE S == {s[i] : i \in 1 .. Len(s)}
<1>1. s \in Seq(S)
  BY IsSeqInSeq
<1> HIDE DEF S
<1>2. /\ Tail(s) \in Seq(S) /\ Len(Tail(s)) = Len(s) - 1
      /\ \A i \in 1 .. Len(Tail(s)) : Tail(s)[i] = s[i + 1]
  BY <1>1, HeadTailProperties
<1>3. IsSeq(Tail(s))
  BY <1>2, LenProperties DEF IsSeq
<1>4. Len(s) >= 1
  BY <1>1, EmptySeq
<1>5. Head(s) = s[1]
  BY <1>1
<1> QED
  BY <1>2, <1>3, <1>4, <1>5

\* A prefix is a sequence: its length and its elements.
LEMMA PrefixIsSeq ==
  ASSUME NEW s, IsSeq(s), NEW n \in 0 .. Len(s)
  PROVE  /\ IsSeq(SubSeq(s, 1, n)) /\ Len(SubSeq(s, 1, n)) = n
         /\ \A i \in 1 .. n : SubSeq(s, 1, n)[i] = s[i]
<1> DEFINE S == {s[i] : i \in 1 .. Len(s)}
<1>1. s \in Seq(S) /\ Len(s) \in Nat
  BY IsSeqInSeq DEF IsSeq
<1> HIDE DEF S
<1> QED
  BY <1>1 DEF IsSeq

\* The prefix of full length is the sequence itself.
LEMMA WholeIsSeq ==
  ASSUME NEW s, IsSeq(s)
  PROVE  SubSeq(s, 1, Len(s)) = s
<1> DEFINE c == SubSeq(s, 1, Len(s))
<1>1. Len(s) \in Nat /\ s = [i \in 1 .. Len(s) |-> s[i]]
  BY DEF IsSeq
<1>2. /\ c = [i \in 1 .. Len(c) |-> c[i]] /\ Len(c) = Len(s)
      /\ \A i \in 1 .. Len(s) : c[i] = s[i]
  BY <1>1, PrefixIsSeq DEF IsSeq
<1> HIDE DEF c
<1>3. c = [i \in 1 .. Len(s) |-> s[i]]
  BY <1>2
<1> QED
  BY <1>1, <1>3 DEF c

\* The empty sequence.
LEMMA EmptyIsSeq == IsSeq(<<>>) /\ Len(<<>>) = 0
BY DEF IsSeq

\* One element is replaced.
LEMMA ExceptIsSeq ==
  ASSUME NEW s, IsSeq(s), NEW i \in 1 .. Len(s), NEW e
  PROVE  /\ IsSeq([s EXCEPT ![i] = e]) /\ Len([s EXCEPT ![i] = e]) = Len(s)
         /\ [s EXCEPT ![i] = e][i] = e
         /\ \A j \in 1 .. Len(s) : j # i => [s EXCEPT ![i] = e][j] = s[j]
<1> DEFINE T == {s[j] : j \in 1 .. Len(s)}
           S == T \cup {e}
<1>1. s \in Seq(T)
  BY IsSeqInSeq
<1>2. T \subseteq S /\ e \in S
  OBVIOUS
<1> HIDE DEF S, T
<1>3. s \in Seq(S)
  BY <1>1, <1>2
<1> DEFINE u == [s EXCEPT ![i] = e]
<1>4. u \in Seq(S) /\ Len(u) = Len(s)
  BY <1>2, <1>3, ExceptSeq
<1>5. u = [j \in 1 .. Len(s) |-> IF j = i THEN e ELSE s[j]]
  BY <1>3
<1>6. Len(s) \in Nat
  BY DEF IsSeq
<1>7. /\ u[i] = e /\ \A j \in 1 .. Len(s) : j # i => u[j] = s[j]
      /\ u = [j \in 1 .. Len(s) |-> u[j]]
  BY <1>5
<1> HIDE DEF u
<1>8. IsSeq(u)
  BY <1>4, <1>6, <1>7 DEF IsSeq
<1> QED
  BY <1>4, <1>7, <1>8 DEF u

\* A sequence without elements is the empty one.
LEMMA NoneIsSeq ==
  ASSUME NEW s, IsSeq(s)
  PROVE  s = <<>> <=> Len(s) = 0
<1>1. ASSUME Len(s) = 0 PROVE s = <<>>
  <2>1. s \in Seq({s[i] : i \in 1 .. Len(s)})
    BY IsSeqInSeq
  <2> QED
    BY <1>1, <2>1, EmptySeq
<1> QED
  BY <1>1, EmptyIsSeq

\* Two sequences with the same length and elements are equal.
LEMMA SameSeq ==
  ASSUME NEW s, NEW t, IsSeq(s), IsSeq(t), Len(s) = Len(t),
         \A i \in 1 .. Len(s) : s[i] = t[i]
  PROVE  s = t
BY DEF IsSeq

\* A function on 1 .. n is a sequence of length n.
LEMMA TableIsSeq ==
  ASSUME NEW n \in Nat, NEW f, f = [i \in 1 .. n |-> f[i]]
  PROVE  IsSeq(f) /\ Len(f) = n
BY DEF IsSeq

-----------------------------------------------------------------------------
(* What the operations on a queue do to LinkOK.                            *)

\* The head of a queue is for the first step not yet read, if that step has a
\* message; reading it moves the reader's bound.
LEMMA LinkRead ==
  ASSUME NEW w, IsSeq(w), w # <<>>, NEW lo \in Nat, NEW hi \in Nat, NEW S \in SUBSET Nat,
         NEW full \in BOOLEAN, LinkOK(w, lo, hi, S, full), lo \in S
  PROVE  Head(w).k = lo /\ LinkOK(Tail(w), lo + 1, hi, S, full)
<1>1. /\ IsSeq(Tail(w)) /\ Len(w) \in Nat /\ Len(w) >= 1 /\ Len(Tail(w)) = Len(w) - 1
      /\ Head(w) = w[1] /\ \A i \in 1 .. Len(Tail(w)) : Tail(w)[i] = w[i + 1]
  BY TailIsSeq DEF IsSeq
<1>2. w[1].k = lo
  <2>1. w[1].k \in S /\ w[1].k >= lo
    BY <1>1 DEF LinkOK
  <2>2. CASE lo < w[1].k
    <3>1. PICK i \in 1 .. Len(w) : w[i].k = lo
      BY <2>2, <1>1 DEF LinkOK
    <3>2. i = 1 \/ 1 < i
      OBVIOUS
    <3> QED
      BY <3>1, <3>2, <2>2, <2>1, <1>1 DEF LinkOK
  <2>3. w[1].k \in Nat
    BY <2>1
  <2> QED
    BY <2>1, <2>2, <2>3
<1>3. ASSUME NEW i \in 1 .. Len(Tail(w))
      PROVE  Tail(w)[i].k \in S /\ Tail(w)[i].k \in (lo + 1) .. (hi - 1)
  <2>1. i + 1 \in 1 .. Len(w) /\ 1 < i + 1 /\ 1 \in 1 .. Len(w) /\ Tail(w)[i] = w[i + 1]
    BY <1>1
  <2>2. w[i + 1].k \in S /\ w[i + 1].k \in lo .. (hi - 1) /\ w[1].k < w[i + 1].k
    BY <2>1 DEF LinkOK
  <2> QED
    BY <2>1, <2>2, <1>2
<1>4. \A i, j \in 1 .. Len(Tail(w)) : i < j => Tail(w)[i].k < Tail(w)[j].k
  BY <1>1 DEF LinkOK
<1>5. ASSUME NEW j \in S, j >= lo + 1,
             (j < hi /\ full) \/ \E i \in 1 .. Len(Tail(w)) : j < Tail(w)[i].k
      PROVE  \E i \in 1 .. Len(Tail(w)) : Tail(w)[i].k = j
  <2>1. (j < hi /\ full) \/ \E i \in 1 .. Len(w) : j < w[i].k
    BY <1>5, <1>1
  <2>2. PICK i \in 1 .. Len(w) : w[i].k = j
    BY <2>1, <1>5 DEF LinkOK
  <2>3. i # 1
    BY <2>2, <1>2, <1>5
  <2>4. i - 1 \in 1 .. Len(Tail(w)) /\ Tail(w)[i - 1] = w[i]
    BY <2>3, <1>1
  <2> QED
    BY <2>4, <2>2
<1> QED
  BY <1>1, <1>2, <1>3, <1>4, <1>5 DEF LinkOK

\* A reader that is behind a writer whose messages arrive finds one.
LEMMA LinkNonempty ==
  ASSUME NEW w, NEW lo \in Nat, NEW hi \in Nat, NEW S \in SUBSET Nat,
         LinkOK(w, lo, hi, S, TRUE), lo \in S, lo < hi
  PROVE  w # <<>>
<1>1. \E i \in 1 .. Len(w) : w[i].k = lo
  BY DEF LinkOK
<1> QED
  BY <1>1, EmptyIsSeq

\* The reader passes a step that has no message.
LEMMA LinkSkipRead ==
  ASSUME NEW w, NEW lo \in Nat, NEW hi \in Nat, NEW S \in SUBSET Nat,
         NEW full \in BOOLEAN, LinkOK(w, lo, hi, S, full), lo \notin S
  PROVE  LinkOK(w, lo + 1, hi, S, full)
BY DEF LinkOK

\* The writer appends the message of its step.
LEMMA LinkWrite ==
  ASSUME NEW w, IsSeq(w), NEW lo \in Nat, NEW hi \in Nat, NEW S \in SUBSET Nat,
         LinkOK(w, lo, hi, S, TRUE), hi \in S, lo <= hi, NEW v
  PROVE  LinkOK(Append(w, [k |-> hi, v |-> v]), lo, hi + 1, S, TRUE)
<1> DEFINE a == Append(w, [k |-> hi, v |-> v])
<1>1. /\ Len(w) \in Nat /\ Len(a) = Len(w) + 1
      /\ \A i \in 1 .. Len(w) : a[i] = w[i]
      /\ a[Len(w) + 1] = [k |-> hi, v |-> v]
  BY AppendIsSeq DEF IsSeq
<1>2. a[Len(w) + 1].k = hi
  BY <1>1
<1> HIDE DEF a
<1>3. ASSUME NEW i \in 1 .. Len(a)
      PROVE  a[i].k \in S /\ a[i].k \in lo .. hi
  BY <1>1, <1>2 DEF LinkOK
<1>4. ASSUME NEW i \in 1 .. Len(a), NEW j \in 1 .. Len(a), i < j
      PROVE  a[i].k < a[j].k
  <2>1. CASE j = Len(w) + 1
    BY <2>1, <1>1, <1>2, <1>4 DEF LinkOK
  <2>2. CASE j # Len(w) + 1
    BY <2>2, <1>1, <1>4 DEF LinkOK
  <2> QED
    BY <2>1, <2>2
<1>5. ASSUME NEW j \in S, j >= lo, j < hi + 1
      PROVE  \E i \in 1 .. Len(a) : a[i].k = j
  <2>1. CASE j = hi
    BY <2>1, <1>1, <1>2
  <2>2. CASE j < hi
    <3>1. PICK i \in 1 .. Len(w) : w[i].k = j
      BY <2>2, <1>5 DEF LinkOK
    <3> QED
      BY <3>1, <1>1
  <2>3. j \in Nat
    OBVIOUS
  <2> QED
    BY <2>1, <2>2, <2>3, <1>5
<1>6. ASSUME NEW j \in S, j >= lo, \E i \in 1 .. Len(a) : j < a[i].k
      PROVE  j < hi + 1
  BY <1>3, <1>6
<1> QED
  BY <1>3, <1>4, <1>5, <1>6 DEF LinkOK, a

\* The writer passes a step that has no message, or whose message is lost.
LEMMA LinkSkipWrite ==
  ASSUME NEW w, NEW lo \in Nat, NEW hi \in Nat, NEW S \in SUBSET Nat,
         NEW full \in BOOLEAN, LinkOK(w, lo, hi, S, full), hi \notin S \/ ~full
  PROVE  LinkOK(w, lo, hi + 1, S, full)
<1>1. \A j \in S : j < hi + 1 /\ full => j < hi
  OBVIOUS
<1>2. \A i \in 1 .. Len(w) : w[i].k \in lo .. hi
  BY DEF LinkOK
<1> QED
  BY <1>1, <1>2 DEF LinkOK

\* An end of the link goes down, and a suffix of the queue may be lost.
LEMMA LinkCut ==
  ASSUME NEW w, IsSeq(w), NEW lo \in Nat, NEW hi \in Nat, NEW S \in SUBSET Nat,
         NEW full \in BOOLEAN, LinkOK(w, lo, hi, S, full), NEW n \in 0 .. Len(w)
  PROVE  LinkOK(SubSeq(w, 1, n), lo, hi, S, FALSE)
<1> DEFINE c == SubSeq(w, 1, n)
<1>1. Len(w) \in Nat /\ Len(c) = n /\ \A i \in 1 .. n : c[i] = w[i]
  BY PrefixIsSeq DEF IsSeq
<1> HIDE DEF c
<1>2. ASSUME NEW j \in S, j >= lo, NEW i \in 1 .. n, j < c[i].k
      PROVE  \E h \in 1 .. n : c[h].k = j
  <2>1. i \in 1 .. Len(w) /\ j < w[i].k
    BY <1>1, <1>2
  <2>2. PICK h \in 1 .. Len(w) : w[h].k = j
    BY <2>1, <1>2 DEF LinkOK
  <2>3. h < i
    BY <2>1, <2>2 DEF LinkOK
  <2> QED
    BY <2>2, <2>3, <1>1
<1>3. \A i \in 1 .. n : c[i].k \in S /\ c[i].k \in lo .. (hi - 1)
  BY <1>1 DEF LinkOK
<1>4. \A i, j \in 1 .. n : i < j => c[i].k < c[j].k
  BY <1>1, SMTT(60) DEF LinkOK
<1> QED
  BY <1>1, <1>2, <1>3, <1>4 DEF LinkOK, c
=============================================================================
