--------------------------- MODULE LocoramProofs ---------------------------
(***************************************************************************)
(* Proofs about Locoram, for every array, program, key and interleaving.   *)
(*                                                                         *)
(* FlowInv says which messages are on their way: a queue holds those of    *)
(* the steps between its reader and its writer.  The contents of an array  *)
(* at an earlier step are in no variable any more when the peer reads its  *)
(* half of a reconstruction, so History says that there EXIST a key for    *)
(* each update and an array for each step that explain the state; Flagged  *)
(* says the same of the advice bits the parties' flags come from.          *)
(***************************************************************************)
EXTENDS Locoram, OperatorProofs, FiniteSetTheorems

Reads == {"readX", "readA"}
Halves == {"reconstruct", "open"}
KeySteps == {k \in Steps : Program[k] \in KeyOps}
TalkSteps == {k \in Steps : Program[k] \in Halves}
KeyType == [out : Vector, flags : [Index -> BOOLEAN]]
MemType == [secret_share : Vector, blind : Vector, sbv_secret_share : [Index -> BOOLEAN],
            cancellation_term : XWord, update_vals : Seq(XWord)]

-----------------------------------------------------------------------------
(* The program, the parties and the algebra of vectors.                    *)

\* What LocoramAssumption says about the steps of a program.
LEMMA ProgramFacts ==
  /\ Len(Program) \in Nat /\ Steps = 1 .. Len(Program) /\ Program[1] = "update"
  /\ \A k \in Steps : Program[k] \in KeyOps \cup Halves
  /\ \A k \in Steps : Program[k] = "open" =>
       /\ k > 1 /\ k - 1 \in Steps /\ Program[k - 1] \in Reads
  /\ KeySteps \in SUBSET Nat /\ TalkSteps \in SUBSET Nat
  /\ KeySteps \cap TalkSteps = {} /\ KeySteps \cup TalkSteps = Steps
<1>1. Program \in Seq(Calls) /\ Program[1] = "update" /\ Len(Program) \in Nat
  BY LocoramAssumption
<1>2. \A k \in Steps : Program[k] \in KeyOps \cup Halves
  BY <1>1, ElementOfSeq DEF Steps, Calls, Halves
<1>3. ASSUME NEW k \in Steps, Program[k] = "open"
      PROVE  k > 1 /\ k - 1 \in Steps /\ Program[k - 1] \in Reads
  <2>1. k # 1
    BY <1>1, <1>3
  <2> QED
    BY <2>1, <1>1, <1>3, LocoramAssumption DEF Steps, Reads
<1> QED
  BY <1>1, <1>2, <1>3 DEF Steps, KeySteps, TalkSteps, KeyOps, Halves

\* The other party.
LEMMA PeerFacts ==
  ASSUME NEW p \in Parties
  PROVE  /\ Peer(p) \in Parties /\ Peer(p) # p /\ Peer(Peer(p)) = p /\ p # "P2"
         /\ p \in Roles /\ Parties = {p, Peer(p)} /\ Roles = {p, Peer(p), "P2"}
BY DEF Parties, Peer, Roles

\* XorVec gives a vector, and each of its words.
LEMMA XorVecType ==
  ASSUME NEW a \in Vector, NEW b \in Vector
  PROVE  XorVec(a, b) \in Vector /\ \A i \in Index : XorVec(a, b)[i] = Xor(a[i], b[i])
<1>1. \A i \in Index : a[i] \in XWord /\ b[i] \in XWord
  BY DEF Vector
<1>2. \A i \in Index : Xor(a[i], b[i]) \in XWord
  BY <1>1 DEF Xor, XWord
<1> QED
  BY <1>2 DEF XorVec, Vector

\* Vectors with the same words are equal.
LEMMA SameVector ==
  ASSUME NEW a \in Vector, NEW b \in Vector, \A i \in Index : a[i] = b[i]
  PROVE  a = b
BY DEF Vector

\* The vector that is zero but for one word.
LEMMA PointType ==
  ASSUME NEW j \in Index, NEW v \in XWord
  PROVE  Zero \in Vector /\ Point(j, v) \in Vector
BY DEF Zero, Point, Vector, XWord

\* Adding the same vector to both does not change the sum.
LEMMA XorVecCancel ==
  ASSUME NEW a \in Vector, NEW b \in Vector, NEW k \in Vector
  PROVE  XorVec(XorVec(a, k), XorVec(b, k)) = XorVec(a, b)
<1>1. /\ XorVec(a, k) \in Vector /\ XorVec(b, k) \in Vector /\ XorVec(a, b) \in Vector
      /\ XorVec(XorVec(a, k), XorVec(b, k)) \in Vector
  BY XorVecType
<1>2. ASSUME NEW i \in Index
      PROVE  XorVec(XorVec(a, k), XorVec(b, k))[i] = XorVec(a, b)[i]
  <2>1. /\ XorVec(XorVec(a, k), XorVec(b, k))[i] = Xor(XorVec(a, k)[i], XorVec(b, k)[i])
        /\ XorVec(a, k)[i] = Xor(a[i], k[i]) /\ XorVec(b, k)[i] = Xor(b[i], k[i])
        /\ XorVec(a, b)[i] = Xor(a[i], b[i])
    BY <1>1, XorVecType
  <2>2. Xor(Xor(a[i], k[i]), Xor(b[i], k[i])) = Xor(a[i], b[i])
    BY DEF Xor
  <2> QED
    BY <2>1, <2>2
<1> QED
  BY <1>1, <1>2, SameVector

\* Sums of sums may be regrouped.
LEMMA XorVecSwap ==
  ASSUME NEW a \in Vector, NEW b \in Vector, NEW u \in Vector, NEW v \in Vector
  PROVE  XorVec(XorVec(a, u), XorVec(b, v)) = XorVec(XorVec(a, b), XorVec(u, v))
<1>1. /\ XorVec(a, u) \in Vector /\ XorVec(b, v) \in Vector
      /\ XorVec(a, b) \in Vector /\ XorVec(u, v) \in Vector
  BY XorVecType
<1>2. /\ XorVec(XorVec(a, u), XorVec(b, v)) \in Vector
      /\ XorVec(XorVec(a, b), XorVec(u, v)) \in Vector
  BY <1>1, XorVecType
<1>3. ASSUME NEW i \in Index
      PROVE  XorVec(XorVec(a, u), XorVec(b, v))[i] = XorVec(XorVec(a, b), XorVec(u, v))[i]
  <2>1. /\ XorVec(XorVec(a, u), XorVec(b, v))[i] = Xor(XorVec(a, u)[i], XorVec(b, v)[i])
        /\ XorVec(XorVec(a, b), XorVec(u, v))[i] = Xor(XorVec(a, b)[i], XorVec(u, v)[i])
    BY <1>1, XorVecType
  <2>2. /\ XorVec(a, u)[i] = Xor(a[i], u[i]) /\ XorVec(b, v)[i] = Xor(b[i], v[i])
        /\ XorVec(a, b)[i] = Xor(a[i], b[i]) /\ XorVec(u, v)[i] = Xor(u[i], v[i])
    BY XorVecType
  <2>3. Xor(Xor(a[i], u[i]), Xor(b[i], v[i])) = Xor(Xor(a[i], b[i]), Xor(u[i], v[i]))
    BY DEF Xor
  <2> QED
    BY <2>1, <2>2, <2>3
<1> QED
  BY <1>2, <1>3, SameVector

\* Adding a vector twice is adding nothing.
LEMMA XorVecTwice ==
  ASSUME NEW a \in Vector, NEW u \in Vector, NEW j \in Index
  PROVE  XorVec(XorVec(a, u), u) = XorVec(a, Point(j, {})) /\ XorVec(a, Point(j, {})) = a
<1>1. {} \in XWord
  BY DEF XWord
<1>2. Point(j, {}) \in Vector /\ XorVec(a, u) \in Vector
  BY <1>1, PointType, XorVecType
<1>3. XorVec(XorVec(a, u), u) \in Vector /\ XorVec(a, Point(j, {})) \in Vector
  BY <1>2, XorVecType
<1>4. ASSUME NEW i \in Index
      PROVE  XorVec(XorVec(a, u), u)[i] = a[i] /\ XorVec(a, Point(j, {}))[i] = a[i]
  <2>1. /\ XorVec(XorVec(a, u), u)[i] = Xor(XorVec(a, u)[i], u[i])
        /\ XorVec(a, u)[i] = Xor(a[i], u[i])
        /\ XorVec(a, Point(j, {}))[i] = Xor(a[i], Point(j, {})[i])
    BY <1>2, XorVecType
  <2>2. Point(j, {})[i] = {}
    BY DEF Point, Zero
  <2>3. Xor(Xor(a[i], u[i]), u[i]) = a[i] /\ Xor(a[i], {}) = a[i]
    BY DEF Xor
  <2> QED
    BY <2>1, <2>2, <2>3
<1>5. XorVec(XorVec(a, u), u) = a /\ XorVec(a, Point(j, {})) = a
  BY <1>3, <1>4, SameVector
<1> QED
  BY <1>5

\* The keys of P2 are keys, and their outputs differ in the value at the point.
LEMMA KeyTyped ==
  ASSUME NEW o \in Pads, NEW w \in FlagPads, NEW alpha \in Index, NEW v \in XWord
  PROVE  /\ \A p \in Parties : KeyFor(p, alpha, v, o, w) \in KeyType
         /\ XorVec(KeyFor("P0", alpha, v, o, w).out, KeyFor("P1", alpha, v, o, w).out)
              = Point(alpha, v)
<1>1. o \in Vector /\ w \in [Index -> BOOLEAN] /\ Point(alpha, v) \in Vector
  BY LocoramAssumption, PointType
<1>2. XorVec(o, Point(alpha, v)) \in Vector
  BY <1>1, XorVecType
<1>3. [w EXCEPT ![alpha \div LPN] = ~@] \in [Index -> BOOLEAN]
  BY <1>1
<1>4. \A p \in Parties : KeyFor(p, alpha, v, o, w) \in KeyType
  BY <1>1, <1>2, <1>3 DEF KeyFor, KeyType
<1>5. XorVec(o, XorVec(o, Point(alpha, v))) = Point(alpha, v)
  <2>1. XorVec(o, XorVec(o, Point(alpha, v))) \in Vector
    BY <1>1, <1>2, XorVecType
  <2>2. ASSUME NEW i \in Index
        PROVE  XorVec(o, XorVec(o, Point(alpha, v)))[i] = Point(alpha, v)[i]
    <3>1. /\ XorVec(o, XorVec(o, Point(alpha, v)))[i] = Xor(o[i], XorVec(o, Point(alpha, v))[i])
          /\ XorVec(o, Point(alpha, v))[i] = Xor(o[i], Point(alpha, v)[i])
      BY <1>1, <1>2, XorVecType
    <3>2. Xor(o[i], Xor(o[i], Point(alpha, v)[i])) = Point(alpha, v)[i]
      BY DEF Xor
    <3> QED
      BY <3>1, <3>2
  <2> QED
    BY <2>1, <2>2, <1>1, SameVector
<1>6. /\ KeyFor("P0", alpha, v, o, w).out = o
      /\ KeyFor("P1", alpha, v, o, w).out = XorVec(o, Point(alpha, v))
  BY DEF KeyFor
<1> QED
  BY <1>4, <1>5, <1>6

\* A word of the array that the bits select.
LEMMA DotType == ASSUME NEW a, NEW w PROVE Dot(a, w) \in XWord
BY DEF Dot, XWord

\* Xor gives an XOR word.
LEMMA XorType == ASSUME NEW a \in XWord, NEW b \in XWord PROVE Xor(a, b) \in XWord
BY DEF Xor, XWord

\* The number of members of a symmetric difference is odd if that of one set is.
LEMMA OddSymmetric ==
  ASSUME NEW A, NEW B, IsFiniteSet(A), IsFiniteSet(B)
  PROVE  Cardinality(Xor(A, B)) % 2 = 1 <=>
           ((Cardinality(A) % 2 = 1) <=> ~(Cardinality(B) % 2 = 1))
<1>1. PICK a, b, c : a = Cardinality(A) /\ b = Cardinality(B) /\ c = Cardinality(A \cap B)
  OBVIOUS
<1>2. IsFiniteSet(A \cap B) /\ a \in Nat /\ b \in Nat /\ c \in Nat
  <2>1. IsFiniteSet(A \cap B)
    BY FS_Intersection
  <2> QED
    BY <2>1, <1>1, FS_CardinalityType
<1>3. /\ IsFiniteSet(A \ B) /\ Cardinality(A \ B) = a - c
      /\ IsFiniteSet(B \ A) /\ Cardinality(B \ A) = b - c
  <2>1. IsFiniteSet(A \ B) /\ Cardinality(A \ B) = Cardinality(A) - Cardinality(A \cap B)
    BY FS_Difference
  <2>2. IsFiniteSet(B \ A) /\ Cardinality(B \ A) = Cardinality(B) - Cardinality(B \cap A)
    BY FS_Difference
  <2>3. A \cap B = B \cap A
    OBVIOUS
  <2> QED
    BY <2>1, <2>2, <2>3, <1>1
<1>4. (A \ B) \cap (B \ A) = {} /\ Cardinality({}) = 0
  BY FS_EmptySet
<1>5. Cardinality((A \ B) \cup (B \ A)) = (a - c) + (b - c)
  <2>1. Cardinality((A \ B) \cup (B \ A))
          = Cardinality(A \ B) + Cardinality(B \ A) - Cardinality((A \ B) \cap (B \ A))
    BY <1>3, FS_Union
  <2>2. Cardinality((A \ B) \cap (B \ A)) = 0
    BY <1>4
  <2> QED
    BY <2>1, <2>2, <1>2, <1>3
<1>6. ((a - c) + (b - c)) % 2 = 1 <=> ((a % 2 = 1) <=> ~(b % 2 = 1))
  BY <1>2
<1> QED
  BY <1>1, <1>5, <1>6 DEF Xor

\* The places that bits w select in which a has bit b; Dot is their parity.
Selected(a, w, b) == {i \in Index : w[i] /\ b \in a[i]}

LEMMA SelectedFacts ==
  ASSUME NEW a, NEW w
  PROVE  /\ \A b : IsFiniteSet(Selected(a, w, b))
         /\ \A b \in 0 .. (W - 1) : b \in Dot(a, w) <=> Cardinality(Selected(a, w, b)) % 2 = 1
<1>1. IsFiniteSet(Index)
  BY FS_Interval, LocoramAssumption DEF Index
<1>2. ASSUME NEW b PROVE IsFiniteSet(Selected(a, w, b))
  <2>1. Selected(a, w, b) \in SUBSET Index
    BY DEF Selected
  <2> QED
    BY <1>1, <2>1, FS_Subset
<1> QED
  BY <1>2 DEF Dot, Selected

\* Words with the same bits are equal.
LEMMA SameWord ==
  ASSUME NEW a \in XWord, NEW b \in XWord, \A i \in 0 .. (W - 1) : i \in a <=> i \in b
  PROVE  a = b
BY DEF XWord

\* The selection from a sum is the sum of the selections.
LEMMA DotXor ==
  ASSUME NEW x \in Vector, NEW y \in Vector, NEW w
  PROVE  Dot(XorVec(x, y), w) = Xor(Dot(x, w), Dot(y, w))
<1>1. ASSUME NEW b \in 0 .. (W - 1)
      PROVE  b \in Dot(XorVec(x, y), w) <=> b \in Xor(Dot(x, w), Dot(y, w))
  <2>1. Selected(XorVec(x, y), w, b) = Xor(Selected(x, w, b), Selected(y, w, b))
    <3>1. \A i \in Index : b \in XorVec(x, y)[i] <=> (b \in x[i] <=> ~(b \in y[i]))
      BY XorVecType DEF Xor
    <3> QED
      BY <3>1 DEF Selected, Xor
  <2>2. b \in Dot(XorVec(x, y), w) <=> (b \in Dot(x, w) <=> ~(b \in Dot(y, w)))
    <3>1. PICK A, B : A = Selected(x, w, b) /\ B = Selected(y, w, b)
      OBVIOUS
    <3>2. IsFiniteSet(A) /\ IsFiniteSet(B)
      BY <3>1, SelectedFacts
    <3>3. /\ b \in Dot(XorVec(x, y), w) <=> Cardinality(Xor(A, B)) % 2 = 1
          /\ b \in Dot(x, w) <=> Cardinality(A) % 2 = 1
          /\ b \in Dot(y, w) <=> Cardinality(B) % 2 = 1
      BY <3>1, <2>1, SelectedFacts
    <3> QED
      BY <3>2, <3>3, OddSymmetric
  <2> QED
    BY <2>2 DEF Xor
<1> QED
  BY <1>1, DotType, XorType, SameWord

\* The bits that P1 has where P0 has w: they differ at the node of P2's point.
Flipped(w) == [w EXCEPT ![ReadAlpha \div LPN] = ~@]
BitsOf(p, w) == IF p = "P0" THEN w ELSE Flipped(w)

\* The node of a point is an index of the array, too.
LEMMA NodeIndex == ReadAlpha \div LPN \in Index
<1>1. PICK a, m, n : a = ReadAlpha /\ m = LPN /\ n = nitems
  OBVIOUS
<1>2. a \in Nat /\ m \in Nat /\ m >= 1 /\ n \in Nat /\ a <= n - 1
  BY <1>1, LocoramAssumption DEF Index
<1>3. a = m * (a \div m) + (a % m) /\ a \div m \in Int /\ a % m \in 0 .. (m - 1)
  BY <1>2, DivMod
<1>4. PICK d : d = a \div m
  OBVIOUS
<1>5. d \in Int /\ m * d <= a /\ a < m * d + m
  BY <1>2, <1>3, <1>4
<1>6. d >= 0
  <2>1. SUFFICES ASSUME d <= -1 PROVE FALSE
    BY <1>5
  <2>2. m * d <= m * (-1)
    BY <2>1, <1>2, <1>5
  <2> QED
    BY <2>2, <1>2, <1>5
<1>7. d <= m * d
  BY <1>2, <1>5, <1>6
<1> QED
  BY <1>1, <1>2, <1>4, <1>5, <1>6, <1>7 DEF Index

\* The two selections with the bits of the two parties differ in one word.
LEMMA DotFlip ==
  ASSUME NEW x \in Vector, NEW w \in [Index -> BOOLEAN]
  PROVE  Dot(x, Flipped(w)) = Xor(Dot(x, w), x[ReadAlpha \div LPN])
<1>1. PICK j : j = ReadAlpha \div LPN
  OBVIOUS
<1>2. j \in Index /\ x[j] \in XWord
  BY <1>1, NodeIndex DEF Vector
<1>3. /\ \A i \in Index : i # j => (Flipped(w)[i] <=> w[i])
      /\ Flipped(w)[j] <=> ~w[j]
  BY <1>1, <1>2 DEF Flipped
<1>4. ASSUME NEW b \in 0 .. (W - 1)
      PROVE  b \in Dot(x, Flipped(w)) <=> b \in Xor(Dot(x, w), x[j])
  <2>1. PICK A, B : A = Selected(x, w, b) /\ B = Selected(x, Flipped(w), b)
    OBVIOUS
  <2>2. /\ IsFiniteSet(A)
        /\ b \in Dot(x, w) <=> Cardinality(A) % 2 = 1
        /\ b \in Dot(x, Flipped(w)) <=> Cardinality(B) % 2 = 1
    BY <2>1, SelectedFacts
  <2>3. CASE b \in x[j]
    <3>1. B = Xor(A, {j})
      BY <2>1, <2>3, <1>2, <1>3 DEF Selected, Xor
    <3>2. IsFiniteSet({j}) /\ Cardinality({j}) = 1
      BY FS_Singleton
    <3>3. Cardinality({j}) % 2 = 1
      BY <3>2
    <3>4. Cardinality(B) % 2 = 1 <=> ~(Cardinality(A) % 2 = 1)
      BY <3>1, <3>2, <3>3, <2>2, OddSymmetric
    <3> QED
      BY <3>4, <2>2, <2>3 DEF Xor
  <2>4. CASE b \notin x[j]
    <3>1. B = A
      BY <2>1, <2>4, <1>2, <1>3 DEF Selected
    <3> QED
      BY <3>1, <2>2, <2>4 DEF Xor
  <2> QED
    BY <2>3, <2>4
<1> QED
  BY <1>1, <1>2, <1>4, DotType, XorType, SameWord

-----------------------------------------------------------------------------
(* Which messages are on their way.                                        *)

\* The first step for which p has sent its peer nothing yet.
Ahead(p) == IF sent[p] THEN ip[p] + 1 ELSE ip[p]

\* The first step for which P2 can have sent no key; as it throws, it may have
\* sent the key of its step to one party.
DealtTo == IF st["P2"] = "run" THEN ip["P2"] ELSE ip["P2"] + 1

Up(q, p) == st[q] = "run" /\ st[p] = "run"

Shapes(p) ==
  /\ IsSeq(dealt[p]) /\ IsSeq(talk[p]) /\ IsSeq(res[p])
  /\ \A i \in 1 .. Len(dealt[p]) : dealt[p][i].v \in KeyType
  /\ sent[p] => ip[p] \in TalkSteps
  /\ ip[p] > 1 => mem[p].update_vals # <<>>

DealLink(p) == LinkOK(dealt[p], ip[p], DealtTo, KeySteps, Up("P2", p))
TalkLink(p) == LinkOK(talk[p], ip[p], Ahead(Peer(p)), TalkSteps, Up(Peer(p), p))

\* Nobody passes a step whose message has not been sent.
Paced(p) ==
  /\ \A j \in KeySteps : j < ip[p] => j < DealtTo
  /\ \A j \in TalkSteps : j < ip[p] => j < Ahead(Peer(p))

Tables ==
  /\ dealt = [p \in Parties |-> dealt[p]] /\ talk = [p \in Parties |-> talk[p]]
  /\ res = [p \in Parties |-> res[p]] /\ sent \in [Parties -> BOOLEAN]

FlowInv ==
  /\ TypeOK /\ Tables
  /\ \A p \in Parties : Shapes(p) /\ DealLink(p) /\ TalkLink(p) /\ Paced(p)

\* The positions of the roles.
LEMMA PlaceFacts ==
  ASSUME TypeOK, Tables
  PROVE  /\ \A r \in Roles : ip[r] \in Nat /\ ip[r] >= 1
         /\ DealtTo \in Nat /\ ip["P2"] <= DealtTo
         /\ \A p \in Parties : /\ Ahead(p) \in Nat /\ ip[p] <= Ahead(p) /\ Ahead(p) <= ip[p] + 1
                               /\ ip[p] \in Nat /\ Len(res[p]) = ip[p] - 1
                               /\ mem[p] \in MemType /\ sent[p] \in BOOLEAN
<1>1. \A r \in Roles : ip[r] \in Nat /\ ip[r] >= 1
  BY ProgramFacts DEF TypeOK
<1>2. "P2" \in Roles /\ Parties \subseteq Roles
  BY DEF Roles
<1>3. \A p \in Parties : mem[p] \in MemType /\ Len(res[p]) = ip[p] - 1 /\ sent[p] \in BOOLEAN
  BY DEF TypeOK, MemType, Tables
<1> QED
  BY <1>1, <1>2, <1>3 DEF DealtTo, Ahead

\* A party completes its call with result v.
LEMMA ReturnFacts ==
  ASSUME TypeOK, Tables, NEW p \in Parties, IsSeq(res[p]), ip[p] \in Steps, NEW v,
         Return(p, v)
  PROVE  /\ ip' \in [Roles -> 1 .. (Len(Program) + 1)]
         /\ ip'[p] = ip[p] + 1 /\ \A r \in Roles : r # p => ip'[r] = ip[r]
         /\ res' = [q \in Parties |-> res'[q]] /\ res'[Peer(p)] = res[Peer(p)]
         /\ IsSeq(res'[p]) /\ Len(res'[p]) = Len(res[p]) + 1 /\ Len(res[p]) + 1 = ip[p]
         /\ res'[p][ip[p]] = v
         /\ \A j \in 1 .. Len(res[p]) : res'[p][j] = res[p][j]
<1>1. /\ ip' = [ip EXCEPT ![p] = @ + 1] /\ ip \in [Roles -> 1 .. (Len(Program) + 1)]
      /\ res' = [res EXCEPT ![p] = Append(@, v)] /\ res = [q \in Parties |-> res[q]]
  BY DEF Return, TypeOK, Tables
<1>2. p \in Roles /\ ip[p] \in 1 .. Len(Program) /\ Len(Program) \in Nat
  BY PeerFacts, ProgramFacts
<1>3. /\ ip' \in [Roles -> 1 .. (Len(Program) + 1)]
      /\ ip'[p] = ip[p] + 1 /\ \A r \in Roles : r # p => ip'[r] = ip[r]
  BY <1>1, <1>2
<1>4. res'[p] = Append(res[p], v) /\ res'[Peer(p)] = res[Peer(p)]
  BY <1>1, PeerFacts
<1>5. res' = [q \in Parties |-> res'[q]]
  BY <1>1
<1>6. Len(res[p]) + 1 = ip[p]
  BY <1>2, PlaceFacts
<1> QED
  BY <1>3, <1>4, <1>5, <1>6, AppendIsSeq

\* The effect of update and of both reads on what is on its way.
LEMMA FlowKey ==
  ASSUME FlowInv, NEW p \in Parties, Running(p, KeyOps), TakeKey(p),
         NEW v, Return(p, v), mem' \in [Parties -> MemType],
         mem'[p].update_vals # <<>>, mem'[Peer(p)] = mem[Peer(p)]
  PROVE  FlowInv' /\ Head(dealt[p]).k = ip[p] /\ Head(dealt[p]).v \in KeyType
<1> DEFINE q == Peer(p)
<1>1. /\ q \in Parties /\ q # p /\ Peer(q) = p /\ Parties = {p, q} /\ p \in Roles /\ q \in Roles
      /\ p # "P2" /\ q # "P2"
  BY PeerFacts
<1>2. /\ TypeOK /\ Tables /\ Shapes(p) /\ DealLink(p) /\ TalkLink(p) /\ Paced(p)
      /\ Shapes(q) /\ DealLink(q) /\ TalkLink(q) /\ Paced(q)
  BY <1>1 DEF FlowInv
<1>3. /\ ip[p] \in Steps /\ ip[p] \in KeySteps /\ ip[p] \notin TalkSteps /\ st[p] = "run"
      /\ dealt[p] # <<>> /\ UNCHANGED <<st, sent, talk>>
      /\ dealt' = [dealt EXCEPT ![p] = Tail(@)]
  BY ProgramFacts DEF Running, TakeKey, KeySteps
<1> HIDE DEF q
<1>4. /\ ip' \in [Roles -> 1 .. (Len(Program) + 1)]
      /\ ip'[p] = ip[p] + 1 /\ ip'[q] = ip[q] /\ ip'["P2"] = ip["P2"]
      /\ res' = [u \in Parties |-> res'[u]] /\ res'[q] = res[q]
      /\ IsSeq(res'[p]) /\ Len(res'[p]) = ip[p]
  BY <1>1, <1>2, <1>3, ReturnFacts DEF Shapes, q, Roles
<1>5. /\ ip[p] \in Nat /\ ip[q] \in Nat /\ DealtTo \in Nat /\ Ahead(p) \in Nat /\ Ahead(q) \in Nat
      /\ mem[q] \in MemType /\ Len(res[q]) = ip[q] - 1
  BY <1>1, <1>2, PlaceFacts
<1>6. sent[p] = FALSE
  BY <1>2, <1>3 DEF Shapes, Tables
<1>7. /\ DealtTo' = DealtTo /\ Ahead(p) = ip[p] /\ Ahead(p)' = ip[p] + 1 /\ Ahead(q)' = Ahead(q)
      /\ \A r, s \in Roles : Up(r, s)' = Up(r, s) /\ Up(r, s) \in BOOLEAN
  BY <1>3, <1>4, <1>6 DEF DealtTo, Ahead, Up
<1>8. dealt' = [u \in Parties |-> dealt'[u]] /\ dealt'[p] = Tail(dealt[p]) /\ dealt'[q] = dealt[q]
  BY <1>1, <1>2, <1>3 DEF Tables
<1>9. /\ IsSeq(dealt'[p]) /\ Len(dealt[p]) >= 1 /\ Len(dealt'[p]) = Len(dealt[p]) - 1
      /\ Head(dealt[p]) = dealt[p][1]
      /\ \A i \in 1 .. Len(dealt'[p]) : dealt'[p][i] = dealt[p][i + 1]
  <2>1. IsSeq(dealt[p])
    BY <1>2 DEF Shapes
  <2>2. PICK s : s = dealt[p]
    OBVIOUS
  <2>3. /\ IsSeq(Tail(s)) /\ Len(s) >= 1 /\ Len(Tail(s)) = Len(s) - 1 /\ Head(s) = s[1]
        /\ \A i \in 1 .. Len(Tail(s)) : Tail(s)[i] = s[i + 1]
    <3>1. IsSeq(s) /\ s # <<>>
      BY <2>1, <2>2, <1>3
    <3> QED
      BY <3>1, TailIsSeq
  <2> QED
    BY <2>2, <2>3, <1>8
<1>10. Len(dealt[p]) \in Nat /\ Len(dealt'[p]) \in Nat
  BY <1>2, <1>9 DEF Shapes, IsSeq
<1>11. Head(dealt[p]).v \in KeyType /\ \A i \in 1 .. Len(dealt'[p]) : dealt'[p][i].v \in KeyType
  <2>1. \A i \in 1 .. Len(dealt[p]) : dealt[p][i].v \in KeyType
    BY <1>2 DEF Shapes
  <2>2. 1 \in 1 .. Len(dealt[p]) /\ \A i \in 1 .. Len(dealt'[p]) : i + 1 \in 1 .. Len(dealt[p])
    BY <1>9, <1>10
  <2> QED
    BY <2>1, <2>2, <1>9
<1>12. Head(dealt[p]).k = ip[p] /\ LinkOK(dealt'[p], ip[p] + 1, DealtTo, KeySteps, Up("P2", p))
  <2>1. PICK w, lo, hi, S, full : /\ w = dealt[p] /\ lo = ip[p] /\ hi = DealtTo
                                  /\ S = KeySteps /\ full = Up("P2", p)
    OBVIOUS
  <2>2. /\ IsSeq(w) /\ w # <<>> /\ lo \in Nat /\ hi \in Nat /\ S \in SUBSET Nat
        /\ full \in BOOLEAN /\ LinkOK(w, lo, hi, S, full) /\ lo \in S
    BY <2>1, <1>1, <1>2, <1>3, <1>5, <1>7, ProgramFacts DEF DealLink, Shapes, Roles
  <2>3. Head(w).k = lo /\ LinkOK(Tail(w), lo + 1, hi, S, full)
    BY <2>2, LinkRead
  <2> QED
    BY <2>1, <2>3, <1>8
<1>13. ip[p] < DealtTo
  <2>1. dealt[p][1].k \in ip[p] .. (DealtTo - 1)
    BY <1>2, <1>9, <1>10 DEF DealLink, LinkOK
  <2> QED
    BY <2>1, <1>5
<1>14. LinkOK(talk[p], ip[p] + 1, Ahead(q), TalkSteps, Up(q, p))
  BY <1>1, <1>2, <1>3, <1>5, <1>7, LinkSkipRead, ProgramFacts DEF TalkLink, q
<1>15. LinkOK(talk[q], ip[q], ip[p] + 1, TalkSteps, Up(p, q))
  BY <1>1, <1>2, <1>3, <1>5, <1>7, LinkSkipWrite, ProgramFacts DEF TalkLink
<1>16. mem'[q] = mem[q]
  BY DEF q
<1>17. TypeOK'
  <2>1. \A u \in Parties : Len(res'[u]) = ip'[u] - 1
    BY <1>1, <1>4, <1>5, SMTT(60)
  <2> QED
    BY <2>1, <1>2, <1>3, <1>4, <1>16 DEF TypeOK, MemType
<1>18. Tables'
  BY <1>2, <1>3, <1>4, <1>8 DEF Tables
<1>19. Shapes(p)' /\ Shapes(q)'
  BY <1>2, <1>3, <1>4, <1>6, <1>8, <1>9, <1>11, <1>16 DEF Shapes
<1>20. DealLink(p)' /\ DealLink(q)' /\ TalkLink(p)' /\ TalkLink(q)'
  BY <1>1, <1>2, <1>3, <1>4, <1>7, <1>8, <1>12, <1>14, <1>15 DEF DealLink, TalkLink, q, Roles
<1>21. Paced(p)' /\ Paced(q)'
  <2>1. \A j \in KeySteps : j < ip[p] + 1 => j < DealtTo
    BY <1>2, <1>5, <1>13, ProgramFacts DEF Paced
  <2>2. \A j \in TalkSteps : j < ip[p] + 1 => j < Ahead(q)
    BY <1>2, <1>3, <1>5, ProgramFacts DEF Paced, q
  <2>3. \A j \in TalkSteps : j < ip[q] => j < ip[p] + 1
    BY <1>1, <1>2, <1>5, <1>7, ProgramFacts DEF Paced
  <2> QED
    BY <2>1, <2>2, <2>3, <1>1, <1>2, <1>4, <1>7 DEF Paced, q
<1> QED
  BY <1>1, <1>11, <1>12, <1>17, <1>18, <1>19, <1>20, <1>21 DEF FlowInv

\* P2 sends the key of its step to p, or fails to.
LEMMA DealWrite ==
  ASSUME FlowInv, NEW p \in Parties, st["P2"] = "run", ip["P2"] \in KeySteps,
         NEW key \in KeyType, NEW d
  PROVE  /\ d = Written(dealt[p], "P2", p, key)
              => /\ IsSeq(d) /\ \A i \in 1 .. Len(d) : d[i].v \in KeyType
                 /\ LinkOK(d, ip[p], ip["P2"] + 1, KeySteps, Up("P2", p))
                 /\ LinkOK(d, ip[p], ip["P2"] + 1, KeySteps, FALSE)
         /\ LinkOK(dealt[p], ip[p], ip["P2"] + 1, KeySteps, FALSE)
<1>1. /\ TypeOK /\ Tables /\ Shapes(p) /\ DealLink(p) /\ Paced(p)
      /\ p \in Roles /\ "P2" \in Roles
  BY PeerFacts DEF FlowInv, Roles
<1>2. /\ ip[p] \in Nat /\ ip["P2"] \in Nat /\ KeySteps \in SUBSET Nat /\ DealtTo = ip["P2"]
      /\ Up("P2", p) \in BOOLEAN /\ (Up("P2", p) <=> st[p] = "run")
  BY <1>1, PlaceFacts, ProgramFacts DEF DealtTo, Up
<1>3. /\ LinkOK(dealt[p], ip[p], ip["P2"], KeySteps, Up("P2", p)) /\ IsSeq(dealt[p])
      /\ \A i \in 1 .. Len(dealt[p]) : dealt[p][i].v \in KeyType
  BY <1>1, <1>2 DEF DealLink, Shapes
<1>4. LinkOK(dealt[p], ip[p], ip["P2"], KeySteps, FALSE)
  BY <1>3 DEF LinkOK
<1>5. LinkOK(dealt[p], ip[p], ip["P2"] + 1, KeySteps, FALSE)
  BY <1>2, <1>4, LinkSkipWrite
<1>6. ASSUME d = Written(dealt[p], "P2", p, key)
      PROVE  /\ IsSeq(d) /\ \A i \in 1 .. Len(d) : d[i].v \in KeyType
             /\ LinkOK(d, ip[p], ip["P2"] + 1, KeySteps, Up("P2", p))
             /\ LinkOK(d, ip[p], ip["P2"] + 1, KeySteps, FALSE)
  <2>1. CASE st[p] = "run"
    <3>1. d = Append(dealt[p], [k |-> ip["P2"], v |-> key])
      BY <1>6, <2>1 DEF Written
    <3>2. /\ IsSeq(d) /\ Len(d) = Len(dealt[p]) + 1
          /\ \A i \in 1 .. Len(dealt[p]) : d[i] = dealt[p][i]
          /\ d[Len(dealt[p]) + 1] = [k |-> ip["P2"], v |-> key] /\ Len(dealt[p]) \in Nat
      BY <3>1, <1>3, AppendIsSeq DEF IsSeq
    <3>3. \A i \in 1 .. Len(d) : d[i].v \in KeyType
      <4>1. [k |-> ip["P2"], v |-> key].v = key
        OBVIOUS
      <4>2. \A i \in 1 .. Len(d) : i \in 1 .. Len(dealt[p]) \/ i = Len(dealt[p]) + 1
        BY <3>2
      <4> QED
        BY <4>1, <4>2, <3>2, <1>3
    <3>4. ip[p] <= ip["P2"]
      BY <1>1, <1>2 DEF Paced
    <3>5. LinkOK(d, ip[p], ip["P2"] + 1, KeySteps, TRUE)
      BY <3>1, <3>4, <1>2, <1>3, <2>1, LinkWrite
    <3>6. LinkOK(d, ip[p], ip["P2"] + 1, KeySteps, FALSE)
      BY <3>5 DEF LinkOK
    <3> QED
      BY <3>2, <3>3, <3>5, <3>6, <1>2, <2>1
  <2>2. CASE st[p] # "run"
    <3>1. d = dealt[p]
      BY <1>6, <2>2 DEF Written
    <3> QED
      BY <3>1, <1>2, <1>3, <1>5, <2>2
  <2> QED
    BY <2>1, <2>2
<1> QED
  BY <1>5, <1>6

\* What P2 draws for a party is a key.
LEMMA NextKeyTyped ==
  ASSUME NEW o \in Pads, NEW w \in FlagPads
  PROVE  /\ \A p \in Parties : NextKey(p, o, w) \in KeyType
         /\ Program[ip["P2"]] = "update" =>
              XorVec(NextKey("P0", o, w).out, NextKey("P1", o, w).out) = Point(UpdAlpha, UpdValue)
<1>1. UpdAlpha \in Index /\ ReadAlpha \in Index /\ UpdValue \in XWord /\ {0} \in XWord
  BY LocoramAssumption, WordSize DEF XWord
<1> QED
  BY <1>1, KeyTyped DEF NextKey

\* P2 deals, to both parties or, as it fails, to some; or it passes a step.
LEMMA FlowDealer ==
  ASSUME FlowInv, Deal \/ DealFails \/ DealerSkip
  PROVE  FlowInv'
<1>1. /\ TypeOK /\ Tables /\ "P2" \in Roles /\ "P2" \notin Parties
      /\ \A p \in Parties : /\ Shapes(p) /\ DealLink(p) /\ TalkLink(p) /\ Paced(p)
                            /\ p \in Roles /\ Peer(p) \in Parties /\ Peer(Peer(p)) = p
                            /\ p # "P2"
  BY PeerFacts DEF FlowInv, Roles, Parties
<1>2. /\ ip["P2"] \in Steps /\ st["P2"] = "run" /\ UNCHANGED <<mem, sent, res, talk>>
      /\ DealtTo = ip["P2"] /\ ip["P2"] \in Nat
  BY <1>1, PlaceFacts DEF Deal, DealFails, DealerSkip, Running, DealtTo
<1>3. \A p \in Parties : ip[p] \in Nat /\ Up("P2", p) \in BOOLEAN
  BY <1>1, PlaceFacts DEF Up
<1>4. /\ ip' \in [Roles -> 1 .. (Len(Program) + 1)] /\ \A p \in Parties : ip'[p] = ip[p]
      /\ st' \in [Roles -> {"run", "done", "threw"}] /\ \A p \in Parties : st'[p] = st[p]
      /\ DealtTo' = ip["P2"] + 1 /\ st'["P2"] \in {"run", "threw"}
      /\ st'["P2"] = "run" \/ (\A p \in Parties : Up("P2", p)' = FALSE)
      /\ st'["P2"] # "run" \/ (\A p \in Parties : Up("P2", p)' = Up("P2", p))
  <2>1. ip \in [Roles -> 1 .. (Len(Program) + 1)] /\ st \in [Roles -> {"run", "done", "threw"}]
    BY <1>1 DEF TypeOK
  <2>2. CASE Deal \/ DealerSkip
    <3>1. ip' = [ip EXCEPT !["P2"] = @ + 1] /\ st' = st
      BY <2>2 DEF Deal, DealerSkip
    <3> QED
      BY <3>1, <2>1, <1>1, <1>2, ProgramFacts DEF DealtTo, Up
  <2>3. CASE DealFails
    <3>1. ip' = ip /\ st' = [st EXCEPT !["P2"] = "threw"]
      BY <2>3 DEF DealFails
    <3> QED
      BY <3>1, <2>1, <1>1, <1>2 DEF DealtTo, Up
  <2> QED
    BY <2>2, <2>3
<1>5. /\ dealt' = [p \in Parties |-> dealt'[p]]
      /\ \A p \in Parties :
           /\ IsSeq(dealt'[p]) /\ \A i \in 1 .. Len(dealt'[p]) : dealt'[p][i].v \in KeyType
           /\ LinkOK(dealt'[p], ip[p], ip["P2"] + 1, KeySteps, Up("P2", p)')
  <2>0. dealt = [p \in Parties |-> dealt[p]]
    BY <1>1 DEF Tables
  <2>1. CASE Deal
    <3>1. PICK o \in Pads, w \in FlagPads :
            dealt' = [p \in Parties |-> Written(dealt[p], "P2", p, NextKey(p, o, w))]
      BY <2>1 DEF Deal
    <3>2. ip["P2"] \in KeySteps /\ \A p \in Parties : Up("P2", p)' = Up("P2", p)
      BY <2>1, <1>4, <1>2 DEF Deal, Running, KeySteps, Up
    <3>3. ASSUME NEW p \in Parties
          PROVE  /\ IsSeq(dealt'[p]) /\ \A i \in 1 .. Len(dealt'[p]) : dealt'[p][i].v \in KeyType
                 /\ LinkOK(dealt'[p], ip[p], ip["P2"] + 1, KeySteps, Up("P2", p))
      BY <3>1, <3>2, <1>2, NextKeyTyped, DealWrite
    <3> QED
      BY <3>1, <3>2, <3>3
  <2>2. CASE DealFails
    <3>1. PICK p \in Parties, o \in Pads, w \in FlagPads :
            dealt' \in {dealt, [dealt EXCEPT ![Peer(p)] =
                                 Written(@, "P2", Peer(p), NextKey(Peer(p), o, w))]}
      BY <2>2 DEF DealFails
    <3>2. ip["P2"] \in KeySteps /\ \A u \in Parties : Up("P2", u)' = FALSE
      <4>1. st' = [st EXCEPT !["P2"] = "threw"]
        BY <2>2 DEF DealFails
      <4>2. st'["P2"] = "threw"
        BY <4>1, <1>1 DEF TypeOK
      <4> QED
        BY <4>2, <2>2, <1>4 DEF DealFails, Running, KeySteps
    <3>3. /\ dealt' = [u \in Parties |-> dealt'[u]]
          /\ \A u \in Parties : \/ dealt'[u] = dealt[u]
                                \/ dealt'[u] = Written(dealt[u], "P2", u, NextKey(u, o, w))
      BY <3>1, <2>0
    <3>4. ASSUME NEW u \in Parties
          PROVE  /\ IsSeq(dealt'[u]) /\ \A i \in 1 .. Len(dealt'[u]) : dealt'[u][i].v \in KeyType
                 /\ LinkOK(dealt'[u], ip[u], ip["P2"] + 1, KeySteps, FALSE)
      <4>1. CASE dealt'[u] = dealt[u]
        <5>1. IsSeq(dealt[u]) /\ \A i \in 1 .. Len(dealt[u]) : dealt[u][i].v \in KeyType
          BY <1>1 DEF Shapes
        <5>2. LinkOK(dealt[u], ip[u], ip["P2"] + 1, KeySteps, FALSE)
          BY <3>2, <1>2, NextKeyTyped, DealWrite
        <5> QED
          BY <4>1, <5>1, <5>2
      <4>2. CASE dealt'[u] = Written(dealt[u], "P2", u, NextKey(u, o, w))
        BY <4>2, <3>2, <1>2, NextKeyTyped, DealWrite
      <4> QED
        BY <4>1, <4>2, <3>3
    <3> QED
      BY <3>2, <3>3, <3>4
  <2>3. CASE DealerSkip
    <3>1. /\ dealt' = dealt /\ ip["P2"] \notin KeySteps
          /\ \A p \in Parties : Up("P2", p)' = Up("P2", p)
      BY <2>3, <1>4, <1>2 DEF DealerSkip, Running, KeySteps, KeyOps, Up
    <3>2. ASSUME NEW p \in Parties
          PROVE  LinkOK(dealt[p], ip[p], ip["P2"] + 1, KeySteps, Up("P2", p))
      BY <3>1, <1>1, <1>2, <1>3, LinkSkipWrite, ProgramFacts DEF DealLink
    <3> QED
      BY <3>1, <3>2, <2>0, <1>1 DEF Shapes
  <2> QED
    BY <2>1, <2>2, <2>3
<1>6. TypeOK'
  <2>1. mem' = mem /\ \A p \in Parties : Len(res'[p]) = ip'[p] - 1
    BY <1>1, <1>2, <1>4 DEF TypeOK
  <2> QED
    BY <2>1, <1>1, <1>4 DEF TypeOK
<1>7. Tables'
  BY <1>1, <1>2, <1>5 DEF Tables
<1>8. ASSUME NEW p \in Parties
      PROVE  Shapes(p)' /\ DealLink(p)' /\ TalkLink(p)' /\ Paced(p)'
  <2>1. /\ ip'[p] = ip[p] /\ ip'[Peer(p)] = ip[Peer(p)] /\ Ahead(Peer(p))' = Ahead(Peer(p))
        /\ Up(Peer(p), p)' = Up(Peer(p), p)
    BY <1>1, <1>2, <1>4 DEF Ahead, Up
  <2>2. Shapes(p)'
    BY <2>1, <1>1, <1>2, <1>5 DEF Shapes
  <2>3. DealLink(p)' /\ TalkLink(p)'
    BY <2>1, <1>1, <1>2, <1>4, <1>5 DEF DealLink, TalkLink
  <2>4. Paced(p)'
    BY <2>1, <1>1, <1>2, <1>4, ProgramFacts DEF Paced
  <2> QED
    BY <2>2, <2>3, <2>4
<1> QED
  BY <1>6, <1>7, <1>8 DEF FlowInv

\* Party p writes to its peer for the step it is in.
LEMMA TalkWrite ==
  ASSUME FlowInv, NEW p \in Parties, st[p] = "run", ip[p] \in TalkSteps, ~sent[p],
         NEW v, NEW d, d = Written(talk[Peer(p)], p, Peer(p), v)
  PROVE  IsSeq(d) /\ LinkOK(d, ip[Peer(p)], ip[p] + 1, TalkSteps, Up(p, Peer(p)))
<1> DEFINE q == Peer(p)
<1>1. /\ TypeOK /\ Tables /\ Shapes(q) /\ TalkLink(q) /\ Paced(q) /\ q \in Parties
      /\ Peer(q) = p /\ p \in Roles /\ q \in Roles
  BY PeerFacts DEF FlowInv
<1> HIDE DEF q
<1>2. /\ ip[p] \in Nat /\ ip[q] \in Nat /\ TalkSteps \in SUBSET Nat /\ Ahead(p) = ip[p]
      /\ Up(p, q) \in BOOLEAN /\ (Up(p, q) <=> st[q] = "run")
  BY <1>1, PlaceFacts, ProgramFacts DEF Ahead, Up
<1>3. LinkOK(talk[q], ip[q], ip[p], TalkSteps, Up(p, q)) /\ IsSeq(talk[q])
  BY <1>1, <1>2 DEF TalkLink, Shapes
<1>4. CASE st[q] = "run"
  <2>1. d = Append(talk[q], [k |-> ip[p], v |-> v])
    BY <1>4 DEF Written, q
  <2>2. ip[q] <= ip[p]
    BY <1>1, <1>2 DEF Paced
  <2>3. LinkOK(d, ip[q], ip[p] + 1, TalkSteps, TRUE)
    BY <2>1, <2>2, <1>2, <1>3, <1>4, LinkWrite
  <2>4. IsSeq(d)
    BY <2>1, <1>3, AppendIsSeq
  <2> QED
    BY <2>3, <2>4, <1>2, <1>4 DEF q
<1>5. CASE st[q] # "run"
  <2>1. d = talk[q]
    BY <1>5 DEF Written, q
  <2>2. LinkOK(d, ip[q], ip[p] + 1, TalkSteps, FALSE)
    BY <2>1, <1>2, <1>3, <1>5, LinkSkipWrite
  <2> QED
    BY <2>1, <2>2, <1>2, <1>3, <1>5 DEF q
<1> QED
  BY <1>4, <1>5

\* A party sends its half before it reads.
LEMMA FlowSend ==
  ASSUME FlowInv, NEW p \in Parties, SendHalf(p)
  PROVE  FlowInv'
<1> DEFINE q == Peer(p)
<1>1. /\ q \in Parties /\ q # p /\ Peer(q) = p /\ Parties = {p, q} /\ p \in Roles /\ q \in Roles
      /\ TypeOK /\ Tables /\ Shapes(p) /\ DealLink(p) /\ TalkLink(p) /\ Paced(p)
      /\ Shapes(q) /\ DealLink(q) /\ TalkLink(q) /\ Paced(q)
  BY PeerFacts DEF FlowInv
<1> HIDE DEF q
<1>2. /\ ip[p] \in TalkSteps /\ st[p] = "run" /\ ~sent[p]
      /\ UNCHANGED <<st, ip, idx, mem, res, dealt>> /\ sent' = [sent EXCEPT ![p] = TRUE]
      /\ talk' = [talk EXCEPT ![q] = Written(@, p, q, Half(p))]
  BY DEF SendHalf, Running, TalkSteps, Halves, q
<1>3. /\ talk' = [u \in Parties |-> talk'[u]] /\ talk'[p] = talk[p]
      /\ talk'[q] = Written(talk[q], p, q, Half(p))
      /\ sent' \in [Parties -> BOOLEAN] /\ sent'[p] = TRUE /\ sent'[q] = sent[q]
  BY <1>1, <1>2 DEF Tables
<1>4. IsSeq(talk'[q]) /\ LinkOK(talk'[q], ip[q], ip[p] + 1, TalkSteps, Up(p, q))
  BY <1>2, <1>3, TalkWrite DEF q
<1>5. /\ Ahead(p) = ip[p] /\ Ahead(p)' = ip[p] + 1 /\ Ahead(q)' = Ahead(q)
      /\ DealtTo' = DealtTo /\ \A r, s \in Roles : Up(r, s)' = Up(r, s)
      /\ ip[p] \in Nat /\ ip[q] \in Nat
  BY <1>1, <1>2, <1>3, PlaceFacts DEF Ahead, DealtTo, Up
<1>6. TypeOK' /\ Tables'
  BY <1>1, <1>2, <1>3 DEF TypeOK, Tables
<1>7. Shapes(p)' /\ Shapes(q)'
  BY <1>1, <1>2, <1>3, <1>4 DEF Shapes
<1>8. DealLink(p)' /\ DealLink(q)' /\ TalkLink(p)' /\ TalkLink(q)'
  BY <1>1, <1>2, <1>3, <1>4, <1>5 DEF DealLink, TalkLink, q, Roles
<1>9. Paced(p)' /\ Paced(q)'
  BY <1>1, <1>2, <1>5, ProgramFacts DEF Paced, q
<1> QED
  BY <1>1, <1>6, <1>7, <1>8, <1>9 DEF FlowInv

\* A party reads the half of its peer, and writes its own if it reads first.
LEMMA FlowRecv ==
  ASSUME FlowInv, NEW p \in Parties, RecvHalf(p)
  PROVE  /\ FlowInv' /\ ip[p] \in TalkSteps /\ Head(talk[p]).k = ip[p]
         /\ ip[p] < Ahead(Peer(p)) /\ talk[p] # <<>>
         /\ talk'[p] = Tail(talk[p])
         /\ \/ talk'[Peer(p)] = talk[Peer(p)]
            \/ talk'[Peer(p)] = Written(talk[Peer(p)], p, Peer(p), Half(p))
<1> DEFINE q == Peer(p)
<1>1. /\ q \in Parties /\ q # p /\ Peer(q) = p /\ Parties = {p, q} /\ p \in Roles /\ q \in Roles
      /\ p # "P2" /\ q # "P2"
      /\ TypeOK /\ Tables /\ Shapes(p) /\ DealLink(p) /\ TalkLink(p) /\ Paced(p)
      /\ Shapes(q) /\ DealLink(q) /\ TalkLink(q) /\ Paced(q)
  BY PeerFacts DEF FlowInv
<1> HIDE DEF q
<1>2. /\ ip[p] \in TalkSteps /\ ip[p] \in Steps /\ ip[p] \notin KeySteps /\ st[p] = "run"
      /\ talk[p] # <<>> /\ UNCHANGED <<st, idx, mem, dealt>> /\ sent' = [sent EXCEPT ![p] = FALSE]
      /\ talk' = [talk EXCEPT ![p] = Tail(@),
                              ![q] = IF sent[p] THEN @ ELSE Written(@, p, q, Half(p))]
      /\ Return(p, Whole(p, Head(talk[p]).v))
  BY ProgramFacts DEF RecvHalf, Running, TalkSteps, Halves, q
<1>3. /\ talk' = [u \in Parties |-> talk'[u]] /\ talk'[p] = Tail(talk[p])
      /\ talk'[q] = IF sent[p] THEN talk[q] ELSE Written(talk[q], p, q, Half(p))
      /\ sent' \in [Parties -> BOOLEAN] /\ sent'[p] = FALSE /\ sent'[q] = sent[q]
  BY <1>1, <1>2 DEF Tables
<1>4. /\ ip' \in [Roles -> 1 .. (Len(Program) + 1)]
      /\ ip'[p] = ip[p] + 1 /\ ip'[q] = ip[q] /\ ip'["P2"] = ip["P2"]
      /\ res' = [u \in Parties |-> res'[u]] /\ res'[q] = res[q]
      /\ IsSeq(res'[p]) /\ Len(res'[p]) = ip[p]
  BY <1>1, <1>2, ReturnFacts DEF Shapes, q, Roles
<1>5. /\ ip[p] \in Nat /\ ip[q] \in Nat /\ DealtTo \in Nat /\ Ahead(p) \in Nat /\ Ahead(q) \in Nat
      /\ Len(res[q]) = ip[q] - 1 /\ ip[p] >= 1
      /\ KeySteps \in SUBSET Nat /\ TalkSteps \in SUBSET Nat
  BY <1>1, PlaceFacts, ProgramFacts
<1>6. /\ DealtTo' = DealtTo /\ Ahead(p)' = ip[p] + 1 /\ Ahead(q)' = Ahead(q)
      /\ sent[p] => Ahead(p) = ip[p] + 1
      /\ ~sent[p] => Ahead(p) = ip[p]
      /\ \A r, s \in Roles : Up(r, s)' = Up(r, s) /\ Up(r, s) \in BOOLEAN
  BY <1>1, <1>2, <1>3, <1>4 DEF DealtTo, Ahead, Up
<1>7. IsSeq(talk'[q]) /\ LinkOK(talk'[q], ip[q], ip[p] + 1, TalkSteps, Up(p, q))
  <2>1. CASE sent[p]
    BY <2>1, <1>1, <1>3, <1>6 DEF TalkLink, Shapes
  <2>2. CASE ~sent[p]
    BY <2>2, <1>2, <1>3, TalkWrite DEF q
  <2> QED
    BY <2>1, <2>2
<1>8. /\ Head(talk[p]).k = ip[p]
      /\ LinkOK(talk'[p], ip[p] + 1, Ahead(q), TalkSteps, Up(q, p))
  BY <1>1, <1>2, <1>3, <1>5, <1>6, LinkRead DEF TalkLink, Shapes, q
<1>9. /\ IsSeq(talk'[p]) /\ Len(talk[p]) >= 1 /\ Head(talk[p]) = talk[p][1] /\ Len(talk[p]) \in Nat
  <2>1. IsSeq(talk[p]) /\ talk[p] # <<>> /\ talk'[p] = Tail(talk[p])
    BY <1>1, <1>2, <1>3 DEF Shapes
  <2>2. Len(talk[p]) \in Nat
    BY <2>1 DEF IsSeq
  <2> QED
    BY <2>1, <2>2, TailIsSeq
<1>10. ip[p] < Ahead(q)
  <2>1. talk[p][1].k \in ip[p] .. (Ahead(q) - 1)
    BY <1>1, <1>9 DEF TalkLink, LinkOK, q
  <2> QED
    BY <2>1, <1>5
<1>11. LinkOK(dealt[p], ip[p] + 1, DealtTo, KeySteps, Up("P2", p))
  BY <1>1, <1>2, <1>5, <1>6, LinkSkipRead DEF DealLink, Roles
<1>12. TypeOK' /\ Tables'
  <2>1. \A u \in Parties : Len(res'[u]) = ip'[u] - 1
    BY <1>1, <1>4, <1>5
  <2> QED
    BY <2>1, <1>1, <1>2, <1>3, <1>4 DEF TypeOK, Tables
<1>13. Shapes(p)' /\ Shapes(q)'
  <2>1. mem[p].update_vals # <<>>
    <3>1. ip[p] # 1
      BY <1>2, ProgramFacts DEF TalkSteps, Halves
    <3> QED
      BY <3>1, <1>1, <1>5 DEF Shapes
  <2> QED
    BY <2>1, <1>1, <1>2, <1>3, <1>4, <1>7, <1>9 DEF Shapes
<1>14. DealLink(p)' /\ DealLink(q)' /\ TalkLink(p)' /\ TalkLink(q)'
  BY <1>1, <1>2, <1>4, <1>6, <1>7, <1>8, <1>11 DEF DealLink, TalkLink, q, Roles
<1>15. Paced(p)' /\ Paced(q)'
  <2>1. \A j \in KeySteps : j < ip[p] + 1 => j < DealtTo
    BY <1>1, <1>2, <1>5 DEF Paced
  <2>2. \A j \in TalkSteps : j < ip[p] + 1 => j < Ahead(q)
    BY <1>1, <1>5, <1>10 DEF Paced, q
  <2>3. \A j \in TalkSteps : j < ip[q] => j < ip[p] + 1
    BY <1>1, <1>5, <1>6 DEF Paced
  <2> QED
    BY <2>1, <2>2, <2>3, <1>1, <1>4, <1>6 DEF Paced, q
<1>16. FlowInv'
  BY <1>1, <1>12, <1>13, <1>14, <1>15 DEF FlowInv
<1> QED
  BY <1>16, <1>2, <1>3, <1>8, <1>10 DEF q

\* A role ends: its queues go, and a suffix of what it had sent may go too.
LEMMA FlowEnd ==
  ASSUME FlowInv, NEW r \in Roles, BoundsError(r) \/ IoError(r) \/ Finish(r)
  PROVE  /\ FlowInv' /\ UNCHANGED <<ip, mem, sent, res>>
         /\ \A p \in Parties :
              /\ \E n \in 0 .. Len(dealt[p]) : dealt'[p] = SubSeq(dealt[p], 1, n)
              /\ \E n \in 0 .. Len(talk[p]) : talk'[p] = SubSeq(talk[p], 1, n)
<1>1. PICK how \in {"done", "threw"} : End(r, how)
  BY DEF BoundsError, IoError, Finish
<1>2. /\ TypeOK /\ Tables
      /\ \A p \in Parties : /\ Shapes(p) /\ DealLink(p) /\ TalkLink(p) /\ Paced(p)
                            /\ Peer(p) \in Parties /\ Peer(Peer(p)) = p /\ p # Peer(p)
                            /\ p \in Roles
  BY PeerFacts DEF FlowInv
<1>3. UNCHANGED <<ip, idx, mem, sent, res>> /\ st' = [st EXCEPT ![r] = how]
  BY <1>1 DEF End
<1>4. /\ st' \in [Roles -> {"run", "done", "threw"}] /\ st'[r] # "run"
      /\ \A s \in Roles : s # r => st'[s] = st[s]
  BY <1>2, <1>3 DEF TypeOK
<1>5. /\ dealt' = [p \in Parties |-> dealt'[p]] /\ talk' = [p \in Parties |-> talk'[p]]
      /\ \A p \in Parties :
           /\ \E n \in 0 .. Len(dealt[p]) : dealt'[p] = SubSeq(dealt[p], 1, n)
           /\ \E n \in 0 .. Len(talk[p]) : talk'[p] = SubSeq(talk[p], 1, n)
  <2>0. /\ dealt = [p \in Parties |-> dealt[p]] /\ talk = [p \in Parties |-> talk[p]]
        /\ \A p \in Parties :
             /\ IsSeq(dealt[p]) /\ Len(dealt[p]) \in Nat
             /\ IsSeq(talk[p]) /\ Len(talk[p]) \in Nat
             /\ SubSeq(dealt[p], 1, Len(dealt[p])) = dealt[p]
             /\ SubSeq(talk[p], 1, Len(talk[p])) = talk[p]
    BY <1>2, WholeIsSeq DEF Tables, Shapes, IsSeq
  <2>1. \A s : IsSeq(s) => 0 \in 0 .. Len(s) /\ SubSeq(s, 1, 0) = <<>>
    <3>1. ASSUME NEW s, IsSeq(s) PROVE 0 \in 0 .. Len(s) /\ SubSeq(s, 1, 0) = <<>>
      <4>1. 0 \in 0 .. Len(s)
        BY <3>1 DEF IsSeq
      <4> QED
        BY <3>1, <4>1, PrefixIsSeq, NoneIsSeq
    <3> QED
      BY <3>1
  <2>2. CASE r = "P2"
    <3>1. UNCHANGED <<dealt, talk>>
      BY <2>2, <1>1 DEF End, CloseSockets
    <3>2. \A p \in Parties : Len(dealt[p]) \in 0 .. Len(dealt[p]) /\ Len(talk[p]) \in 0 .. Len(talk[p])
      BY <2>0
    <3> QED
      BY <3>1, <3>2, <2>0
  <2>3. CASE r \in Parties
    <3>1. /\ dealt' = [dealt EXCEPT ![r] = <<>>]
          /\ \E n \in 0 .. Len(talk[Peer(r)]) :
               talk' = [talk EXCEPT ![r] = <<>>, ![Peer(r)] = SubSeq(@, 1, n)]
      BY <2>3, <1>1 DEF End, CloseSockets, Parties
    <3>2. PICK n \in 0 .. Len(talk[Peer(r)]) :
            talk' = [talk EXCEPT ![r] = <<>>, ![Peer(r)] = SubSeq(@, 1, n)]
      BY <3>1
    <3>3. /\ dealt'[r] = <<>> /\ dealt'[Peer(r)] = dealt[Peer(r)]
          /\ talk'[r] = <<>> /\ talk'[Peer(r)] = SubSeq(talk[Peer(r)], 1, n)
          /\ Parties = {r, Peer(r)} /\ Peer(r) \in Parties
          /\ dealt' = [p \in Parties |-> dealt'[p]] /\ talk' = [p \in Parties |-> talk'[p]]
      BY <3>1, <3>2, <2>0, <2>3, PeerFacts
    <3>4. Len(dealt[Peer(r)]) \in 0 .. Len(dealt[Peer(r)])
      BY <2>0, <3>3
    <3> QED
      BY <3>3, <3>4, <2>0, <2>1, <2>3
  <2> QED
    BY <2>2, <2>3 DEF Roles
<1>6. ASSUME NEW p \in Parties
      PROVE  Shapes(p)' /\ DealLink(p)' /\ TalkLink(p)' /\ Paced(p)'
  <2>1. PICK n \in 0 .. Len(dealt[p]) : dealt'[p] = SubSeq(dealt[p], 1, n)
    BY <1>5
  <2>2. PICK m \in 0 .. Len(talk[p]) : talk'[p] = SubSeq(talk[p], 1, m)
    BY <1>5
  <2>3. /\ IsSeq(dealt'[p]) /\ Len(dealt'[p]) = n /\ \A i \in 1 .. n : dealt'[p][i] = dealt[p][i]
        /\ IsSeq(talk'[p]) /\ IsSeq(dealt[p]) /\ IsSeq(talk[p]) /\ Len(dealt[p]) \in Nat
    <3>1. IsSeq(dealt[p]) /\ IsSeq(talk[p])
      BY <1>2 DEF Shapes
    <3>2. Len(dealt[p]) \in Nat
      BY <3>1 DEF IsSeq
    <3> QED
      BY <3>1, <3>2, <2>1, <2>2, PrefixIsSeq
  <2>4. /\ Ahead(p)' = Ahead(p) /\ Ahead(Peer(p))' = Ahead(Peer(p))
        /\ DealtTo' \in {DealtTo, DealtTo + 1} /\ DealtTo \in Nat /\ Ahead(Peer(p)) \in Nat
        /\ ip[p] \in Nat /\ KeySteps \in SUBSET Nat /\ TalkSteps \in SUBSET Nat
    <3>1. DealtTo' \in {DealtTo, DealtTo + 1}
      BY <1>3, <1>4 DEF DealtTo, Roles
    <3> QED
      BY <3>1, <1>2, <1>3, PlaceFacts, ProgramFacts DEF Ahead
  <2>5. /\ Up("P2", p)' \in {Up("P2", p), FALSE} /\ Up(Peer(p), p)' \in {Up(Peer(p), p), FALSE}
        /\ Up("P2", p) \in BOOLEAN /\ Up(Peer(p), p) \in BOOLEAN
        /\ r = p \/ r = Peer(p) \/ r = "P2"
        /\ r \in {p, Peer(p)} => Up(Peer(p), p)' = FALSE
        /\ r \in {p, "P2"} => Up("P2", p)' = FALSE
    <3>1. "P2" \in Roles /\ Peer(p) \in Roles /\ r \in {p, Peer(p), "P2"}
      BY PeerFacts DEF Roles
    <3> QED
      BY <3>1, <1>2, <1>4 DEF Up
  <2>6. Shapes(p)'
    BY <2>3, <1>2, <1>3 DEF Shapes
  <2>7. /\ LinkOK(dealt[p], ip[p], DealtTo, KeySteps, Up("P2", p))
        /\ LinkOK(talk[p], ip[p], Ahead(Peer(p)), TalkSteps, Up(Peer(p), p))
    BY <1>2 DEF DealLink, TalkLink
  <2>8. LinkOK(talk'[p], ip[p], Ahead(Peer(p)), TalkSteps, FALSE)
    BY <2>2, <2>3, <2>4, <2>5, <2>7, LinkCut
  <2>9. LinkOK(dealt'[p], ip[p], DealtTo, KeySteps, FALSE)
    BY <2>1, <2>3, <2>4, <2>5, <2>7, LinkCut
  <2>10. LinkOK(dealt'[p], ip[p], DealtTo + 1, KeySteps, FALSE)
    BY <2>9, <2>4, LinkSkipWrite
  <2>11. DealLink(p)'
    <3>1. CASE Up("P2", p)' = FALSE
      BY <3>1, <2>4, <2>9, <2>10, <1>3 DEF DealLink
    <3>2. CASE r = Peer(p)
      <4>1. dealt'[p] = dealt[p] /\ DealtTo' = DealtTo /\ Up("P2", p)' = Up("P2", p)
        <5>1. r # "P2" /\ r # p /\ p \in Roles /\ "P2" \in Roles /\ p # "P2" /\ Peer(r) = p
          BY <3>2, <1>2, PeerFacts DEF Roles
        <5>2. dealt' = [dealt EXCEPT ![r] = <<>>]
          BY <5>1, <1>1 DEF End, CloseSockets
        <5> QED
          BY <5>1, <5>2, <1>2, <1>3, <1>4 DEF Tables, DealtTo, Up
      <4> QED
        BY <4>1, <2>7, <1>3 DEF DealLink
    <3> QED
      BY <3>1, <3>2, <2>5
  <2>12. TalkLink(p)'
    <3>1. CASE Up(Peer(p), p)' = FALSE
      BY <3>1, <2>4, <2>8, <1>3 DEF TalkLink
    <3>2. CASE r = "P2"
      <4>1. talk'[p] = talk[p] /\ Up(Peer(p), p)' = Up(Peer(p), p)
        <5>1. Peer(p) \in Roles /\ p # "P2" /\ Peer(p) # "P2" /\ p \in Roles
          BY <1>2, PeerFacts
        <5> QED
          BY <3>2, <5>1, <1>1, <1>4 DEF End, CloseSockets, Up
      <4> QED
        BY <4>1, <2>4, <2>7, <1>3 DEF TalkLink
    <3> QED
      BY <3>1, <3>2, <2>5
  <2>13. Paced(p)'
    BY <2>4, <1>2, <1>3 DEF Paced
  <2> QED
    BY <2>6, <2>11, <2>12, <2>13
<1>7. TypeOK' /\ Tables'
  BY <1>2, <1>3, <1>4, <1>5 DEF TypeOK, Tables
<1> QED
  BY <1>3, <1>5, <1>6, <1>7 DEF FlowInv

-----------------------------------------------------------------------------
(* What the calls do to the object of a party.                             *)

\* The next key of a party is a key.
LEMMA HeadKey ==
  ASSUME FlowInv, NEW p \in Parties, dealt[p] # <<>>
  PROVE  /\ Head(dealt[p]).v \in KeyType /\ Head(dealt[p]) = dealt[p][1]
         /\ 1 \in 1 .. Len(dealt[p]) /\ IsSeq(Tail(dealt[p]))
         /\ \A i \in 1 .. Len(Tail(dealt[p])) :
              \E j \in 1 .. Len(dealt[p]) : Tail(dealt[p])[i] = dealt[p][j]
<1>1. Shapes(p)
  BY DEF FlowInv
<1>2. IsSeq(dealt[p]) /\ Len(dealt[p]) \in Nat
  BY <1>1 DEF Shapes, IsSeq
<1>3. /\ IsSeq(Tail(dealt[p])) /\ Len(dealt[p]) >= 1 /\ Head(dealt[p]) = dealt[p][1]
      /\ Len(Tail(dealt[p])) = Len(dealt[p]) - 1
      /\ \A i \in 1 .. Len(Tail(dealt[p])) : Tail(dealt[p])[i] = dealt[p][i + 1]
  BY <1>2, TailIsSeq
<1>4. 1 \in 1 .. Len(dealt[p])
      /\ \A i \in 1 .. Len(Tail(dealt[p])) : i + 1 \in 1 .. Len(dealt[p])
  BY <1>2, <1>3
<1> QED
  BY <1>1, <1>3, <1>4 DEF Shapes

\* update: share and blind move together.
LEMMA UpdateEffect ==
  ASSUME FlowInv, NEW p \in Parties, Update(p)
  PROVE  /\ FlowInv' /\ Head(dealt[p]).k = ip[p] /\ Head(dealt[p]).v \in KeyType
         /\ TakeKey(p) /\ Return(p, {}) /\ ip[p] \in Steps /\ Program[ip[p]] = "update"
         /\ mem'[Peer(p)] = mem[Peer(p)]
         /\ mem'[p].secret_share = XorVec(mem[p].secret_share, Head(dealt[p]).v.out)
         /\ mem'[p].blind = XorVec(mem[p].blind, Head(dealt[p]).v.out)
         /\ mem'[p].sbv_secret_share = mem[p].sbv_secret_share
         /\ mem'[p].cancellation_term = mem[p].cancellation_term
         /\ mem[p].update_vals # <<>> => mem'[p].update_vals[1] = mem[p].update_vals[1]
<1> DEFINE k == Head(dealt[p]).v
<1>1. /\ TakeKey(p) /\ Return(p, {}) /\ ip[p] \in Steps /\ Program[ip[p]] = "update"
      /\ Running(p, KeyOps) /\ dealt[p] # <<>>
  BY DEF Update, Running, TakeKey, KeyOps
<1>2. k \in KeyType /\ mem \in [Parties -> MemType] /\ mem[p] \in MemType
  BY <1>1, HeadKey DEF FlowInv, TypeOK, MemType
<1>3. PICK v \in ValShares :
        mem' = [mem EXCEPT ![p].secret_share = XorVec(@, k.out),
                           ![p].blind = XorVec(@, k.out),
                           ![p].update_vals = Append(@, v)]
  BY DEF Update
<1>4. v \in XWord
  BY LocoramAssumption
<1>5. /\ mem[p].secret_share \in Vector /\ mem[p].blind \in Vector /\ k.out \in Vector
      /\ mem[p].update_vals \in Seq(XWord)
      /\ mem[p].sbv_secret_share \in [Index -> BOOLEAN] /\ mem[p].cancellation_term \in XWord
  BY <1>2 DEF MemType, KeyType
<1>6. /\ XorVec(mem[p].secret_share, k.out) \in Vector /\ XorVec(mem[p].blind, k.out) \in Vector
  BY <1>5, XorVecType
<1> HIDE DEF k
<1>7. /\ Append(mem[p].update_vals, v) \in Seq(XWord) /\ Append(mem[p].update_vals, v) # <<>>
      /\ mem[p].update_vals # <<>> => Append(mem[p].update_vals, v)[1] = mem[p].update_vals[1]
  <2> DEFINE s == mem[p].update_vals
  <2>1. Append(s, v) \in Seq(XWord) /\ Len(Append(s, v)) = Len(s) + 1 /\ Len(s) \in Nat
    BY <1>4, <1>5
  <2>2. Append(s, v) # <<>>
    BY <2>1
  <2>3. s # <<>> => Append(s, v)[1] = s[1]
    BY <1>4, <1>5
  <2> QED
    BY <2>1, <2>2, <2>3
<1>8. /\ mem' \in [Parties -> MemType] /\ mem'[Peer(p)] = mem[Peer(p)]
      /\ mem'[p].secret_share = XorVec(mem[p].secret_share, k.out)
      /\ mem'[p].blind = XorVec(mem[p].blind, k.out)
      /\ mem'[p].sbv_secret_share = mem[p].sbv_secret_share
      /\ mem'[p].cancellation_term = mem[p].cancellation_term
      /\ mem'[p].update_vals = Append(mem[p].update_vals, v)
  BY <1>2, <1>3, <1>6, <1>7, PeerFacts DEF MemType
<1>9. FlowInv' /\ Head(dealt[p]).k = ip[p]
  BY <1>1, <1>7, <1>8, FlowKey
<1> QED
  BY <1>1, <1>2, <1>7, <1>8, <1>9 DEF k

\* The bits after a read, and the cancellation term if x is added.
NewBits(p) ==
  [i \in Index |-> mem[p].sbv_secret_share[i] # Head(dealt[p]).v.flags[i]]
NewTerm(p, x) ==
  Xor(mem[p].cancellation_term, Xor(Dot(mem[p].blind, Head(dealt[p]).v.flags), x))

\* read: the array stays as it is, the bits and the cancellation term move.
LEMMA ReadEffect ==
  ASSUME FlowInv, NEW p \in Parties, ReadX(p) \/ ReadA(p)
  PROVE  /\ FlowInv' /\ Head(dealt[p]).k = ip[p] /\ Head(dealt[p]).v \in KeyType
         /\ TakeKey(p) /\ ip[p] \in KeySteps /\ Program[ip[p]] \in Reads
         /\ mem'[Peer(p)] = mem[Peer(p)]
         /\ mem'[p].secret_share = mem[p].secret_share /\ mem'[p].blind = mem[p].blind
         /\ mem'[p].update_vals = mem[p].update_vals
         /\ \E x \in XWord :
              /\ Program[ip[p]] = "readX" => x = mem[p].update_vals[1]
              /\ Return(p, Xor(Dot(mem[p].secret_share, NewBits(p)), NewTerm(p, x)))
<1>1. /\ TakeKey(p) /\ ip[p] \in KeySteps /\ Program[ip[p]] \in Reads /\ Running(p, KeyOps)
      /\ dealt[p] # <<>> /\ ip[p] \in Steps
  BY DEF ReadX, ReadA, Running, TakeKey, KeyOps, KeySteps, Reads
<1>2. /\ Head(dealt[p]).v \in KeyType /\ mem \in [Parties -> MemType] /\ mem[p] \in MemType
      /\ Shapes(p)
  BY <1>1, HeadKey DEF FlowInv, TypeOK, MemType
<1>3. mem[p].update_vals # <<>>
  <2>1. ip[p] # 1 /\ ip[p] \in Nat /\ ip[p] >= 1
    BY <1>1, ProgramFacts DEF Reads
  <2> QED
    BY <2>1, <1>2 DEF Shapes
<1>4. mem[p].update_vals \in Seq(XWord)
  BY <1>2 DEF MemType
<1>5. mem[p].update_vals[1] \in XWord
  BY <1>3, <1>4
<1>6. PICK x \in XWord :
        /\ ReadWith(p, x)
        /\ Program[ip[p]] = "readX" => x = mem[p].update_vals[1]
  <2>1. CASE ReadX(p)
    BY <2>1, <1>5 DEF ReadX
  <2>2. CASE ReadA(p)
    <3>1. {} \in XWord
      BY DEF XWord
    <3>2. Program[ip[p]] = "readA"
      BY <2>2 DEF ReadA, Running
    <3> QED
      BY <3>1, <3>2, <2>2 DEF ReadA
  <2> QED
    BY <2>1, <2>2
<1>7. /\ mem' = [mem EXCEPT ![p].sbv_secret_share = NewBits(p),
                            ![p].cancellation_term = NewTerm(p, x)]
      /\ Return(p, Xor(Dot(mem[p].secret_share, NewBits(p)), NewTerm(p, x)))
  BY <1>6, Zenon DEF ReadWith, NewBits, NewTerm
<1>8. NewBits(p) \in [Index -> BOOLEAN] /\ NewTerm(p, x) \in XWord
  <2>1. NewBits(p) \in [Index -> BOOLEAN]
    BY DEF NewBits
  <2>2. mem[p].cancellation_term \in XWord
    BY <1>2 DEF MemType
  <2> QED
    BY <2>1, <2>2, DotType, XorType DEF NewTerm
<1>9. /\ mem' \in [Parties -> MemType] /\ mem'[Peer(p)] = mem[Peer(p)]
      /\ mem'[p].secret_share = mem[p].secret_share /\ mem'[p].blind = mem[p].blind
      /\ mem'[p].update_vals = mem[p].update_vals
  BY <1>2, <1>7, <1>8, PeerFacts DEF MemType
<1>10. FlowInv' /\ Head(dealt[p]).k = ip[p]
  BY <1>1, <1>3, <1>7, <1>9, FlowKey
<1> QED
  BY <1>1, <1>2, <1>6, <1>7, <1>9, <1>10

-----------------------------------------------------------------------------
(* What the messages and the results contain.                              *)

\* The array of p after a step that begins with array a, if u is its key.
After(k, a, u) == IF Program[k] = "update" THEN XorVec(a, u) ELSE a

\* The keys in flight are those of their steps.
Keyed(u, p) ==
  \A i \in 1 .. Len(dealt[p]) :
    Program[dealt[p][i].k] = "update" => dealt[p][i].v.out = u[p][dealt[p][i].k]

\* The array of p is what its keys have made of the one that was stored.
Arrays(u, sh, p) ==
  /\ sh[p][1] = Stored(p) /\ mem[p].secret_share = sh[p][ip[p]]
  /\ \A k \in 1 .. (ip[p] - 1) : sh[p][k + 1] = After(k, sh[p][k], u[p][k])

\* The halves in flight are those of their steps.
Told(sh, p) ==
  \A i \in 1 .. Len(talk[p]) :
    LET k == talk[p][i].k
    IN  /\ Program[k] = "reconstruct" => talk[p][i].v = sh[Peer(p)][k]
        /\ Program[k] = "open" => talk[p][i].v = res[Peer(p)][k - 1]

\* What has been reconstructed is what both parties held.
Got(sh, p) ==
  \A k \in 1 .. (ip[p] - 1) :
    /\ Program[k] = "reconstruct" => res[p][k] = XorVec(sh["P0"][k], sh["P1"][k])
    /\ Program[k] = "open" => res[p][k] = Xor(res["P0"][k - 1], res["P1"][k - 1])

History(u, sh) ==
  /\ u \in [Parties -> [Steps -> Vector]]
  /\ sh \in [Parties -> [1 .. (Len(Program) + 1) -> Vector]]
  /\ \A k \in Steps : Program[k] = "update" =>
       XorVec(u["P0"][k], u["P1"][k]) = Point(UpdAlpha, UpdValue)
  /\ \A p \in Parties : Keyed(u, p) /\ Arrays(u, sh, p) /\ Told(sh, p) /\ Got(sh, p)

\* The keys of the reads that are in flight have the bits g, or those flipped.
Marked(g) ==
  /\ g \in [Steps -> [Index -> BOOLEAN]]
  /\ \A p \in Parties : \A i \in 1 .. Len(dealt[p]) :
       Program[dealt[p][i].k] \in Reads =>
         dealt[p][i].v.flags = BitsOf(p, g[dealt[p][i].k])

\* The first read of a party selects from what was stored, and adds the share that
\* it passed first: the blind has gone.
First(g, p) ==
  /\ (\A i \in 1 .. (ip[p] - 1) : Program[i] \notin Reads) =>
       mem[p].sbv_secret_share = NoBits /\ mem[p].cancellation_term = {}
  /\ \A k \in 1 .. (ip[p] - 1) :
       Program[k] = "readX" /\ (\A i \in 1 .. (k - 1) : Program[i] \notin Reads) =>
         res[p][k] = Xor(Dot(Stored(p), BitsOf(p, g[k])), mem[p].update_vals[1])

Flagged(g) == Marked(g) /\ \A p \in Parties : First(g, p)

LocoramInv ==
  /\ FlowInv
  /\ \E u, sh : History(u, sh)
  /\ \E g : Flagged(g)

\* The steps that messages and results of the past belong to.
LEMMA PastFacts ==
  ASSUME FlowInv, NEW p \in Parties
  PROVE  /\ ip[p] \in 1 .. (Len(Program) + 1) /\ Len(res[p]) = ip[p] - 1
         /\ \A k \in 1 .. (ip[p] - 1) : k \in Steps
         /\ \A i \in 1 .. Len(talk[p]) :
              talk[p][i].k \in TalkSteps /\ talk[p][i].k <= ip[Peer(p)]
         /\ \A i \in 1 .. Len(dealt[p]) : dealt[p][i].k \in KeySteps /\ dealt[p][i].k < DealtTo
         /\ \A k \in TalkSteps : k < ip[p] => k <= ip[Peer(p)]
         /\ \A k \in KeySteps : k < ip[p] => k < DealtTo
<1>1. /\ TypeOK /\ Tables /\ Shapes(p) /\ DealLink(p) /\ TalkLink(p) /\ Paced(p)
      /\ Peer(p) \in Parties /\ p \in Roles
  BY PeerFacts DEF FlowInv
<1>2. /\ ip[p] \in 1 .. (Len(Program) + 1) /\ Len(res[p]) = ip[p] - 1 /\ Len(Program) \in Nat
  BY <1>1, PlaceFacts, ProgramFacts DEF TypeOK
<1>3. /\ Ahead(Peer(p)) <= ip[Peer(p)] + 1 /\ Ahead(Peer(p)) \in Nat /\ ip[Peer(p)] \in Nat
      /\ DealtTo \in Nat /\ ip[p] \in Nat /\ TalkSteps \in SUBSET Nat /\ KeySteps \in SUBSET Nat
  BY <1>1, PlaceFacts, ProgramFacts
<1>4. \A k \in 1 .. (ip[p] - 1) : k \in Steps
  BY <1>2, ProgramFacts
<1>5. \A i \in 1 .. Len(talk[p]) :
        talk[p][i].k \in TalkSteps /\ talk[p][i].k \in ip[p] .. (Ahead(Peer(p)) - 1)
  BY <1>1 DEF TalkLink, LinkOK
<1>6. \A i \in 1 .. Len(talk[p]) : talk[p][i].k \in TalkSteps /\ talk[p][i].k <= ip[Peer(p)]
  BY <1>3, <1>5
<1>7. \A i \in 1 .. Len(dealt[p]) :
        dealt[p][i].k \in KeySteps /\ dealt[p][i].k \in ip[p] .. (DealtTo - 1)
  BY <1>1 DEF DealLink, LinkOK
<1>8. \A i \in 1 .. Len(dealt[p]) : dealt[p][i].k \in KeySteps /\ dealt[p][i].k < DealtTo
  BY <1>3, <1>7
<1>9. \A k \in TalkSteps : k < ip[p] => k <= ip[Peer(p)]
  BY <1>1, <1>3 DEF Paced
<1> QED
  BY <1>1, <1>2, <1>4, <1>6, <1>8, <1>9 DEF Paced

\* A party completes a call: the history grows by the array of the next step.
LEMMA HistoryGrows ==
  ASSUME FlowInv, FlowInv', NEW u, NEW sh, History(u, sh), NEW p \in Parties,
         ip[p] \in Steps, NEW v, Return(p, v), NEW a \in Vector,
         a = After(ip[p], sh[p][ip[p]], u[p][ip[p]]),
         mem'[p].secret_share = a, Stored(p)' = Stored(p), mem'[Peer(p)] = mem[Peer(p)],
         \A q \in Parties : \A i \in 1 .. Len(dealt'[q]) :
           \E j \in 1 .. Len(dealt[q]) : dealt'[q][i] = dealt[q][j],
         \A q \in Parties : \A i \in 1 .. Len(talk'[q]) :
           \/ \E j \in 1 .. Len(talk[q]) : talk'[q][i] = talk[q][j]
           \/ /\ q = Peer(p) /\ ip[p] \in TalkSteps
              /\ talk'[q][i] = [k |-> ip[p], v |-> Half(p)],
         Program[ip[p]] = "reconstruct" => v = XorVec(sh["P0"][ip[p]], sh["P1"][ip[p]]),
         Program[ip[p]] = "open" => v = Xor(res["P0"][ip[p] - 1], res["P1"][ip[p] - 1]),
         ip[p] \in TalkSteps => ip[p] <= ip[Peer(p)]
  PROVE  \E s : History(u, s)'
<1> DEFINE q == Peer(p)
<1>0. PICK n, s : n = ip[p] /\ s = [sh EXCEPT ![p][n + 1] = a]
  OBVIOUS
<1>1. /\ q \in Parties /\ q # p /\ Peer(q) = p /\ Parties = {p, q} /\ p \in Roles /\ q \in Roles
      /\ TypeOK /\ Tables /\ IsSeq(res[p])
  BY PeerFacts DEF FlowInv, Shapes
<1>2. /\ ip'[p] = n + 1 /\ ip'[q] = ip[q] /\ res'[q] = res[q]
      /\ Len(res[p]) + 1 = n /\ res'[p][n] = v
      /\ \A j \in 1 .. Len(res[p]) : res'[p][j] = res[p][j]
  BY <1>0, <1>1, ReturnFacts
<1>3. /\ n \in 1 .. Len(Program) /\ ip[q] \in 1 .. (Len(Program) + 1) /\ Len(Program) \in Nat
  BY <1>0, <1>1, PastFacts, ProgramFacts
<1>4. /\ u \in [Parties -> [Steps -> Vector]]
      /\ sh \in [Parties -> [1 .. (Len(Program) + 1) -> Vector]]
      /\ \A r \in Parties : Keyed(u, r) /\ Arrays(u, sh, r) /\ Told(sh, r) /\ Got(sh, r)
  BY DEF History
<1> HIDE DEF q
<1>5. /\ s \in [Parties -> [1 .. (Len(Program) + 1) -> Vector]]
      /\ s[q] = sh[q] /\ s[p][n + 1] = a
      /\ \A k \in 1 .. n : s[p][k] = sh[p][k]
  BY <1>0, <1>1, <1>3, <1>4
<1>6. /\ \A r \in Parties : \A k \in 1 .. ip[r] : s[r][k] = sh[r][k]
      /\ \A r \in Parties : \A k \in 1 .. ip[r] : k - 1 \in 1 .. Len(res[r])
           => res'[r][k - 1] = res[r][k - 1]
      /\ \A r \in Parties : Len(res[r]) = ip[r] - 1 /\ ip[r] \in Nat
  <2>1. \A r \in Parties : Len(res[r]) = ip[r] - 1 /\ ip[r] \in Nat
    BY <1>1, PlaceFacts
  <2>2. ASSUME NEW r \in Parties, NEW k \in 1 .. ip[r] PROVE s[r][k] = sh[r][k]
    <3>1. r = p \/ r = q
      BY <1>1
    <3> QED
      BY <3>1, <1>0, <1>5
  <2>3. ASSUME NEW r \in Parties, NEW k \in 1 .. ip[r], k - 1 \in 1 .. Len(res[r])
        PROVE  res'[r][k - 1] = res[r][k - 1]
    <3>1. r = p \/ r = q
      BY <1>1
    <3> QED
      BY <3>1, <2>3, <1>2
  <2> QED
    BY <2>1, <2>2, <2>3
<1>7. ASSUME NEW r \in Parties PROVE Keyed(u, r)'
  <2>1. ASSUME NEW i \in 1 .. Len(dealt'[r]), Program[dealt'[r][i].k] = "update"
        PROVE  dealt'[r][i].v.out = u[r][dealt'[r][i].k]
    <3>1. PICK j \in 1 .. Len(dealt[r]) : dealt'[r][i] = dealt[r][j]
      OBVIOUS
    <3> QED
      BY <2>1, <3>1, <1>4 DEF Keyed
  <2> QED
    BY <2>1 DEF Keyed
<1>8. Arrays(u, s, p)'
  <2>1. Stored(p)' = s[p][1] /\ mem'[p].secret_share = s[p][ip'[p]]
    <3>1. Arrays(u, sh, p) /\ 1 \in 1 .. n
      BY <1>3, <1>4
    <3>2. sh[p][1] = Stored(p) /\ s[p][1] = sh[p][1]
      BY <3>1, <1>5 DEF Arrays
    <3>3. mem'[p].secret_share = s[p][ip'[p]]
      BY <1>2, <1>5
    <3> QED
      BY <3>2, <3>3
  <2>2. ASSUME NEW k \in 1 .. (ip'[p] - 1)
        PROVE  s[p][k + 1] = After(k, s[p][k], u[p][k])
    <3>1. CASE k = n
      BY <3>1, <1>0, <1>3, <1>5
    <3>2. CASE k \in 1 .. (n - 1)
      <4>1. sh[p][k + 1] = After(k, sh[p][k], u[p][k]) /\ k \in 1 .. n /\ k + 1 \in 1 .. n
        <5>1. Arrays(u, sh, p) /\ k \in 1 .. n /\ k + 1 \in 1 .. n /\ k \in 1 .. (ip[p] - 1)
          BY <3>2, <1>0, <1>3, <1>4
        <5> QED
          BY <5>1 DEF Arrays
      <4> QED
        BY <4>1, <1>5
    <3> QED
      BY <3>1, <3>2, <1>2, <1>3
  <2> QED
    BY <2>1, <2>2 DEF Arrays
<1>9. Arrays(u, s, q)'
  <2>1. Stored(q)' = Stored(q)
    BY DEF Stored, q
  <2> QED
    <3>1. /\ sh[q][1] = Stored(q) /\ mem[q].secret_share = sh[q][ip[q]]
          /\ \A k \in 1 .. (ip[q] - 1) : sh[q][k + 1] = After(k, sh[q][k], u[q][k])
      BY <1>1, <1>4 DEF Arrays
    <3>2. mem'[q] = mem[q]
      BY DEF q
    <3> QED
      BY <2>1, <3>1, <3>2, <1>2, <1>5 DEF Arrays
<1>10. ASSUME NEW r \in Parties PROVE Told(s, r)'
  <2>1. ASSUME NEW i \in 1 .. Len(talk'[r])
        PROVE  LET k == talk'[r][i].k
               IN  /\ Program[k] = "reconstruct" => talk'[r][i].v = s[Peer(r)][k]
                   /\ Program[k] = "open" => talk'[r][i].v = res'[Peer(r)][k - 1]
    <3>1. CASE \E j \in 1 .. Len(talk[r]) : talk'[r][i] = talk[r][j]
      <4>1. PICK j \in 1 .. Len(talk[r]) : talk'[r][i] = talk[r][j]
        BY <3>1
      <4>2. PICK k : k = talk[r][j].k
        OBVIOUS
      <4>3. /\ Peer(r) \in Parties /\ k \in TalkSteps /\ k <= ip[Peer(r)] /\ k \in Steps
            /\ Program[k] = "open" => k > 1
        BY <4>2, PastFacts, PeerFacts, ProgramFacts
      <4>4. /\ Program[k] = "reconstruct" => talk[r][j].v = sh[Peer(r)][k]
            /\ Program[k] = "open" => talk[r][j].v = res[Peer(r)][k - 1]
        BY <4>2, <1>4 DEF Told
      <4>5. k \in 1 .. ip[Peer(r)] /\ (k > 1 => k - 1 \in 1 .. Len(res[Peer(r)]))
        BY <4>3, <1>6, ProgramFacts
      <4>6. /\ s[Peer(r)][k] = sh[Peer(r)][k]
            /\ Program[k] = "open" => res'[Peer(r)][k - 1] = res[Peer(r)][k - 1]
        BY <4>3, <4>5, <1>6
      <4> QED
        BY <4>1, <4>2, <4>4, <4>6
    <3>2. CASE r = q /\ n \in TalkSteps /\ talk'[r][i] = [k |-> n, v |-> Half(p)]
      <4>1. talk'[r][i].k = n /\ talk'[r][i].v = Half(p) /\ Peer(r) = p
        BY <3>2, <1>1
      <4>2. CASE Program[n] = "reconstruct"
        <5>1. Half(p) = sh[p][n]
          BY <4>2, <1>0, <1>4 DEF Half, Arrays
        <5> QED
          BY <4>1, <4>2, <5>1, <1>3, <1>5
      <4>3. CASE Program[n] = "open"
        <5>1. Half(p) = res[p][n - 1] /\ n > 1
          BY <4>3, <1>0, <1>3, ProgramFacts DEF Half
        <5>2. n - 1 \in 1 .. Len(res[p])
          BY <5>1, <1>2, <1>3
        <5> QED
          BY <4>1, <4>3, <5>1, <5>2, <1>2
      <4> QED
        BY <4>1, <4>2, <4>3
    <3> QED
      BY <3>1, <3>2, <1>0 DEF q
  <2> QED
    BY <2>1 DEF Told
<1>11. ASSUME NEW r \in Parties PROVE Got(s, r)'
  <2>1. ASSUME NEW k \in 1 .. (ip'[r] - 1)
        PROVE  /\ Program[k] = "reconstruct" => res'[r][k] = XorVec(s["P0"][k], s["P1"][k])
               /\ Program[k] = "open" => res'[r][k] = Xor(res'["P0"][k - 1], res'["P1"][k - 1])
    <3>0. Parties = {"P0", "P1"} /\ Parties = {r, Peer(r)}
      BY PeerFacts DEF Parties
    <3>1. CASE k \in 1 .. (ip[r] - 1)
      <4>1. /\ Program[k] = "reconstruct" => res[r][k] = XorVec(sh["P0"][k], sh["P1"][k])
            /\ Program[k] = "open" => res[r][k] = Xor(res["P0"][k - 1], res["P1"][k - 1])
        BY <3>1, <1>4 DEF Got
      <4>2. res'[r][k] = res[r][k]
        BY <3>1, <1>1, <1>2, <1>6
      <4>3. k \in Steps
        BY <3>1, PastFacts
      <4>4. CASE k \in TalkSteps
        <5>1. k <= ip[Peer(r)] /\ k <= ip[r] /\ k \in Nat /\ k >= 1
          BY <3>1, <4>4, <1>6, PastFacts
        <5>2. \A t \in Parties : k \in 1 .. ip[t]
          <6>1. k \in 1 .. ip[r] /\ k \in 1 .. ip[Peer(r)]
            BY <5>1, <1>6, PeerFacts
          <6> QED
            BY <6>1, <3>0
        <5>3. s["P0"][k] = sh["P0"][k] /\ s["P1"][k] = sh["P1"][k]
          BY <5>2, <3>0, <1>6
        <5>4. CASE k > 1
          <6>1. \A t \in Parties : k - 1 \in 1 .. Len(res[t])
            BY <5>2, <5>4, <1>6
          <6>2. res'["P0"][k - 1] = res["P0"][k - 1] /\ res'["P1"][k - 1] = res["P1"][k - 1]
            BY <6>1, <5>2, <3>0, <1>6
          <6> QED
            BY <6>2, <5>3, <4>1, <4>2
        <5>5. CASE ~(k > 1)
          <6>1. Program[k] # "open"
            BY <5>5, <4>3, ProgramFacts
          <6> QED
            BY <6>1, <5>3, <4>1, <4>2
        <5> QED
          BY <5>4, <5>5
      <4>5. CASE k \notin TalkSteps
        BY <4>3, <4>5 DEF TalkSteps, Halves
      <4> QED
        BY <4>4, <4>5
    <3>3. r = p \/ r = q
      BY <1>1
    <3>4. k \in 1 .. (ip[r] - 1) \/ (r = p /\ k = n)
      BY <3>3, <1>0, <1>2, <1>3
    <3>2. CASE r = p /\ k = n
      <4>1. CASE n \in TalkSteps
        <5>1. /\ \A t \in Parties : n \in 1 .. ip[t]
              /\ Program[n] = "open" => n > 1
          <6>1. n <= ip[q] /\ ip[q] \in Nat
            BY <4>1, <1>0, <1>6, <1>1 DEF q
          <6>2. n \in Steps
            BY <1>0
          <6> QED
            BY <6>1, <6>2, <1>0, <1>1, <1>3, ProgramFacts
        <5>2. s["P0"][n] = sh["P0"][n] /\ s["P1"][n] = sh["P1"][n]
          BY <5>1, <3>0, <1>6
        <5>3. Program[n] = "open" =>
                res'["P0"][n - 1] = res["P0"][n - 1] /\ res'["P1"][n - 1] = res["P1"][n - 1]
          <6>1. ASSUME n > 1 PROVE \A t \in Parties : n - 1 \in 1 .. Len(res[t])
            BY <6>1, <5>1, <1>6
          <6>2. \A t \in Parties : n \in 1 .. ip[t] =>
                  (n - 1 \in 1 .. Len(res[t]) => res'[t][n - 1] = res[t][n - 1])
            BY <1>6
          <6> QED
            BY <6>1, <6>2, <5>1, <3>0
        <5> QED
          BY <3>2, <5>2, <5>3, <1>0, <1>2
      <4>2. CASE n \notin TalkSteps
        BY <3>2, <4>2, <1>0 DEF TalkSteps, Halves
      <4> QED
        BY <4>1, <4>2
    <3> QED
      BY <3>1, <3>2, <3>4
  <2> QED
    BY <2>1 DEF Got
<1>12. History(u, s)'
  <2>1. \A r \in Parties : Keyed(u, r)' /\ Arrays(u, s, r)' /\ Told(s, r)' /\ Got(s, r)'
    BY <1>1, <1>7, <1>8, <1>9, <1>10, <1>11
  <2> QED
    BY <2>1, <1>5 DEF History
<1> QED
  BY <1>12

\* Only messages come and go: a party may send its half of its step.
LEMMA HistoryStays ==
  ASSUME FlowInv, NEW u, NEW sh, History(u, sh), UNCHANGED <<ip, mem, res>>,
         NEW p \in Parties,
         \A q \in Parties : \A i \in 1 .. Len(dealt'[q]) :
           \E j \in 1 .. Len(dealt[q]) : dealt'[q][i] = dealt[q][j],
         \A q \in Parties : \A i \in 1 .. Len(talk'[q]) :
           \/ \E j \in 1 .. Len(talk[q]) : talk'[q][i] = talk[q][j]
           \/ /\ q = Peer(p) /\ ip[p] \in TalkSteps
              /\ talk'[q][i] = [k |-> ip[p], v |-> Half(p)]
  PROVE  History(u, sh)'
<1>1. \A r \in Parties : Keyed(u, r) /\ Arrays(u, sh, r) /\ Told(sh, r) /\ Got(sh, r)
  BY DEF History
<1>2. ASSUME NEW r \in Parties PROVE Keyed(u, r)'
  <2>1. ASSUME NEW i \in 1 .. Len(dealt'[r]), Program[dealt'[r][i].k] = "update"
        PROVE  dealt'[r][i].v.out = u[r][dealt'[r][i].k]
    <3>1. PICK j \in 1 .. Len(dealt[r]) : dealt'[r][i] = dealt[r][j]
      OBVIOUS
    <3> QED
      BY <2>1, <3>1, <1>1 DEF Keyed
  <2> QED
    BY <2>1 DEF Keyed
<1>3. ASSUME NEW r \in Parties PROVE Arrays(u, sh, r)'
  BY <1>1 DEF Arrays, Stored
<1>4. ASSUME NEW r \in Parties PROVE Got(sh, r)'
  BY <1>1 DEF Got
<1>5. ASSUME NEW r \in Parties PROVE Told(sh, r)'
  <2>1. ASSUME NEW i \in 1 .. Len(talk'[r])
        PROVE  LET k == talk'[r][i].k
               IN  /\ Program[k] = "reconstruct" => talk'[r][i].v = sh[Peer(r)][k]
                   /\ Program[k] = "open" => talk'[r][i].v = res'[Peer(r)][k - 1]
    <3>1. CASE \E j \in 1 .. Len(talk[r]) : talk'[r][i] = talk[r][j]
      <4>1. PICK j \in 1 .. Len(talk[r]) : talk'[r][i] = talk[r][j]
        BY <3>1
      <4> QED
        BY <4>1, <1>1 DEF Told
    <3>2. CASE r = Peer(p) /\ ip[p] \in TalkSteps /\ talk'[r][i] = [k |-> ip[p], v |-> Half(p)]
      <4>1. talk'[r][i].k = ip[p] /\ talk'[r][i].v = Half(p) /\ Peer(r) = p
        BY <3>2, PeerFacts
      <4>2. Program[ip[p]] = "reconstruct" => Half(p) = sh[p][ip[p]]
        BY <1>1 DEF Half, Arrays
      <4>3. Program[ip[p]] = "open" => Half(p) = res[p][ip[p] - 1]
        BY DEF Half
      <4> QED
        BY <4>1, <4>2, <4>3
    <3> QED
      BY <3>1, <3>2
  <2> QED
    BY <2>1 DEF Told
<1> QED
  BY <1>2, <1>3, <1>4, <1>5 DEF History

\* The elements of a prefix and of a queue after a write.
LEMMA QueueElements ==
  /\ \A w, n : IsSeq(w) /\ n \in 0 .. Len(w) =>
       \A i \in 1 .. Len(SubSeq(w, 1, n)) :
         \E j \in 1 .. Len(w) : SubSeq(w, 1, n)[i] = w[j]
  /\ \A w, s, r, v : IsSeq(w) =>
       \A i \in 1 .. Len(Written(w, s, r, v)) :
         \/ \E j \in 1 .. Len(w) : Written(w, s, r, v)[i] = w[j]
         \/ Written(w, s, r, v)[i] = [k |-> ip[s], v |-> v]
<1>1. ASSUME NEW w, NEW n, IsSeq(w), n \in 0 .. Len(w), NEW i \in 1 .. Len(SubSeq(w, 1, n))
      PROVE  \E j \in 1 .. Len(w) : SubSeq(w, 1, n)[i] = w[j]
  <2>1. Len(SubSeq(w, 1, n)) = n /\ \A j \in 1 .. n : SubSeq(w, 1, n)[j] = w[j]
    BY <1>1, PrefixIsSeq
  <2>2. Len(w) \in Nat
    BY <1>1 DEF IsSeq
  <2>3. i \in 1 .. n /\ i \in 1 .. Len(w)
    BY <1>1, <2>1, <2>2
  <2> QED
    BY <2>1, <2>3
<1>2. ASSUME NEW w, NEW s, NEW r, NEW v, IsSeq(w), NEW i \in 1 .. Len(Written(w, s, r, v))
      PROVE  \/ \E j \in 1 .. Len(w) : Written(w, s, r, v)[i] = w[j]
             \/ Written(w, s, r, v)[i] = [k |-> ip[s], v |-> v]
  <2>1. CASE st[r] = "run"
    <3>1. PICK m : m = [k |-> ip[s], v |-> v]
      OBVIOUS
    <3>2. Written(w, s, r, v) = Append(w, m)
      BY <2>1, <3>1 DEF Written
    <3>3. /\ Len(Append(w, m)) = Len(w) + 1 /\ Append(w, m)[Len(w) + 1] = m
          /\ \A j \in 1 .. Len(w) : Append(w, m)[j] = w[j]
      BY <1>2, AppendIsSeq
    <3>4. Len(w) \in Nat
      BY <1>2 DEF IsSeq
    <3>5. i \in 1 .. Len(w) \/ i = Len(w) + 1
      BY <1>2, <3>2, <3>3, <3>4
    <3> QED
      BY <3>1, <3>2, <3>3, <3>5
  <2>2. CASE st[r] # "run"
    BY <1>2, <2>2 DEF Written
  <2> QED
    BY <2>1, <2>2
<1> QED
  BY <1>1, <1>2

\* The sum of the halves does not depend on who adds.
LEMMA SumsCommute ==
  /\ \A a, b : Xor(a, b) = Xor(b, a)
  /\ \A a, b : XorVec(a, b) = XorVec(b, a)
<1>1. \A a, b : Xor(a, b) = Xor(b, a)
  BY DEF Xor
<1> QED
  BY <1>1 DEF XorVec

\* update and the history.
LEMMA HistoryUpdate ==
  ASSUME FlowInv, NEW u, NEW sh, History(u, sh), NEW p \in Parties, Update(p)
  PROVE  \E s : History(u, s)'
<1> DEFINE n == ip[p]
           k == Head(dealt[p]).v
<1>1. /\ FlowInv' /\ Head(dealt[p]).k = n /\ k \in KeyType
      /\ TakeKey(p) /\ Return(p, {}) /\ n \in Steps /\ Program[n] = "update"
      /\ mem'[Peer(p)] = mem[Peer(p)]
      /\ mem'[p].secret_share = XorVec(mem[p].secret_share, k.out)
      /\ mem'[p].blind = XorVec(mem[p].blind, k.out)
  BY UpdateEffect
<1>2. /\ dealt[p] # <<>> /\ dealt' = [dealt EXCEPT ![p] = Tail(@)] /\ talk' = talk
      /\ dealt = [q \in Parties |-> dealt[q]] /\ mem[p] \in MemType
  BY <1>1, PlaceFacts DEF TakeKey, FlowInv, Tables
<1>3. k.out = u[p][n] /\ mem[p].secret_share = sh[p][n]
  <2>1. Keyed(u, p) /\ Arrays(u, sh, p) /\ Head(dealt[p]) = dealt[p][1] /\ 1 \in 1 .. Len(dealt[p])
    BY <1>2, HeadKey DEF History
  <2> QED
    BY <1>1, <2>1 DEF Keyed, Arrays
<1>4. /\ mem[p].secret_share \in Vector /\ mem[p].blind \in Vector /\ k.out \in Vector
  BY <1>1, <1>2 DEF MemType, KeyType
<1> HIDE DEF k
<1>5. Stored(p)' = Stored(p)
  BY <1>1, <1>4, XorVecCancel DEF Stored
<1>6. PICK a \in Vector : a = XorVec(mem[p].secret_share, k.out)
  BY <1>4, XorVecType
<1>7. a = After(n, sh[p][n], u[p][n]) /\ mem'[p].secret_share = a
  BY <1>1, <1>3, <1>6 DEF After
<1>8. ASSUME NEW q \in Parties, NEW i \in 1 .. Len(dealt'[q])
      PROVE  \E j \in 1 .. Len(dealt[q]) : dealt'[q][i] = dealt[q][j]
  <2>1. CASE q = p
    <3>1. dealt'[q] = Tail(dealt[p])
      BY <2>1, <1>2
    <3> QED
      BY <2>1, <3>1, <1>2, HeadKey
  <2>2. CASE q # p
    BY <2>2, <1>2
  <2> QED
    BY <2>1, <2>2
<1>9. /\ n \notin TalkSteps /\ Program[n] # "reconstruct" /\ Program[n] # "open"
      /\ n \in Steps
  BY <1>1 DEF TalkSteps, Halves
<1>10. \A q \in Parties : \A i \in 1 .. Len(talk'[q]) :
         \E j \in 1 .. Len(talk[q]) : talk'[q][i] = talk[q][j]
  BY <1>2
<1> QED
  BY <1>1, <1>5, <1>7, <1>8, <1>9, <1>10, HistoryGrows

\* The reads and the history.
LEMMA HistoryRead ==
  ASSUME FlowInv, NEW u, NEW sh, History(u, sh), NEW p \in Parties, ReadX(p) \/ ReadA(p)
  PROVE  \E s : History(u, s)'
<1> DEFINE n == ip[p]
<1>1. /\ FlowInv' /\ TakeKey(p) /\ n \in KeySteps /\ Program[n] \in Reads
      /\ mem'[Peer(p)] = mem[Peer(p)]
      /\ mem'[p].secret_share = mem[p].secret_share /\ mem'[p].blind = mem[p].blind
  BY ReadEffect
<1>2. PICK v : Return(p, v)
  BY ReadEffect
<1>3. /\ dealt[p] # <<>> /\ dealt' = [dealt EXCEPT ![p] = Tail(@)] /\ talk' = talk
      /\ dealt = [q \in Parties |-> dealt[q]] /\ mem[p] \in MemType
  BY <1>1, PlaceFacts DEF TakeKey, FlowInv, Tables
<1>4. mem[p].secret_share = sh[p][n] /\ mem[p].secret_share \in Vector
  BY <1>3 DEF History, Arrays, MemType
<1>5. PICK a \in Vector : a = mem[p].secret_share
  BY <1>4
<1>6. a = After(n, sh[p][n], u[p][n]) /\ mem'[p].secret_share = a
  BY <1>1, <1>4, <1>5 DEF After, Reads
<1>7. Stored(p)' = Stored(p)
  BY <1>1 DEF Stored
<1>8. ASSUME NEW q \in Parties, NEW i \in 1 .. Len(dealt'[q])
      PROVE  \E j \in 1 .. Len(dealt[q]) : dealt'[q][i] = dealt[q][j]
  <2>1. CASE q = p
    <3>1. dealt'[q] = Tail(dealt[p])
      BY <2>1, <1>3
    <3> QED
      BY <2>1, <3>1, <1>3, HeadKey
  <2>2. CASE q # p
    BY <2>2, <1>3
  <2> QED
    BY <2>1, <2>2
<1>9. /\ n \notin TalkSteps /\ Program[n] # "reconstruct" /\ Program[n] # "open"
      /\ n \in Steps
  BY <1>1 DEF TalkSteps, Halves, KeySteps, Reads
<1>10. \A q \in Parties : \A i \in 1 .. Len(talk'[q]) :
         \E j \in 1 .. Len(talk[q]) : talk'[q][i] = talk[q][j]
  BY <1>3
<1> QED
  BY <1>1, <1>2, <1>6, <1>7, <1>8, <1>9, <1>10, HistoryGrows, ZenonT(60)

\* A reconstruction and the history.
LEMMA HistoryRecv ==
  ASSUME FlowInv, NEW u, NEW sh, History(u, sh), NEW p \in Parties, RecvHalf(p)
  PROVE  \E s : History(u, s)'
<1> DEFINE n == ip[p]
           q == Peer(p)
<1>1. /\ FlowInv' /\ n \in TalkSteps /\ Head(talk[p]).k = n /\ n < Ahead(q)
      /\ talk[p] # <<>> /\ talk'[p] = Tail(talk[p])
      /\ talk'[q] = talk[q] \/ talk'[q] = Written(talk[q], p, q, Half(p))
  BY FlowRecv
<1>2. /\ q \in Parties /\ q # p /\ Peer(q) = p /\ Parties = {p, q}
      /\ IsSeq(talk[p]) /\ IsSeq(talk[q]) /\ TypeOK /\ Tables /\ n \in Steps
  BY <1>1, PeerFacts DEF FlowInv, Shapes, TalkSteps
<1>3. /\ UNCHANGED <<st, mem, dealt>> /\ Return(p, Whole(p, Head(talk[p]).v))
  BY DEF RecvHalf
<1>4. n <= ip[q] /\ mem[p] \in MemType
  <2>1. Ahead(q) <= ip[q] + 1 /\ ip[q] \in Nat /\ Ahead(q) \in Nat /\ n \in Nat /\ mem[p] \in MemType
    BY <1>2, PlaceFacts
  <2> QED
    BY <1>1, <2>1
<1>5. /\ Head(talk[p]) = talk[p][1] /\ 1 \in 1 .. Len(talk[p])
      /\ \A i \in 1 .. Len(Tail(talk[p])) :
           \E j \in 1 .. Len(talk[p]) : Tail(talk[p])[i] = talk[p][j]
  <2>1. PICK w : w = talk[p]
    OBVIOUS
  <2>2. /\ Len(w) >= 1 /\ Head(w) = w[1] /\ Len(Tail(w)) = Len(w) - 1
        /\ \A i \in 1 .. Len(Tail(w)) : Tail(w)[i] = w[i + 1]
    BY <2>1, <1>1, <1>2, TailIsSeq
  <2>3. Len(w) \in Nat
    BY <2>1, <1>2 DEF IsSeq
  <2>4. 1 \in 1 .. Len(w) /\ \A i \in 1 .. Len(Tail(w)) : i + 1 \in 1 .. Len(w)
    BY <2>2, <2>3
  <2> QED
    BY <2>1, <2>2, <2>4
<1> HIDE DEF q
<1>6. PICK v, h : v = Whole(p, h) /\ h = Head(talk[p]).v
  OBVIOUS
<1>7. /\ Program[n] = "reconstruct" => h = sh[q][n]
      /\ Program[n] = "open" => h = res[q][n - 1]
  <2>1. Told(sh, p)
    BY DEF History
  <2> QED
    BY <2>1, <1>1, <1>5, <1>6 DEF Told, q
<1>8. Parties = {"P0", "P1"}
  BY DEF Parties
<1>9. mem[p].secret_share = sh[p][n] /\ mem[p].secret_share \in Vector
  BY <1>4 DEF History, Arrays, MemType
<1>10. Program[n] = "reconstruct" => v = XorVec(sh["P0"][n], sh["P1"][n])
  <2>1. ASSUME Program[n] = "reconstruct" PROVE v = XorVec(sh[p][n], sh[q][n])
    BY <2>1, <1>6, <1>7, <1>9 DEF Whole, Half
  <2> QED
    BY <2>1, <1>2, <1>8, SumsCommute
<1>11. Program[n] = "open" => v = Xor(res["P0"][n - 1], res["P1"][n - 1])
  <2>1. ASSUME Program[n] = "open" PROVE v = Xor(res[p][n - 1], res[q][n - 1])
    BY <2>1, <1>6, <1>7 DEF Whole, Half
  <2> QED
    BY <2>1, <1>2, <1>8, SumsCommute
<1>12. PICK a \in Vector : a = mem[p].secret_share
  BY <1>9
<1>13. a = After(n, sh[p][n], u[p][n]) /\ mem'[p].secret_share = a
  BY <1>1, <1>3, <1>9, <1>12 DEF After, TalkSteps, Halves
<1>14. /\ Stored(p)' = Stored(p) /\ mem'[q] = mem[q]
       /\ \A r \in Parties : \A i \in 1 .. Len(dealt'[r]) :
            \E j \in 1 .. Len(dealt[r]) : dealt'[r][i] = dealt[r][j]
  BY <1>3 DEF Stored
<1>15. ASSUME NEW r \in Parties, NEW i \in 1 .. Len(talk'[r])
       PROVE  \/ \E j \in 1 .. Len(talk[r]) : talk'[r][i] = talk[r][j]
              \/ r = q /\ n \in TalkSteps /\ talk'[r][i] = [k |-> n, v |-> Half(p)]
  <2>1. CASE r = p
    BY <2>1, <1>1, <1>5
  <2>2. CASE r = q /\ talk'[q] = talk[q]
    BY <2>2
  <2>3. CASE r = q /\ talk'[q] = Written(talk[q], p, q, Half(p))
    BY <2>3, <1>1, <1>2, QueueElements
  <2> QED
    BY <2>1, <2>2, <2>3, <1>1, <1>2 DEF q
<1> QED
  BY <1>1, <1>2, <1>3, <1>4, <1>6, <1>10, <1>11, <1>13, <1>14, <1>15, HistoryGrows, SMTT(60) DEF q

\* A party sends its half.
LEMMA HistorySend ==
  ASSUME FlowInv, NEW u, NEW sh, History(u, sh), NEW p \in Parties, SendHalf(p)
  PROVE  History(u, sh)'
<1> DEFINE q == Peer(p)
<1>1. /\ ip[p] \in TalkSteps /\ UNCHANGED <<ip, mem, res, dealt>>
      /\ talk' = [talk EXCEPT ![q] = Written(@, p, q, Half(p))]
  BY DEF SendHalf, Running, TalkSteps, Halves
<1>2. /\ q \in Parties /\ IsSeq(talk[q]) /\ talk = [r \in Parties |-> talk[r]]
  BY PeerFacts DEF FlowInv, Shapes, Tables
<1> HIDE DEF q
<1>3. ASSUME NEW r \in Parties, NEW i \in 1 .. Len(talk'[r])
      PROVE  \/ \E j \in 1 .. Len(talk[r]) : talk'[r][i] = talk[r][j]
             \/ r = q /\ ip[p] \in TalkSteps /\ talk'[r][i] = [k |-> ip[p], v |-> Half(p)]
  <2>1. CASE r # q
    BY <2>1, <1>1, <1>2
  <2>2. CASE r = q
    <3>1. talk'[r] = Written(talk[q], p, q, Half(p))
      BY <2>2, <1>1, <1>2
    <3> QED
      BY <2>2, <3>1, <1>1, <1>2, QueueElements
  <2> QED
    BY <2>1, <2>2
<1>4. \A r \in Parties : \A i \in 1 .. Len(dealt'[r]) :
        \E j \in 1 .. Len(dealt[r]) : dealt'[r][i] = dealt[r][j]
  BY <1>1
<1> QED
  BY <1>1, <1>3, <1>4, HistoryStays DEF q

\* A role ends.
LEMMA HistoryEnd ==
  ASSUME FlowInv, NEW u, NEW sh, History(u, sh), NEW r \in Roles,
         BoundsError(r) \/ IoError(r) \/ Finish(r)
  PROVE  History(u, sh)'
<1>1. /\ UNCHANGED <<ip, mem, sent, res>>
      /\ \A p \in Parties :
           /\ \E n \in 0 .. Len(dealt[p]) : dealt'[p] = SubSeq(dealt[p], 1, n)
           /\ \E n \in 0 .. Len(talk[p]) : talk'[p] = SubSeq(talk[p], 1, n)
  BY FlowEnd
<1>2. \A p \in Parties : IsSeq(dealt[p]) /\ IsSeq(talk[p])
  BY DEF FlowInv, Shapes
<1>3. ASSUME NEW p \in Parties
      PROVE  /\ \A i \in 1 .. Len(dealt'[p]) :
                  \E j \in 1 .. Len(dealt[p]) : dealt'[p][i] = dealt[p][j]
             /\ \A i \in 1 .. Len(talk'[p]) :
                  \E j \in 1 .. Len(talk[p]) : talk'[p][i] = talk[p][j]
  <2>1. PICK n \in 0 .. Len(dealt[p]) : dealt'[p] = SubSeq(dealt[p], 1, n)
    BY <1>1
  <2>2. PICK m \in 0 .. Len(talk[p]) : talk'[p] = SubSeq(talk[p], 1, m)
    BY <1>1
  <2> QED
    BY <2>1, <2>2, <1>2, QueueElements
<1>4. "P0" \in Parties
  BY DEF Parties
<1> QED
  BY <1>1, <1>3, <1>4, HistoryStays

\* P2 draws a key: from now on it is that of its step.
LEMMA HistoryDeals ==
  ASSUME FlowInv, NEW u, NEW sh, History(u, sh), Deal \/ DealFails \/ DealerSkip
  PROVE  \E w : History(w, sh)'
<1>1. /\ UNCHANGED <<mem, res, talk>> /\ ip["P2"] \in Steps /\ st["P2"] = "run"
      /\ DealtTo = ip["P2"]
  BY DEF Deal, DealFails, DealerSkip, Running, DealtTo
<1>2. \A p \in Parties : /\ ip'[p] = ip[p] /\ p # "P2" /\ IsSeq(dealt[p]) /\ Peer(p) \in Parties
                         /\ Keyed(u, p) /\ Arrays(u, sh, p) /\ Told(sh, p) /\ Got(sh, p)
  BY PeerFacts DEF Deal, DealFails, DealerSkip, FlowInv, TypeOK, Shapes, History
<1>3. dealt = [p \in Parties |-> dealt[p]]
  BY DEF FlowInv, Tables
<1>4. /\ u \in [Parties -> [Steps -> Vector]]
      /\ sh \in [Parties -> [1 .. (Len(Program) + 1) -> Vector]]
      /\ \A k \in Steps : Program[k] = "update" =>
           XorVec(u["P0"][k], u["P1"][k]) = Point(UpdAlpha, UpdValue)
  BY DEF History
<1>5. CASE Deal \/ DealFails
  <2>1. PICK o \in Pads, w \in FlagPads :
          /\ dealt' = [p \in Parties |-> dealt'[p]]
          /\ \A p \in Parties : \/ dealt'[p] = dealt[p]
                                \/ dealt'[p] = Written(dealt[p], "P2", p, NextKey(p, o, w))
    <3>1. CASE Deal
      BY <3>1 DEF Deal
    <3>2. CASE DealFails
      BY <3>2, <1>3 DEF DealFails
    <3> QED
      BY <1>5, <3>1, <3>2
  <2>2. PICK n : n = ip["P2"]
    OBVIOUS
  <2>3. PICK key : key = [p \in Parties |-> NextKey(p, o, w)]
    OBVIOUS
  <2>4. /\ n \in KeySteps /\ n \in Steps
        /\ \A p \in Parties : key[p] \in KeyType /\ key[p].out \in Vector
        /\ Program[n] = "update" =>
             XorVec(key["P0"].out, key["P1"].out) = Point(UpdAlpha, UpdValue)
    <3>1. n \in KeySteps /\ n \in Steps
      BY <1>5, <2>2 DEF Deal, DealFails, Running, KeySteps
    <3>2. \A p \in Parties : key[p] = NextKey(p, o, w) /\ key[p] \in KeyType
      BY <2>3, NextKeyTyped
    <3>3. Program[n] = "update" =>
            XorVec(key["P0"].out, key["P1"].out) = Point(UpdAlpha, UpdValue)
      BY <2>2, <3>2, NextKeyTyped DEF Parties
    <3>4. \A p \in Parties : key[p].out \in Vector
      BY <3>2 DEF KeyType
    <3> QED
      BY <3>1, <3>2, <3>3, <3>4
  <2>5. PICK x : x = [p \in Parties |-> [u[p] EXCEPT ![n] = key[p].out]]
    OBVIOUS
  <2>6. /\ x \in [Parties -> [Steps -> Vector]]
        /\ \A p \in Parties : x[p][n] = key[p].out
        /\ \A p \in Parties : \A k \in Steps : k # n => x[p][k] = u[p][k]
    BY <1>4, <2>4, <2>5
  <2>7. \A k \in Steps : Program[k] = "update" =>
          XorVec(x["P0"][k], x["P1"][k]) = Point(UpdAlpha, UpdValue)
    <3>1. "P0" \in Parties /\ "P1" \in Parties
      BY DEF Parties
    <3> QED
      BY <3>1, <1>4, <2>4, <2>6
  <2>8. ASSUME NEW p \in Parties PROVE Keyed(x, p)'
    <3>1. ASSUME NEW j \in 1 .. Len(dealt[p]), Program[dealt[p][j].k] = "update"
          PROVE  dealt[p][j].v.out = x[p][dealt[p][j].k]
      <4>1. dealt[p][j].k \in KeySteps /\ dealt[p][j].k < DealtTo
        BY PastFacts
      <4>2. dealt[p][j].k \in Steps /\ dealt[p][j].k # n
        BY <4>1, <2>2, <1>1, ProgramFacts DEF KeySteps
      <4> QED
        BY <4>2, <3>1, <2>6, <1>2 DEF Keyed
    <3>2. ASSUME NEW i \in 1 .. Len(dealt'[p]), Program[dealt'[p][i].k] = "update"
          PROVE  dealt'[p][i].v.out = x[p][dealt'[p][i].k]
      <4>1. CASE \E j \in 1 .. Len(dealt[p]) : dealt'[p][i] = dealt[p][j]
        BY <4>1, <3>1, <3>2
      <4>2. CASE dealt'[p][i] = [k |-> n, v |-> key[p]]
        BY <4>2, <2>6
      <4>3. \/ \E j \in 1 .. Len(dealt[p]) : dealt'[p][i] = dealt[p][j]
            \/ dealt'[p][i] = [k |-> n, v |-> key[p]]
        <5>1. CASE dealt'[p] = dealt[p]
          BY <5>1
        <5>2. CASE dealt'[p] = Written(dealt[p], "P2", p, NextKey(p, o, w))
          <6>1. dealt'[p] = Written(dealt[p], "P2", p, key[p])
            BY <5>2, <2>3
          <6> QED
            BY <6>1, <2>2, <1>2, QueueElements
        <5> QED
          BY <5>1, <5>2, <2>1
      <4> QED
        BY <4>1, <4>2, <4>3
    <3> QED
      BY <3>2 DEF Keyed
  <2>9. ASSUME NEW p \in Parties PROVE Arrays(x, sh, p)'
    <3>1. ASSUME NEW k \in 1 .. (ip[p] - 1)
          PROVE  sh[p][k + 1] = After(k, sh[p][k], x[p][k])
      <4>1. sh[p][k + 1] = After(k, sh[p][k], u[p][k]) /\ k \in Steps
        BY <1>2, PastFacts DEF Arrays
      <4>2. CASE k \in KeySteps
        <5>1. ip[p] \in Nat /\ k < ip[p]
          BY PlaceFacts DEF FlowInv
        <5>2. k < DealtTo
          BY <4>2, <5>1, PastFacts
        <5>3. k # n
          BY <5>2, <1>1, <2>2, <4>1, ProgramFacts
        <5> QED
          BY <5>3, <4>1, <2>6
      <4>3. CASE k \notin KeySteps
        BY <4>1, <4>3 DEF KeySteps, KeyOps, After
      <4> QED
        BY <4>2, <4>3
    <3> QED
      BY <3>1, <1>1, <1>2 DEF Arrays, Stored
  <2>10. ASSUME NEW p \in Parties PROVE Told(sh, p)' /\ Got(sh, p)'
    BY <1>1, <1>2 DEF Told, Got
  <2>11. History(x, sh)'
    BY <1>4, <2>6, <2>7, <2>8, <2>9, <2>10 DEF History
  <2> QED
    BY <2>11
<1>6. CASE DealerSkip
  <2>1. \A p \in Parties : Keyed(u, p)' /\ Arrays(u, sh, p)' /\ Told(sh, p)' /\ Got(sh, p)'
    BY <1>6, <1>1, <1>2 DEF DealerSkip, Keyed, Arrays, Stored, Told, Got
  <2>2. History(u, sh)'
    BY <2>1, <1>4 DEF History
  <2> QED
    BY <2>2
<1> QED
  BY <1>5, <1>6

-----------------------------------------------------------------------------
(* The bits of the reads, and what the first read gives.                   *)

\* No key is added.
LEMMA MarkedStays ==
  ASSUME NEW g, Marked(g),
         \A p \in Parties : \A i \in 1 .. Len(dealt'[p]) :
           \E j \in 1 .. Len(dealt[p]) : dealt'[p][i] = dealt[p][j]
  PROVE  Marked(g)'
<1>1. ASSUME NEW p \in Parties, NEW i \in 1 .. Len(dealt'[p]),
             Program[dealt'[p][i].k] \in Reads
      PROVE  dealt'[p][i].v.flags = BitsOf(p, g[dealt'[p][i].k])
  <2>1. PICK j \in 1 .. Len(dealt[p]) : dealt'[p][i] = dealt[p][j]
    OBVIOUS
  <2>2. dealt[p][j].v.flags = BitsOf(p, g[dealt[p][j].k])
    BY <1>1, <2>1 DEF Marked
  <2> QED
    BY <2>1, <2>2
<1> QED
  BY <1>1 DEF Marked

\* Nothing happens to the object or the results of p.
LEMMA FirstStays ==
  ASSUME NEW g, NEW p \in Parties, First(g, p),
         mem'[p] = mem[p], ip'[p] = ip[p], res'[p] = res[p]
  PROVE  First(g, p)'
BY DEF First, Stored

\* P2 draws the bits of its step.
LEMMA FlaggedDeals ==
  ASSUME FlowInv, NEW g, Flagged(g), Deal \/ DealFails \/ DealerSkip
  PROVE  \E h : Flagged(h)'
<1>1. /\ UNCHANGED <<mem, res>> /\ ip["P2"] \in Steps /\ DealtTo = ip["P2"]
  BY DEF Deal, DealFails, DealerSkip, Running, DealtTo
<1>2. \A p \in Parties : ip'[p] = ip[p] /\ IsSeq(dealt[p]) /\ First(g, p)
  BY PeerFacts DEF Deal, DealFails, DealerSkip, FlowInv, TypeOK, Shapes, Flagged
<1>3. Marked(g) /\ g \in [Steps -> [Index -> BOOLEAN]] /\ dealt = [p \in Parties |-> dealt[p]]
  BY DEF Flagged, Marked, FlowInv, Tables
<1>4. CASE Deal \/ DealFails
  <2>1. PICK o \in Pads, w \in FlagPads :
          \A p \in Parties : \/ dealt'[p] = dealt[p]
                             \/ dealt'[p] = Written(dealt[p], "P2", p, NextKey(p, o, w))
    <3>1. CASE Deal
      BY <3>1 DEF Deal
    <3>2. CASE DealFails
      BY <3>2, <1>3 DEF DealFails
    <3> QED
      BY <1>4, <3>1, <3>2
  <2>2. PICK n : n = ip["P2"]
    OBVIOUS
  <2>3. n \in KeySteps /\ n \in Steps /\ w \in [Index -> BOOLEAN]
    BY <1>4, <2>2, LocoramAssumption DEF Deal, DealFails, Running, KeySteps
  <2>4. PICK h : h = [g EXCEPT ![n] = w]
    OBVIOUS
  <2>5. /\ h \in [Steps -> [Index -> BOOLEAN]] /\ h[n] = w
        /\ \A k \in Steps : k # n => h[k] = g[k]
    BY <1>3, <2>3, <2>4
  <2>6. ASSUME NEW p \in Parties, Program[n] \in Reads
        PROVE  NextKey(p, o, w).flags = BitsOf(p, h[n])
    <3>1. NextKey(p, o, w) = KeyFor(p, ReadAlpha, {0}, o, w)
      BY <2>2, <2>6 DEF NextKey, Reads
    <3> QED
      BY <3>1, <2>5 DEF KeyFor, BitsOf, Flipped
  <2>7. ASSUME NEW p \in Parties, NEW i \in 1 .. Len(dealt'[p]),
               Program[dealt'[p][i].k] \in Reads
        PROVE  dealt'[p][i].v.flags = BitsOf(p, h[dealt'[p][i].k])
    <3>1. PICK key : key = NextKey(p, o, w)
      OBVIOUS
    <3>2. CASE \E j \in 1 .. Len(dealt[p]) : dealt'[p][i] = dealt[p][j]
      <4>1. PICK j \in 1 .. Len(dealt[p]) : dealt'[p][i] = dealt[p][j]
        BY <3>2
      <4>2. dealt[p][j].k \in KeySteps /\ dealt[p][j].k < DealtTo
        BY PastFacts
      <4>3. dealt[p][j].k \in Steps /\ dealt[p][j].k # n
        BY <4>2, <2>2, <1>1, ProgramFacts DEF KeySteps
      <4>4. dealt[p][j].v.flags = BitsOf(p, g[dealt[p][j].k])
        BY <4>1, <2>7, <1>3 DEF Marked
      <4> QED
        BY <4>1, <4>3, <4>4, <2>5
    <3>3. CASE dealt'[p][i] = [k |-> n, v |-> key]
      BY <3>1, <3>3, <2>6, <2>7
    <3>4. \/ \E j \in 1 .. Len(dealt[p]) : dealt'[p][i] = dealt[p][j]
          \/ dealt'[p][i] = [k |-> n, v |-> key]
      <4>1. CASE dealt'[p] = dealt[p]
        BY <4>1
      <4>2. CASE dealt'[p] = Written(dealt[p], "P2", p, key)
        BY <4>2, <2>2, <1>2, QueueElements
      <4> QED
        BY <4>1, <4>2, <3>1, <2>1
    <3> QED
      BY <3>2, <3>3, <3>4
  <2>8. Marked(h)'
    BY <2>5, <2>7 DEF Marked
  <2>9. ASSUME NEW p \in Parties PROVE First(h, p)
    <3>1. ASSUME NEW k \in 1 .. (ip[p] - 1), Program[k] = "readX" PROVE h[k] = g[k]
      <4>1. k \in Steps /\ k \in KeySteps /\ ip[p] \in Nat /\ k < ip[p]
        BY <3>1, PastFacts, PlaceFacts DEF KeySteps, KeyOps, FlowInv
      <4>2. k # n
        BY <4>1, <1>1, <2>2, PastFacts, ProgramFacts
      <4> QED
        BY <4>1, <4>2, <2>5
    <3> QED
      BY <3>1, <1>2 DEF First
  <2> QED
    BY <2>8, <2>9, <1>1, <1>2, FirstStays DEF Flagged
<1>5. CASE DealerSkip
  <2>1. Marked(g)'
    BY <1>5, <1>3, MarkedStays DEF DealerSkip
  <2> QED
    BY <2>1, <1>1, <1>2, FirstStays DEF Flagged
<1> QED
  BY <1>4, <1>5

\* A call that is no read leaves bits and cancellation term alone.
LEMMA FirstPasses ==
  ASSUME FlowInv, NEW g, NEW p \in Parties, First(g, p), ip[p] \in Steps, NEW v, Return(p, v),
         Program[ip[p]] \notin Reads, Stored(p)' = Stored(p),
         mem'[p].sbv_secret_share = mem[p].sbv_secret_share,
         mem'[p].cancellation_term = mem[p].cancellation_term,
         mem[p].update_vals # <<>> => mem'[p].update_vals[1] = mem[p].update_vals[1]
  PROVE  First(g, p)'
<1>1. PICK n : n = ip[p]
  OBVIOUS
<1>2. /\ TypeOK /\ Tables /\ IsSeq(res[p]) /\ (n > 1 => mem[p].update_vals # <<>>)
      /\ n \in 1 .. Len(Program) /\ Len(Program) \in Nat
  BY <1>1, ProgramFacts DEF FlowInv, Shapes
<1>3. /\ ip'[p] = n + 1 /\ Len(res[p]) = n - 1
      /\ \A j \in 1 .. Len(res[p]) : res'[p][j] = res[p][j]
  BY <1>1, <1>2, ReturnFacts
<1>4. ASSUME \A i \in 1 .. n : Program[i] \notin Reads
      PROVE  mem'[p].sbv_secret_share = NoBits /\ mem'[p].cancellation_term = {}
  <2>1. \A i \in 1 .. (n - 1) : Program[i] \notin Reads
    BY <1>2, <1>4
  <2> QED
    BY <2>1, <1>1 DEF First
<1>5. ASSUME NEW k \in 1 .. n, Program[k] = "readX",
             \A i \in 1 .. (k - 1) : Program[i] \notin Reads
      PROVE  res'[p][k] = Xor(Dot(Stored(p)', BitsOf(p, g[k])), mem'[p].update_vals[1])
  <2>1. k # n /\ k \in 1 .. (n - 1) /\ n > 1
    <3>1. k # n
      BY <1>1, <1>5 DEF Reads
    <3> QED
      BY <3>1, <1>2
  <2>2. res[p][k] = Xor(Dot(Stored(p), BitsOf(p, g[k])), mem[p].update_vals[1])
    BY <2>1, <1>1, <1>5 DEF First
  <2>3. res'[p][k] = res[p][k]
    BY <2>1, <1>3
  <2> QED
    BY <2>1, <2>2, <2>3, <1>2
<1>6. ip'[p] - 1 = n
  BY <1>2, <1>3
<1> QED
  BY <1>4, <1>5, <1>6 DEF First

\* The first read: the bits select the same places of the share and of the blind,
\* which differ by what was stored.
LEMMA FirstReads ==
  ASSUME FlowInv, NEW g, Marked(g), NEW p \in Parties, First(g, p), ReadX(p) \/ ReadA(p)
  PROVE  First(g, p)'
<1>1. PICK n, x : /\ n = ip[p] /\ (Program[n] = "readX" => x = mem[p].update_vals[1])
                  /\ Return(p, Xor(Dot(mem[p].secret_share, NewBits(p)), NewTerm(p, x)))
  BY ReadEffect
<1>2. /\ n \in KeySteps /\ n \in Steps /\ Program[n] \in Reads
      /\ mem'[p].secret_share = mem[p].secret_share /\ mem'[p].blind = mem[p].blind
      /\ mem'[p].update_vals = mem[p].update_vals
      /\ Head(dealt[p]).v \in KeyType /\ Head(dealt[p]).k = n /\ dealt[p] # <<>>
  BY <1>1, ReadEffect DEF KeySteps, TakeKey
<1>3. /\ TypeOK /\ Tables /\ IsSeq(res[p]) /\ mem[p] \in MemType
      /\ n \in 1 .. Len(Program) /\ Len(Program) \in Nat
  BY <1>2, ProgramFacts, PlaceFacts DEF FlowInv, Shapes
<1>4. /\ ip'[p] = n + 1 /\ Len(res[p]) = n - 1
      /\ \A j \in 1 .. Len(res[p]) : res'[p][j] = res[p][j]
      /\ res'[p][n] = Xor(Dot(mem[p].secret_share, NewBits(p)), NewTerm(p, x))
  BY <1>1, <1>2, <1>3, ReturnFacts
<1>5. Stored(p)' = Stored(p)
  BY <1>2 DEF Stored
<1>6. SUFFICES ASSUME NEW k \in 1 .. n, Program[k] = "readX",
                      \A i \in 1 .. (k - 1) : Program[i] \notin Reads
               PROVE  res'[p][k] = Xor(Dot(Stored(p), BitsOf(p, g[k])), mem[p].update_vals[1])
  <2>1. ip'[p] - 1 = n /\ n \in 1 .. n
    <3>1. n \in Nat /\ n >= 1 /\ ip'[p] = n + 1
      BY <1>3, <1>4
    <3> QED
      BY <3>1
  <2> QED
    BY <2>1, <1>2, <1>5 DEF First
<1>7. CASE k \in 1 .. (n - 1)
  <2>1. res[p][k] = Xor(Dot(Stored(p), BitsOf(p, g[k])), mem[p].update_vals[1])
    BY <1>1, <1>6, <1>7 DEF First
  <2>2. res'[p][k] = res[p][k]
    BY <1>4, <1>7
  <2> QED
    BY <2>1, <2>2
<1>8. CASE k = n
  <2>1. mem[p].sbv_secret_share = NoBits /\ mem[p].cancellation_term = {}
    BY <1>1, <1>6, <1>8 DEF First
  <2>2. PICK f, a, b : f = Head(dealt[p]).v.flags /\ a = mem[p].secret_share /\ b = mem[p].blind
    OBVIOUS
  <2>3. f \in [Index -> BOOLEAN] /\ a \in Vector /\ b \in Vector
    BY <2>2, <1>2, <1>3 DEF KeyType, MemType
  <2>4. f = BitsOf(p, g[n])
    <3>1. Head(dealt[p]) = dealt[p][1] /\ 1 \in 1 .. Len(dealt[p])
      BY <1>2, HeadKey
    <3> QED
      BY <3>1, <2>2, <1>2 DEF Marked
  <2>5. NewBits(p) = f
    <3>1. NewBits(p) = [i \in Index |-> FALSE # f[i]]
      BY <2>1, <2>2 DEF NewBits, NoBits
    <3>2. \A i \in Index : f[i] \in BOOLEAN
      BY <2>3
    <3>3. \A i \in Index : (FALSE # f[i]) = f[i]
      BY <3>2
    <3>4. f = [i \in Index |-> f[i]]
      BY <2>3
    <3> QED
      BY <3>1, <3>3, <3>4
  <2>6. PICK c, d : c = Dot(a, f) /\ d = Dot(b, f)
    OBVIOUS
  <2>7. res'[p][n] = Xor(c, Xor({}, Xor(d, x)))
    <3>1. NewTerm(p, x) = Xor({}, Xor(d, x))
      BY <2>1, <2>2, <2>6 DEF NewTerm
    <3> QED
      BY <3>1, <1>4, <2>2, <2>5, <2>6
  <2>8. Xor(c, Xor({}, Xor(d, x))) = Xor(Xor(c, d), x)
    BY DEF Xor
  <2>9. Dot(Stored(p), f) = Xor(c, d)
    BY <2>2, <2>3, <2>6, DotXor DEF Stored
  <2> QED
    BY <2>4, <2>7, <2>8, <2>9, <1>1, <1>6, <1>8
<1> QED
  BY <1>3, <1>7, <1>8

-----------------------------------------------------------------------------
(* The invariant is inductive.                                             *)

\* It holds at the start: the keys of the future may be anything that fits.
LEMMA LocoramInit == Init => LocoramInv
<1> SUFFICES ASSUME Init PROVE LocoramInv
  OBVIOUS
<1>1. PICK s \in [Parties -> Shares] : mem = [p \in Parties |-> NewLocoram(s[p])]
  BY DEF Init
<1>2. /\ Zero \in Vector /\ NoBits \in [Index -> BOOLEAN] /\ {} \in XWord
      /\ <<>> \in Seq(XWord) /\ UpdAlpha \in Index /\ UpdValue \in XWord
      /\ Point(UpdAlpha, UpdValue) \in Vector
  BY LocoramAssumption, PointType DEF NoBits, XWord
<1>3. ASSUME NEW p \in Parties
      PROVE  /\ s[p] \in Vector /\ mem[p] = NewLocoram(s[p]) /\ mem[p] \in MemType
             /\ mem[p].secret_share = s[p] /\ mem[p].blind = Zero
             /\ mem[p].sbv_secret_share = NoBits /\ mem[p].cancellation_term = {}
  BY <1>1, <1>2, LocoramAssumption DEF NewLocoram, MemType
<1>4. /\ Len(Program) \in Nat /\ 1 \in 1 .. (Len(Program) + 1) /\ Steps = 1 .. Len(Program)
  BY ProgramFacts
<1>5. /\ st = [r \in Roles |-> "run"] /\ ip = [r \in Roles |-> 1]
      /\ sent = [p \in Parties |-> FALSE] /\ res = [p \in Parties |-> <<>>]
      /\ dealt = [p \in Parties |-> <<>>] /\ talk = [p \in Parties |-> <<>>]
  BY DEF Init
<1>6. \A p \in Parties : ip[p] = 1 /\ res[p] = <<>> /\ dealt[p] = <<>> /\ talk[p] = <<>>
                         /\ sent[p] = FALSE
  BY <1>5, PeerFacts
<1>7. TypeOK
  <2>1. mem \in [Parties -> MemType]
    BY <1>1, <1>3
  <2>2. \A p \in Parties : Len(res[p]) = ip[p] - 1
    BY <1>6, EmptyIsSeq
  <2> QED
    BY <2>1, <2>2, <1>4, <1>5 DEF TypeOK, MemType
<1>8. Tables
  BY <1>5 DEF Tables
<1>9. ASSUME NEW p \in Parties PROVE Shapes(p) /\ DealLink(p) /\ TalkLink(p) /\ Paced(p)
  <2>1. Shapes(p)
    BY <1>6, EmptyIsSeq DEF Shapes
  <2>2. \A lo, hi, S : LinkOK(<<>>, lo, hi, S, FALSE)
    BY EmptyIsSeq DEF LinkOK
  <2>3. \A j \in KeySteps \cup TalkSteps : j >= 1
    BY ProgramFacts
  <2>4. /\ DealtTo = 1 /\ Ahead(Peer(p)) = 1
    BY <1>5, <1>6, PeerFacts DEF DealtTo, Ahead, Roles
  <2>5. \A full \in BOOLEAN, S \in SUBSET Nat :
          (\A j \in S : j >= 1) => LinkOK(<<>>, 1, 1, S, full)
    BY EmptyIsSeq DEF LinkOK
  <2>6. DealLink(p) /\ TalkLink(p)
    BY <2>3, <2>4, <2>5, <1>6, ProgramFacts DEF DealLink, TalkLink, Up
  <2>7. Paced(p)
    BY <2>3, <2>4, <1>6, ProgramFacts DEF Paced
  <2> QED
    BY <2>1, <2>6, <2>7
<1>10. FlowInv
  BY <1>7, <1>8, <1>9 DEF FlowInv
<1>11. PICK u, sh : /\ u = [p \in Parties |-> [k \in Steps |->
                              IF p = "P0" THEN Zero ELSE Point(UpdAlpha, UpdValue)]]
                    /\ sh = [p \in Parties |-> [k \in 1 .. (Len(Program) + 1) |-> s[p]]]
  OBVIOUS
<1>12. History(u, sh)
  <2>1. u \in [Parties -> [Steps -> Vector]]
    BY <1>2, <1>11
  <2>2. sh \in [Parties -> [1 .. (Len(Program) + 1) -> Vector]]
    BY <1>3, <1>11
  <2>3. ASSUME NEW k \in Steps
        PROVE  XorVec(u["P0"][k], u["P1"][k]) = Point(UpdAlpha, UpdValue)
    <3>1. u["P0"][k] = Zero /\ u["P1"][k] = Point(UpdAlpha, UpdValue)
      BY <1>11 DEF Parties
    <3>2. PICK z : z = Point(UpdAlpha, UpdValue)
      OBVIOUS
    <3>3. XorVec(Zero, z) \in Vector /\ z \in Vector
      BY <3>2, <1>2, XorVecType
    <3>4. ASSUME NEW i \in Index PROVE XorVec(Zero, z)[i] = z[i]
      <4>1. XorVec(Zero, z)[i] = Xor(Zero[i], z[i]) /\ Zero[i] = {}
        BY <3>3, <1>2, XorVecType DEF Zero
      <4>2. Xor({}, z[i]) = z[i]
        BY DEF Xor
      <4> QED
        BY <4>1, <4>2
    <3> QED
      BY <3>1, <3>2, <3>3, <3>4, SameVector
  <2>4. ASSUME NEW p \in Parties
        PROVE  Keyed(u, p) /\ Arrays(u, sh, p) /\ Told(sh, p) /\ Got(sh, p)
    <3>1. Keyed(u, p) /\ Told(sh, p)
      BY <1>6, EmptyIsSeq DEF Keyed, Told
    <3>2. Got(sh, p)
      BY <1>6 DEF Got
    <3>3. Stored(p) = s[p]
      <4>1. XorVec(s[p], Zero) \in Vector
        BY <1>2, <1>3, XorVecType
      <4>2. ASSUME NEW i \in Index PROVE XorVec(s[p], Zero)[i] = s[p][i]
        <5>1. s[p] \in Vector /\ Zero \in Vector
          BY <1>2, <1>3
        <5>2. XorVec(s[p], Zero)[i] = Xor(s[p][i], Zero[i])
          BY <5>1, XorVecType
        <5>3. Zero[i] = {}
          BY DEF Zero
        <5>4. Xor(s[p][i], {}) = s[p][i]
          BY DEF Xor
        <5> QED
          BY <5>2, <5>3, <5>4
      <4> QED
        BY <4>1, <4>2, <1>3, SameVector DEF Stored
    <3>4. sh[p][1] = s[p]
      BY <1>4, <1>11
    <3>5. Arrays(u, sh, p)
      BY <3>3, <3>4, <1>3, <1>6 DEF Arrays
    <3> QED
      BY <3>1, <3>2, <3>5
  <2> QED
    BY <2>1, <2>2, <2>3, <2>4 DEF History
<1>13. PICK g : g = [k \in Steps |-> NoBits]
  OBVIOUS
<1>14. Marked(g)
  BY <1>2, <1>6, <1>13, EmptyIsSeq DEF Marked
<1>15. ASSUME NEW p \in Parties PROVE First(g, p)
  BY <1>3, <1>6 DEF First
<1> QED
  BY <1>10, <1>12, <1>14, <1>15 DEF LocoramInv, Flagged

\* And every step preserves it.
LEMMA LocoramStep == LocoramInv /\ [Next]_vars => LocoramInv'
<1> SUFFICES ASSUME LocoramInv, [Next]_vars PROVE LocoramInv'
  OBVIOUS
<1>1. PICK g : FlowInv /\ Flagged(g) /\ Marked(g) /\ \A p \in Parties : First(g, p)
  BY DEF LocoramInv, Flagged
<1>2. PICK u, sh : History(u, sh)
  BY DEF LocoramInv
<1>3. ASSUME NEW p \in Parties, TakeKey(p) PROVE Marked(g)'
  <2>1. /\ dealt[p] # <<>> /\ dealt' = [dealt EXCEPT ![p] = Tail(@)]
        /\ dealt = [q \in Parties |-> dealt[q]]
    BY <1>1, <1>3 DEF TakeKey, FlowInv, Tables
  <2>2. ASSUME NEW q \in Parties, NEW i \in 1 .. Len(dealt'[q])
        PROVE  \E j \in 1 .. Len(dealt[q]) : dealt'[q][i] = dealt[q][j]
    <3>1. CASE q = p
      BY <3>1, <2>1, <2>2, <1>1, HeadKey
    <3>2. CASE q # p
      BY <3>2, <2>1, <2>2
    <3> QED
      BY <3>1, <3>2
  <2> QED
    BY <2>2, <1>1, MarkedStays
<1>4. ASSUME NEW p \in Parties, Update(p) PROVE LocoramInv'
  <2>1. FlowInv' /\ TakeKey(p)
    BY <1>1, <1>4, UpdateEffect
  <2>2. \E s : History(u, s)'
    BY <1>1, <1>2, <1>4, HistoryUpdate
  <2>3. First(g, p)'
    <3>1. /\ Head(dealt[p]).v \in KeyType /\ Return(p, {}) /\ ip[p] \in Steps
          /\ Program[ip[p]] = "update"
          /\ mem'[p].secret_share = XorVec(mem[p].secret_share, Head(dealt[p]).v.out)
          /\ mem'[p].blind = XorVec(mem[p].blind, Head(dealt[p]).v.out)
          /\ mem'[p].sbv_secret_share = mem[p].sbv_secret_share
          /\ mem'[p].cancellation_term = mem[p].cancellation_term
          /\ mem[p].update_vals # <<>> => mem'[p].update_vals[1] = mem[p].update_vals[1]
      BY <1>1, <1>4, UpdateEffect
    <3>2. mem[p] \in MemType
      BY <1>1, PlaceFacts DEF FlowInv
    <3>3. PICK o : o = Head(dealt[p]).v.out
      OBVIOUS
    <3>4. o \in Vector /\ mem[p].secret_share \in Vector /\ mem[p].blind \in Vector
      BY <3>1, <3>2, <3>3 DEF MemType, KeyType
    <3>5. Stored(p)' = Stored(p)
      BY <3>1, <3>3, <3>4, XorVecCancel DEF Stored
    <3>6. Program[ip[p]] \notin Reads
      BY <3>1 DEF Reads
    <3> QED
      BY <3>1, <3>5, <3>6, <1>1, FirstPasses
  <2>4. First(g, Peer(p))'
    <3>1. /\ Peer(p) \in Parties /\ Peer(p) \in Roles /\ Peer(p) # p /\ ip[p] \in Steps
          /\ TypeOK /\ Tables /\ IsSeq(res[p]) /\ Return(p, {}) /\ mem'[Peer(p)] = mem[Peer(p)]
      BY <1>1, <1>4, UpdateEffect, PeerFacts DEF FlowInv, Shapes
    <3>2. ip'[Peer(p)] = ip[Peer(p)] /\ res'[Peer(p)] = res[Peer(p)]
      BY <3>1, ReturnFacts
    <3> QED
      BY <3>1, <3>2, <1>1, FirstStays
  <2>5. Flagged(g)'
    BY <2>1, <2>3, <2>4, <1>3, PeerFacts DEF Flagged
  <2> QED
    BY <2>1, <2>2, <2>5 DEF LocoramInv
<1>5. ASSUME NEW p \in Parties, ReadX(p) \/ ReadA(p) PROVE LocoramInv'
  <2>1. FlowInv' /\ TakeKey(p) /\ \E s : History(u, s)'
    BY <1>1, <1>2, <1>5, ReadEffect, HistoryRead
  <2>2. First(g, p)'
    BY <1>1, <1>5, FirstReads
  <2>3. First(g, Peer(p))'
    <3>1. /\ Peer(p) \in Parties /\ Peer(p) \in Roles /\ Peer(p) # p /\ ip[p] \in Steps
          /\ TypeOK /\ Tables /\ IsSeq(res[p]) /\ mem'[Peer(p)] = mem[Peer(p)]
      BY <1>1, <1>5, ReadEffect, PeerFacts DEF FlowInv, Shapes, KeySteps
    <3>2. PICK v : Return(p, v)
      BY <1>1, <1>5, ReadEffect
    <3>3. ip'[Peer(p)] = ip[Peer(p)] /\ res'[Peer(p)] = res[Peer(p)]
      BY <3>1, <3>2, ReturnFacts
    <3> QED
      BY <3>1, <3>3, <1>1, FirstStays
  <2>4. Flagged(g)'
    BY <2>1, <2>2, <2>3, <1>3, PeerFacts DEF Flagged
  <2> QED
    BY <2>1, <2>4 DEF LocoramInv
<1>6. ASSUME NEW p \in Parties, SendHalf(p) PROVE LocoramInv'
  <2>1. FlowInv' /\ History(u, sh)'
    BY <1>1, <1>2, <1>6, FlowSend, HistorySend
  <2>2. \A q \in Parties : First(g, q)'
    BY <1>1, <1>6, FirstStays DEF SendHalf
  <2>3. Marked(g)'
    BY <1>1, <1>6, MarkedStays DEF SendHalf
  <2> QED
    BY <2>1, <2>2, <2>3 DEF LocoramInv, Flagged
<1>7. ASSUME NEW p \in Parties, RecvHalf(p) PROVE LocoramInv'
  <2>1. FlowInv' /\ ip[p] \in TalkSteps /\ \E s : History(u, s)'
    BY <1>1, <1>2, <1>7, FlowRecv, HistoryRecv
  <2>2. /\ Peer(p) \in Parties /\ Peer(p) \in Roles /\ Peer(p) # p /\ ip[p] \in Steps
        /\ TypeOK /\ Tables /\ IsSeq(res[p]) /\ mem' = mem /\ Program[ip[p]] \notin Reads
    BY <1>1, <1>7, <2>1, PeerFacts DEF FlowInv, Shapes, TalkSteps, Halves, Reads, RecvHalf
  <2>3. PICK v : Return(p, v)
    BY <1>7 DEF RecvHalf
  <2>4. Stored(p)' = Stored(p)
    BY <2>2 DEF Stored
  <2>5. First(g, p)'
    BY <2>2, <2>3, <2>4, <1>1, FirstPasses
  <2>6. ip'[Peer(p)] = ip[Peer(p)] /\ res'[Peer(p)] = res[Peer(p)]
    BY <2>2, <2>3, ReturnFacts
  <2>7. First(g, Peer(p))'
    BY <2>2, <2>6, <1>1, FirstStays
  <2>8. Marked(g)'
    BY <1>1, <1>7, MarkedStays DEF RecvHalf
  <2>9. Flagged(g)'
    BY <2>5, <2>7, <2>8, PeerFacts DEF Flagged
  <2> QED
    BY <2>1, <2>9 DEF LocoramInv
<1>8. ASSUME Deal \/ DealFails \/ DealerSkip PROVE LocoramInv'
  BY <1>1, <1>2, <1>8, FlowDealer, HistoryDeals, FlaggedDeals DEF LocoramInv
<1>9. ASSUME NEW r \in Roles, BoundsError(r) \/ IoError(r) \/ Finish(r) PROVE LocoramInv'
  <2>1. FlowInv' /\ History(u, sh)' /\ UNCHANGED <<ip, mem, sent, res>>
    BY <1>1, <1>2, <1>9, FlowEnd, HistoryEnd
  <2>2. \A q \in Parties : First(g, q)'
    BY <1>1, <2>1, FirstStays
  <2>3. Marked(g)'
    <3>1. ASSUME NEW q \in Parties, NEW i \in 1 .. Len(dealt'[q])
          PROVE  \E j \in 1 .. Len(dealt[q]) : dealt'[q][i] = dealt[q][j]
      <4>1. PICK n \in 0 .. Len(dealt[q]) : dealt'[q] = SubSeq(dealt[q], 1, n)
        BY <1>1, <1>9, FlowEnd
      <4>2. IsSeq(dealt[q])
        BY <1>1 DEF FlowInv, Shapes
      <4> QED
        BY <4>1, <4>2, QueueElements
    <3> QED
      BY <3>1, <1>1, MarkedStays
  <2> QED
    BY <2>1, <2>2, <2>3 DEF LocoramInv, Flagged
<1>10. CASE UNCHANGED vars
  <2>1. FlowInv'
    BY <1>1, <1>10 DEF vars, FlowInv, TypeOK, Tables, Shapes, DealLink, TalkLink, Paced, DealtTo,
                      Ahead, Up
  <2>2. History(u, sh)'
    BY <1>2, <1>10 DEF vars, History, Keyed, Arrays, Told, Got, Stored
  <2>3. \A q \in Parties : First(g, q)'
    BY <1>1, <1>10, FirstStays DEF vars
  <2>4. Marked(g)'
    BY <1>1, <1>10, MarkedStays DEF vars
  <2> QED
    BY <2>1, <2>2, <2>3, <2>4 DEF LocoramInv, Flagged
<1>11. CASE Next
  <2>1. PICK r \in Roles : RoleStep(r)
    BY <1>11 DEF Next
  <2> QED
    BY <2>1, <1>4, <1>5, <1>6, <1>7, <1>8, <1>9 DEF RoleStep
<1> QED
  BY <1>10, <1>11

\* So the invariant always holds.
LEMMA LocoramAlways == Spec => []LocoramInv
BY LocoramInit, LocoramStep, PTL DEF Spec

-----------------------------------------------------------------------------
(* The theorems.                                                           *)

\* One call more: the count of its kind goes up, no other does.
LEMMA BeforeNext ==
  ASSUME NEW k \in Nat, k >= 1, NEW c
  PROVE  /\ Before(k, c) \in Nat
         /\ Before(k + 1, c) = IF Program[k] = c THEN Before(k, c) + 1 ELSE Before(k, c)
         /\ Before(k, c) = 0 => \A i \in 1 .. (k - 1) : Program[i] # c
<1> DEFINE S == {i \in 1 .. (k - 1) : Program[i] = c}
<1>1. IsFiniteSet(1 .. (k - 1))
  BY FS_Interval
<1>2. S \in SUBSET (1 .. (k - 1))
  OBVIOUS
<1>3. IsFiniteSet(S)
  BY <1>1, <1>2, FS_Subset
<1>4. Cardinality(S) \in Nat /\ (Cardinality(S) = 0 <=> S = {})
  BY <1>3, FS_CardinalityType, FS_EmptySet
<1>5. k \notin S
  OBVIOUS
<1>6. {i \in 1 .. ((k + 1) - 1) : Program[i] = c} = IF Program[k] = c THEN S \cup {k} ELSE S
  OBVIOUS
<1>7. Cardinality(S \cup {k}) = Cardinality(S) + 1
  BY <1>3, <1>5, FS_AddElement
<1>8. Before(k, c) = Cardinality(S)
  BY DEF Before
<1>9. Before(k + 1, c) = Cardinality(IF Program[k] = c THEN S \cup {k} ELSE S)
  <2>1. Before(k + 1, c) = Cardinality({i \in 1 .. ((k + 1) - 1) : Program[i] = c})
    BY DEF Before
  <2> HIDE DEF S
  <2> QED
    BY <2>1, <1>6, Zenon
<1>10. Before(k, c) = 0 => \A i \in 1 .. (k - 1) : Program[i] # c
  BY <1>4, <1>8
<1> QED
  BY <1>4, <1>7, <1>8, <1>9, <1>10

\* Nothing comes before the first call.
LEMMA BeforeFirst == ASSUME NEW c PROVE Before(1, c) = 0
<1>1. {i \in 1 .. (1 - 1) : Program[i] = c} = {}
  OBVIOUS
<1> QED
  BY <1>1, FS_EmptySet DEF Before

\* The arrays of a history sum to the array of the specification: an update
\* adds the point of P2, and a second one takes it away again.
LEMMA ArraysSum ==
  ASSUME FlowInv, NEW u, NEW sh, History(u, sh)
  PROVE  \A k \in Nat : 1 <= k /\ k <= ip["P0"] /\ k <= ip["P1"] =>
           XorVec(sh["P0"][k], sh["P1"][k]) = ArrayAt(k)
<1>1. /\ "P0" \in Parties /\ "P1" \in Parties
      /\ ip["P0"] \in 1 .. (Len(Program) + 1) /\ ip["P1"] \in 1 .. (Len(Program) + 1)
      /\ Len(Program) \in Nat
  BY PastFacts, ProgramFacts DEF Parties
<1>2. PICK n0, n1, b0, b1 : /\ n0 = ip["P0"] /\ n1 = ip["P1"]
                            /\ b0 = Stored("P0") /\ b1 = Stored("P1")
  OBVIOUS
<1>3. n0 \in Nat /\ n1 \in Nat /\ n0 <= Len(Program) + 1 /\ n1 <= Len(Program) + 1
  BY <1>1, <1>2
<1>4. /\ sh["P0"] \in [1 .. (Len(Program) + 1) -> Vector]
      /\ sh["P1"] \in [1 .. (Len(Program) + 1) -> Vector]
      /\ u["P0"] \in [Steps -> Vector] /\ u["P1"] \in [Steps -> Vector]
  BY <1>1 DEF History
<1>5. Arrays(u, sh, "P0") /\ Arrays(u, sh, "P1")
  BY <1>1 DEF History
<1>6. /\ sh["P0"][1] = b0 /\ sh["P1"][1] = b1
      /\ \A k \in 1 .. (n0 - 1) : sh["P0"][k + 1] = After(k, sh["P0"][k], u["P0"][k])
      /\ \A k \in 1 .. (n1 - 1) : sh["P1"][k + 1] = After(k, sh["P1"][k], u["P1"][k])
  BY <1>2, <1>5 DEF Arrays
<1>7. b0 \in Vector /\ b1 \in Vector
  BY <1>1, <1>4, <1>6
<1>8. PICK b, t : b = XorVec(b0, b1) /\ t = Point(UpdAlpha, UpdValue)
  OBVIOUS
<1>9. b \in Vector /\ t \in Vector
  BY <1>7, <1>8, XorVecType, PointType, LocoramAssumption
<1>10. \A k \in Steps : Program[k] = "update" => XorVec(u["P0"][k], u["P1"][k]) = t
  BY <1>8 DEF History
<1>11. /\ UpdAlpha \in Index
       /\ XorVec(b, Point(UpdAlpha, {})) = b
       /\ XorVec(XorVec(b, t), t) = b
  BY <1>9, XorVecTwice, LocoramAssumption
<1> DEFINE Value(n) == IF n % 2 = 1 THEN XorVec(b, t) ELSE b
<1>12. ASSUME NEW k PROVE ArrayAt(k) = Value(Before(k, "update"))
  <2>1. ArrayAt(k) = XorVec(b, Point(UpdAlpha, IF Before(k, "update") % 2 = 1
                                               THEN UpdValue ELSE {}))
    BY <1>2, <1>8 DEF ArrayAt
  <2>2. CASE Before(k, "update") % 2 = 1
    BY <2>1, <2>2, <1>8
  <2>3. CASE ~(Before(k, "update") % 2 = 1)
    BY <2>1, <2>3, <1>11
  <2> QED
    BY <2>2, <2>3
<1> DEFINE Sum(k) == XorVec(sh["P0"][k], sh["P1"][k])
           T == {m \in Nat : m + 1 <= n0 /\ m + 1 <= n1 =>
                               Sum(m + 1) = Value(Before(m + 1, "update"))}
<1>13. 0 \in T
  <2>1. Sum(1) = b
    BY <1>6, <1>8
  <2>2. Value(Before(1, "update")) = b
    BY BeforeFirst
  <2> QED
    BY <2>1, <2>2
<1>14. ASSUME NEW m \in Nat, m \in T PROVE m + 1 \in T
  <2>1. SUFFICES ASSUME m + 2 <= n0, m + 2 <= n1
                 PROVE  Sum(m + 2) = Value(Before(m + 2, "update"))
    BY m + 1 + 1 = m + 2
  <2>2. PICK k : k = m + 1
    OBVIOUS
  <2>3. /\ k \in Nat /\ k >= 1 /\ k + 1 = m + 2 /\ k \in 1 .. (n0 - 1) /\ k \in 1 .. (n1 - 1)
        /\ k \in 1 .. (Len(Program) + 1) /\ k \in Steps
    BY <2>1, <2>2, <1>1, <1>3 DEF Steps
  <2>4. Sum(k) = Value(Before(k, "update"))
    BY <1>14, <2>1, <2>2, <1>3
  <2>5. PICK a0, a1, u0, u1 : /\ a0 = sh["P0"][k] /\ a1 = sh["P1"][k]
                              /\ u0 = u["P0"][k] /\ u1 = u["P1"][k]
    OBVIOUS
  <2>6. a0 \in Vector /\ a1 \in Vector /\ u0 \in Vector /\ u1 \in Vector
    BY <2>3, <2>5, <1>4
  <2>7. sh["P0"][k + 1] = After(k, a0, u0) /\ sh["P1"][k + 1] = After(k, a1, u1)
    BY <2>3, <2>5, <1>6
  <2>8. Before(k, "update") \in Nat
    BY <2>3, BeforeNext
  <2>9. CASE Program[k] = "update"
    <3>1. Sum(k + 1) = XorVec(XorVec(a0, u0), XorVec(a1, u1))
      BY <2>7, <2>9 DEF After
    <3>2. XorVec(XorVec(a0, u0), XorVec(a1, u1)) = XorVec(XorVec(a0, a1), XorVec(u0, u1))
      BY <2>6, XorVecSwap
    <3>3. XorVec(u0, u1) = t /\ XorVec(a0, a1) = Sum(k)
      BY <2>3, <2>5, <2>9, <1>10
    <3>4. Sum(k + 1) = XorVec(Value(Before(k, "update")), t)
      BY <3>1, <3>2, <3>3, <2>4
    <3>5. Before(k + 1, "update") = Before(k, "update") + 1
      BY <2>3, <2>9, BeforeNext
    <3>6. XorVec(Value(Before(k, "update")), t) = Value(Before(k, "update") + 1)
      <4>1. PICK n : n = Before(k, "update")
        OBVIOUS
      <4>2. n \in Nat /\ (n % 2 = 1 <=> ~((n + 1) % 2 = 1))
        BY <2>8, <4>1
      <4>3. XorVec(Value(n), t) = Value(n + 1)
        BY <4>2, <1>11
      <4> QED
        BY <4>1, <4>3
    <3> QED
      BY <3>4, <3>5, <3>6, <2>3
  <2>10. CASE Program[k] # "update"
    <3>1. Sum(k + 1) = Sum(k)
      BY <2>5, <2>7, <2>10 DEF After
    <3>2. Before(k + 1, "update") = Before(k, "update")
      BY <2>3, <2>10, BeforeNext
    <3> QED
      BY <3>1, <3>2, <2>3, <2>4
  <2> QED
    BY <2>9, <2>10
<1>15. Nat \subseteq T
  <2> HIDE DEF T
  <2> QED
    BY <1>13, <1>14, Induction
<1> QED
  <2>1. SUFFICES ASSUME NEW k \in Nat, 1 <= k, k <= n0, k <= n1 PROVE Sum(k) = ArrayAt(k)
    BY <1>2
  <2>2. k - 1 \in Nat /\ (k - 1) + 1 = k
    BY <2>1
  <2>3. k - 1 \in T
    BY <2>2, <1>15
  <2>4. Sum(k) = Value(Before(k, "update"))
    BY <2>1, <2>2, <2>3
  <2> QED
    BY <2>4, <1>12

\* The inductive invariant contains the type invariant, and implies that what
\* both parties have reconstructed is the array.
LEMMA InvImplies ==
  LocoramInv => TypeOK /\ ReconstructCorrect /\ FirstReadCorrect
<1> SUFFICES ASSUME LocoramInv PROVE TypeOK /\ ReconstructCorrect /\ FirstReadCorrect
  OBVIOUS
<1>1. PICK g : FlowInv /\ TypeOK /\ Marked(g) /\ \A p \in Parties : First(g, p)
  BY DEF LocoramInv, Flagged, FlowInv
<1>2. PICK u, sh : History(u, sh)
  BY DEF LocoramInv
<1>3. "P0" \in Parties /\ "P1" \in Parties
  BY DEF Parties
<1>4. ip["P0"] \in Nat /\ ip["P1"] \in Nat
  BY <1>1, <1>3, PastFacts, ProgramFacts
<1>5. ASSUME NEW k \in Common
      PROVE  /\ k \in Nat /\ k >= 1 /\ k \in Steps /\ k < ip["P0"] /\ k < ip["P1"]
             /\ \A p \in Parties : k \in 1 .. (ip[p] - 1)
  BY <1>4, ProgramFacts DEF Common, Parties
<1>6. \A p \in Parties : Got(sh, p)
  BY <1>2 DEF History
<1>7. ReconstructCorrect
  <2>1. SUFFICES ASSUME NEW k \in Common, Program[k] = "reconstruct", NEW p \in Parties
                 PROVE  res[p][k] = ArrayAt(k)
    BY DEF ReconstructCorrect
  <2>2. res[p][k] = XorVec(sh["P0"][k], sh["P1"][k])
    BY <2>1, <1>5, <1>6 DEF Got
  <2>3. k \in Nat /\ 1 <= k /\ k <= ip["P0"] /\ k <= ip["P1"]
    BY <1>4, <1>5
  <2> QED
    BY <2>2, <2>3, <1>1, <1>2, ArraysSum
<1>8. FirstReadCorrect
  <2>1. SUFFICES ASSUME NEW k \in Common, ZeroArray, Program[k] = "open",
                        Program[k - 1] = "readX",
                        Before(k - 1, "readX") + Before(k - 1, "readA") = 0,
                        NEW p \in Parties
                 PROVE  res[p][k] = Xor(Xor(mem["P0"].update_vals[1], mem["P1"].update_vals[1]),
                                        Stored("P1")[ReadAlpha \div LPN])
    BY DEF FirstReadCorrect
  <2>2. res[p][k] = Xor(res["P0"][k - 1], res["P1"][k - 1])
    BY <2>1, <1>5, <1>6 DEF Got
  <2>3. k \in Steps /\ k > 1 /\ k - 1 \in Steps
    BY <2>1, <1>5, ProgramFacts
  <2>4. k - 1 \in Nat /\ k - 1 >= 1 /\ \A q \in Parties : k - 1 \in 1 .. (ip[q] - 1)
    BY <2>1, <2>3, <1>4, <1>5 DEF Parties
  <2>5. PICK j : j = k - 1
    OBVIOUS
  <2>6. Before(j, "readX") \in Nat /\ Before(j, "readA") \in Nat
    BY <2>4, <2>5, BeforeNext
  <2>7. Before(j, "readX") = 0 /\ Before(j, "readA") = 0
    BY <2>1, <2>5, <2>6
  <2>8. \A i \in 1 .. (j - 1) : Program[i] # "readX" /\ Program[i] # "readA"
    BY <2>4, <2>5, <2>7, BeforeNext
  <2>9. \A i \in 1 .. (j - 1) : Program[i] \notin Reads
    BY <2>8 DEF Reads
  <2>10. ASSUME NEW q \in Parties
         PROVE  res[q][j] = Xor(Dot(Stored(q), BitsOf(q, g[j])), mem[q].update_vals[1])
    BY <2>1, <2>4, <2>5, <2>9, <1>1 DEF First
  <2>11. PICK a, b, c, d, e : /\ a = Stored("P1") /\ b = Dot(a, g[j]) /\ c = a[ReadAlpha \div LPN]
                              /\ d = mem["P0"].update_vals[1] /\ e = mem["P1"].update_vals[1]
    OBVIOUS
  <2>12. a \in Vector /\ g[j] \in [Index -> BOOLEAN]
    <3>1. mem["P1"].secret_share \in Vector /\ mem["P1"].blind \in Vector
      BY <1>1, <1>3 DEF TypeOK
    <3>2. j \in Steps
      BY <2>3, <2>5
    <3> QED
      BY <3>1, <3>2, <2>11, <1>1, XorVecType DEF Stored, Marked
  <2>13. res["P0"][j] = Xor(b, d)
    BY <2>1, <2>10, <2>11, <1>3 DEF ZeroArray, BitsOf
  <2>14. res["P1"][j] = Xor(Xor(b, c), e)
    <3>1. BitsOf("P1", g[j]) = Flipped(g[j])
      BY DEF BitsOf
    <3>2. Dot(a, Flipped(g[j])) = Xor(b, c)
      BY <2>11, <2>12, DotFlip
    <3> QED
      BY <3>1, <3>2, <2>10, <2>11, <1>3
  <2>15. Xor(Xor(b, d), Xor(Xor(b, c), e)) = Xor(Xor(d, e), c)
    BY DEF Xor
  <2> QED
    BY <2>2, <2>5, <2>11, <2>13, <2>14, <2>15
<1> QED
  BY <1>1, <1>7, <1>8

\* TypeOK of Locoram: the objects of both parties keep their vectors, of the
\* length of the array, through every update and read, and each has as many
\* results as it has completed calls.
THEOREM LocoramTypeCorrect == Spec => []TypeOK
BY LocoramAlways, InvImplies, PTL

\* ReconstructCorrect: what reconstruct_with_ctx gives both parties is the array
\* that set_share stored, with P2's value at P2's place for each update, for
\* every array, program, key and interleaving.
THEOREM ReconstructionsCorrect == Spec => []ReconstructCorrect
BY LocoramAlways, InvImplies, PTL

\* FirstReadCorrect: on an array of zeros, however it is shared, the first read opens
\* to the value that the parties shared in their first update, plus the word of a
\* share at the node of P2's point, whatever the advice bits and the blinds are.
THEOREM FirstReadsCorrect == Spec => []FirstReadCorrect
BY LocoramAlways, InvImplies, PTL
=============================================================================
