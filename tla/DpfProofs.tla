----------------------------- MODULE DpfProofs -----------------------------
(***************************************************************************)
(* Proofs about Dpf, for every PRG, every size, every layout of the leaves *)
(* and every word: the two keys that gen makes evaluate to shares of the   *)
(* value at the target and of zero everywhere else.                        *)
(*                                                                         *)
(* gen forgets the nodes it passes, so the invariant says that there was a *)
(* path of nodes which explains the correction words; eval either walks on *)
(* that path or has left it, and then both parties are at the same node.   *)
(*                                                                         *)
(* Then __evalinterval: although it overwrites one layer of the tree with  *)
(* the next, every leaf is what eval computes, and the advice bits that it *)
(* leaves behind are shares of a unit vector.                              *)
(***************************************************************************)
EXTENDS Dpf, OperatorProofs

Depth == depth(job.nitems)
Node == [s : XWord, t : BOOLEAN]
Turn(l) == BitAt(job.nitems, job.target, l)
Child(node, d, cw) == traverse_(job.prgkey, node, d, cw)
RootNodes == [p \in Two |-> [s |-> roots[p], t |-> get_lsb(roots[p], 0)]]

\* The leaf type and the arguments of gen.
JobOK ==
  /\ \E y \in Layouts : job.lpn = y.lpn /\ job.npl = y.npl
  /\ job.prgkey \in PrgKeys /\ job.nitems \in Sizes /\ job.target \in 0 .. job.nitems
  /\ IF Packed THEN job.val \subseteq 0 .. (Lane - 1) ELSE job.val \in [WordsOfLeaf -> XWord]

Types ==
  /\ pc \in {"start", "thrown", "gen", "sent", "ready", "eval", "evaluated", "layers", "expanded"}
  /\ roots \in [Two -> XWord]
  /\ nodes \in [Two -> [s : XWord, t : BOOLEAN]]
  /\ cws \in Seq(XWord) /\ Len(cws) <= Depth
  /\ layer \in 0 .. Depth /\ pos \in Nat

\* tr is the path of nodes from the roots to layer l towards the target: the
\* correction words lead from each pair of nodes to the next, and away from the
\* path they lead both parties to the same node.
Path(tr, l) ==
  /\ tr[0] = RootNodes
  /\ \A i \in 0 .. (l - 1) :
       /\ tr[i + 1] = [p \in Two |-> Child(tr[i][p], Turn(i), cws[i + 1])]
       /\ Child(tr[i][0], 1 - Turn(i), cws[i + 1]) = Child(tr[i][1], 1 - Turn(i), cws[i + 1])
  /\ \A i \in 0 .. l : tr[i][0].t # tr[i][1].t

\* gen on its way.
Making == \E tr : Path(tr, layer) /\ tr[layer] = nodes

Finalizer(tr) ==
  make_finalizer(job.prgkey, job.target, job.val, [p \in Two |-> tr[Depth][p].s])
KeyOf(p, tr) == dpf_key(job.nitems, roots[p], cws, Finalizer(tr), job.prgkey)

\* The keys, once gen has made them, and where eval stands.
Made(tr) ==
  /\ Path(tr, Depth)
  /\ pc = "sent" => \A p \in Two : wire[p] = serialize_dpf_key(KeyOf(p, tr))
  /\ pc # "sent" => \A p \in Two : key[p] = KeyOf(p, tr)
  /\ pc = "eval" =>
       /\ arg.input \in 0 .. (job.nitems - 1)
       /\ IF OnPath(arg.input, layer) THEN nodes = tr[layer] ELSE nodes[0] = nodes[1]
       /\ OnPath(arg.input, layer) =>
            arg.input \div 2 ^ (input_bits(job.nitems) - layer)
              = job.target \div 2 ^ (input_bits(job.nitems) - layer)

DpfInv ==
  /\ JobOK /\ Types
  /\ pc = "start" => cws = <<>>
  /\ pc \notin {"start", "thrown"} => job.target < job.nitems
  /\ pc = "gen" => Len(cws) = layer /\ Making
  /\ pc \notin {"start", "thrown", "gen"} => Len(cws) = Depth /\ \E tr : Made(tr)
  /\ PointCorrect

-----------------------------------------------------------------------------
(* Words                                                                   *)

\* Exclusive or, the parts of it that are needed.
LEMMA XorFacts ==
  ASSUME NEW a, NEW b, NEW c
  PROVE  /\ Xor(a, b) = Xor(b, a) /\ Xor(a, a) = {}
         /\ Xor(Xor(a, c), b) = Xor(Xor(a, b), c) /\ Xor(a, Xor(b, c)) = Xor(Xor(a, b), c)
         /\ Xor(Xor(a, b), Xor(c, Xor(a, b))) = c
         /\ Xor(a, b) \ c = Xor(a \ c, b \ c)
  BY DEF Xor

\* Exclusive or stays within words.
LEMMA WordXor ==
  ASSUME NEW a \in XWord, NEW b \in XWord
  PROVE  Xor(a, b) \in XWord
  BY DEF Xor, XWord

\* The two directions, and the other one of them.
LEMMA TwoFacts ==
  ASSUME NEW d \in Two
  PROVE  1 - d \in Two /\ 1 - d # d /\ (d = IF d = L THEN 0 ELSE 1)
         /\ \A x \in Two : x # d => x = 1 - d
         /\ (1 - d = L \/ 1 - d = R)
<1>1. CASE d = 0 BY <1>1 DEF Two, L, R
<1>2. CASE d = 1 BY <1>2 DEF Two, L, R
<1> QED BY <1>1, <1>2 DEF Two

\* Bits of words that are blocks: W > 1.
LEMMA LayoutFacts ==
  ASSUME NEW y \in Layouts
  PROVE  /\ y.lpn \in Nat \ {0} /\ y.npl \in Nat \ {0} /\ (y.lpn = 1 \/ y.npl = 1)
         /\ W > 1 /\ 0 \in 0 .. (W - 1) /\ 1 \in 0 .. (W - 1)
<1>1. /\ y.lpn \in Nat \ {0} /\ y.npl \in Nat \ {0} /\ (y.lpn = 1 \/ y.npl = 1) /\ W > 1
  BY LayoutAssumption
<1>2. W \in Nat BY WordSize
<1> QED BY <1>1, <1>2

\* The blocks that the PRG makes of a seed, in a node or for a leaf.
LEMMA PrgFacts ==
  ASSUME JobOK, NEW b \in XWord, NEW bits \in {{0}, {0, 1}}, NEW i \in WordsOfLeaf \cup Two
  PROVE  PRG(job.prgkey, clear_lsb(b, bits), i) \in XWord
<1>1. PICK y \in Layouts : job.lpn = y.lpn /\ job.npl = y.npl BY DEF JobOK
<1>2. clear_lsb(b, bits) \in Seeds BY DEF clear_lsb, Seeds, XWord
<1>3. i \in 0 .. (y.npl - 1) \cup Two BY <1>1 DEF WordsOfLeaf, NPL
<1>4. job.prgkey \in PrgKeys BY DEF JobOK
<1>5. \A k \in PrgKeys : \A x \in Seeds : \A j \in 0 .. (y.npl - 1) \cup Two : Prg[k][x][j] \in XWord
  BY LayoutAssumption
<1> QED BY <1>2, <1>3, <1>4, <1>5 DEF PRG

-----------------------------------------------------------------------------
(* One layer of gen                                                        *)

\* The children of a pair of nodes, and the correction word for them.
Expanded(k, nd) == [p \in Two |-> expand(k, nd[p].s)]
Advice(c, bit) == [d \in Two |-> (c[0][d].t # c[1][d].t) # (bit = IF d = L THEN 0 ELSE 1)]
Correction(c, bit) == Xor(c[0][1 - bit].s, c[1][1 - bit].s)
NextNodes(c, nd, bit) ==
  [p \in Two |-> [s |-> xor_if(c[p][bit].s, Correction(c, bit), nd[p].t),
                  t |-> c[p][bit].t # (nd[p].t /\ Advice(c, bit)[bit])]]
NextWord(c, bit) == set_lsbs(Correction(c, bit), Advice(c, bit))

\* What the layer loop of gen assigns.
LEMMA GenLayerFacts ==
  ASSUME GenLayer
  PROVE  LET c == Expanded(job.prgkey, nodes) IN
           nodes' = NextNodes(c, nodes, Turn(layer)) /\ cws' = Append(cws, NextWord(c, Turn(layer)))
  BY DEF GenLayer, Expanded, Advice, Correction, NextNodes, NextWord, Turn

\* A block with new lsbs, without them, and one of them.
LEMMA LsbFacts ==
  ASSUME NEW b, NEW v, \A i \in Two : i \notin b
  PROVE  /\ \A d \in Two : get_lsb(set_lsbs(b, v), d) <=> v[d]
         /\ set_lsbs(b, v) \ {0, 1} = b
  BY DEF set_lsbs, get_lsb, Two

\* Both parties take the correction word to nodes whose advice bits still differ
\* on the path, and to one and the same node off it.
LEMMA LayerCorrects ==
  ASSUME NEW k, NEW nd \in [Two -> Node], nd[0].t # nd[1].t, NEW bit \in Two
  PROVE  LET c == Expanded(k, nd) IN
           /\ \A p \in Two : NextNodes(c, nd, bit)[p] = traverse_(k, nd[p], bit, NextWord(c, bit))
           /\ traverse_(k, nd[0], 1 - bit, NextWord(c, bit)) = traverse_(k, nd[1], 1 - bit, NextWord(c, bit))
           /\ NextNodes(c, nd, bit)[0].t # NextNodes(c, nd, bit)[1].t
<1> DEFINE c == Expanded(k, nd)
           G(p, d) == PRG(k, clear_lsb(nd[p].s, {0, 1}), d)
           off == 1 - bit
           adv == Advice(c, bit)
           cor == Correction(c, bit)
           cw == NextWord(c, bit)
<1>1. 0 \in Two /\ 1 \in Two BY DEF Two
<1>2. off \in Two /\ off # bit /\ (bit = IF bit = L THEN 0 ELSE 1) /\ ~(bit = IF off = L THEN 0 ELSE 1)
  <2>1. CASE bit = 0 BY <2>1 DEF Two, L
  <2>2. CASE bit = 1 BY <2>2 DEF Two, L
  <2> QED BY <2>1, <2>2 DEF Two
<1>3. \A p, d \in Two : c[p][d].s = G(p, d) \ {0, 1} /\ c[p][d].t = (0 \in G(p, d))
  BY DEF Expanded, expand, clear_lsb, get_lsb
<1>3a. ASSUME NEW p \in Two, NEW d \in Two PROVE c[p][d].t \in BOOLEAN
  <2>1. c[p][d].t = (0 \in G(p, d)) BY <1>3
  <2> HIDE DEF c, G
  <2>2. CASE 0 \in G(p, d) BY <2>1, <2>2
  <2>3. CASE ~(0 \in G(p, d)) BY <2>1, <2>3
  <2> QED BY <2>2, <2>3
<1>4. \A p \in Two : nd[p].t \in BOOLEAN BY DEF Node
<1> HIDE DEF G, off
<1>5. adv[bit] <=> ~(c[0][bit].t # c[1][bit].t) BY <1>2, <1>3, <1>1 DEF Advice
<1>6. adv[off] <=> (c[0][off].t # c[1][off].t) BY <1>2, <1>3, <1>1 DEF Advice
<1>7. cor = Xor(G(0, off) \ {0, 1}, G(1, off) \ {0, 1}) BY <1>1, <1>2, <1>3, ZenonT(60) DEF Correction, off
<1>8. \A i \in Two : i \notin cor BY <1>7 DEF Xor, Two
<1>9. (\A d \in Two : get_lsb(cw, d) <=> adv[d]) /\ cw \ {0, 1} = cor BY <1>8, LsbFacts DEF NextWord
<1> HIDE DEF c, adv, cor, cw
<1>10. ASSUME NEW p \in Two, NEW d \in Two
       PROVE  /\ traverse_(k, nd[p], d, cw).s = xor_if(c[p][d].s, cor, nd[p].t)
              /\ traverse_(k, nd[p], d, cw).t = (c[p][d].t # (adv[d] /\ nd[p].t))
              /\ traverse_(k, nd[p], d, cw) = [s |-> traverse_(k, nd[p], d, cw).s, t |-> traverse_(k, nd[p], d, cw).t]
  <2>1. traverse_(k, nd[p], d, cw) = [s |-> xor_if(G(p, d), cw, nd[p].t) \ {0, 1},
                                      t |-> (0 \in G(p, d)) # (get_lsb(cw, d) /\ nd[p].t)]
    BY DEF traverse_, G, clear_lsb, get_lsb
  <2>2. xor_if(G(p, d), cw, nd[p].t) \ {0, 1} = xor_if(G(p, d) \ {0, 1}, cor, nd[p].t)
    <3>1. \A a, b : Xor(a, b) \ {0, 1} = Xor(a \ {0, 1}, b \ {0, 1}) BY DEF Xor
    <3>2. CASE nd[p].t BY <1>9, <3>1, <3>2 DEF xor_if
    <3>3. CASE ~nd[p].t BY <3>3 DEF xor_if
    <3> QED BY <3>2, <3>3
  <2>3. ((0 \in G(p, d)) # (get_lsb(cw, d) /\ nd[p].t)) = (c[p][d].t # (adv[d] /\ nd[p].t))
    BY <1>3, <1>4, <1>9
  <2>4. c[p][d].s = G(p, d) \ {0, 1} BY <1>3
  <2>5. \A x, y, z : x = [s |-> y, t |-> z] => x.s = y /\ x.t = z /\ x = [s |-> x.s, t |-> x.t] OBVIOUS
  <2> QED BY <2>1, <2>2, <2>3, <2>4, <2>5
<1>11. ASSUME NEW p \in Two PROVE NextNodes(c, nd, bit)[p] = traverse_(k, nd[p], bit, cw)
  <2>1. NextNodes(c, nd, bit)[p] = [s |-> xor_if(c[p][bit].s, cor, nd[p].t),
                                    t |-> c[p][bit].t # (nd[p].t /\ adv[bit])]
    BY DEF NextNodes, cor, adv
  <2>2. (c[p][bit].t # (nd[p].t /\ adv[bit])) = (c[p][bit].t # (adv[bit] /\ nd[p].t)) OBVIOUS
  <2> QED BY <1>10, <2>1, <2>2
<1>12. NextNodes(c, nd, bit)[0].t # NextNodes(c, nd, bit)[1].t
  <2>1. \A p \in Two : NextNodes(c, nd, bit)[p].t = (c[p][bit].t # (adv[bit] /\ nd[p].t)) BY <1>10, <1>11
  <2>2. c[0][bit].t \in BOOLEAN /\ c[1][bit].t \in BOOLEAN BY <1>1, <1>3a
  <2> QED BY <1>1, <1>4, <1>5, <2>1, <2>2
<1>13. traverse_(k, nd[0], off, cw) = traverse_(k, nd[1], off, cw)
  <2>1. c[0][off].t \in BOOLEAN /\ c[1][off].t \in BOOLEAN BY <1>1, <1>2, <1>3a
  <2>2. (c[0][off].t # (adv[off] /\ nd[0].t)) = (c[1][off].t # (adv[off] /\ nd[1].t))
    BY <1>1, <1>4, <1>6, <2>1
  <2>3. xor_if(c[0][off].s, cor, nd[0].t) = xor_if(c[1][off].s, cor, nd[1].t)
    <3>1. cor = Xor(c[0][off].s, c[1][off].s) BY <1>1, <1>2, <1>3, <1>7
    <3>2. Xor(c[0][off].s, cor) = c[1][off].s /\ Xor(c[1][off].s, cor) = c[0][off].s
      BY <3>1 DEF Xor
    <3> QED BY <1>1, <1>4, <3>2 DEF xor_if
  <2> QED BY <1>1, <1>2, <1>10, <2>2, <2>3
<1> QED BY <1>11, <1>12, <1>13 DEF c, cw, off

-----------------------------------------------------------------------------
(* Bits of an index                                                        *)

\* A quotient is determined by its remainder.
LEMMA DivUnique ==
  ASSUME NEW m \in Nat \ {0}, NEW a \in Nat, NEW q \in Nat, NEW r \in 0 .. (m - 1), a = m * q + r
  PROVE  a \div m = q
<1>1. a % m = r BY ModUnique
<1>2. a \div m \in Int /\ a = m * (a \div m) + (a % m) OBVIOUS
<1>3. m * (a \div m) = m * q BY <1>1, <1>2
<1>4. \A x, y \in Int, z \in Nat \ {0} : z * x = z * y => x = y OBVIOUS
<1> QED BY <1>2, <1>3, <1>4

\* Quotient and remainder of natural numbers.
LEMMA DivNat ==
  ASSUME NEW m \in Nat \ {0}, NEW a \in Nat
  PROVE  /\ a \div m \in Nat /\ a % m \in 0 .. (m - 1) /\ a = m * (a \div m) + (a % m)
         /\ a < m => a \div m = 0
  OBVIOUS

\* Dividing by twice as much drops one bit.
LEMMA DivHalf ==
  ASSUME NEW m \in Nat \ {0}, NEW x \in Nat
  PROVE  /\ (x \div m) % 2 \in {0, 1}
         /\ x \div m = 2 * (x \div (2 * m)) + ((x \div m) % 2)
<1> DEFINE q == x \div m
           s == x % m
           h == q \div 2
           r == q % 2
<1>1. q \in Nat /\ s \in 0 .. (m - 1) /\ x = m * q + s BY DivNat
<1>2. h \in Nat /\ r \in {0, 1} /\ q = 2 * h + r BY <1>1
<1> HIDE DEF q, s, h, r
<1>3. x = (2 * m) * h + (m * r + s) BY <1>1, <1>2
<1>4. m * r + s \in 0 .. (2 * m - 1)
  <2>1. CASE r = 0 BY <1>1, <2>1
  <2>2. CASE r = 1 BY <1>1, <2>2
  <2> QED BY <1>2, <2>1, <2>2
<1>5. 2 * m \in Nat \ {0} OBVIOUS
<1>6. x \div (2 * m) = h BY <1>2, <1>3, <1>4, <1>5, DivUnique
<1> QED BY <1>2, <1>6 DEF q, h, r

\* The depth of the tree and the bits of an index, for this job.
LEMMA DepthFacts ==
  ASSUME JobOK
  PROVE  /\ job.nitems \in Nat \ {0} /\ job.target \in Nat
         /\ LPN \in Nat \ {0} /\ NPL \in Nat \ {0} /\ (Packed => NPL = 1) /\ (~Packed => LPN = 1)
         /\ input_bits(job.nitems) \in Nat /\ Depth \in Nat /\ Depth <= input_bits(job.nitems)
         /\ job.nitems <= 2 ^ input_bits(job.nitems)
         /\ \A k \in 0 .. input_bits(job.nitems) :
              2 ^ k \in Nat \ {0} /\ 2 ^ (k + 1) = 2 * 2 ^ k
         /\ \/ Depth = 0 /\ job.nitems <= LPN
            \/ 2 ^ (input_bits(job.nitems) - Depth) = LPN
<1>1. PICK y \in Layouts : job.lpn = y.lpn /\ job.npl = y.npl BY DEF JobOK
<1>2. job.nitems \in Sizes /\ job.target \in 0 .. job.nitems BY DEF JobOK
<1>3. job.nitems \in Nat \ {0} /\ job.target \in Nat
  <2>1. job.nitems \in Nat \ {0} BY <1>2, DpfSampleAssumption
  <2>2. \A x \in Nat : \A z \in 0 .. x : z \in Nat OBVIOUS
  <2> QED BY <1>2, <2>1, <2>2
<1>4. LPN \in Nat \ {0} /\ NPL \in Nat \ {0} /\ (LPN = 1 \/ NPL = 1) BY <1>1, LayoutFacts DEF LPN, NPL
<1> DEFINE b == CeilLog2(job.nitems)
           d == CeilLog2(CeilDiv(job.nitems, y.lpn))
<1>5. /\ b \in Nat /\ d \in 0 .. b /\ job.nitems <= 2 ^ b
      /\ \A k \in 0 .. b : 2 ^ k \in Nat \ {0} /\ 2 ^ (k + 1) = 2 * 2 ^ k
      /\ (d = 0 /\ job.nitems <= y.lpn) \/ 2 ^ (b - d) = y.lpn
  BY <1>2, DepthAssumption
<1>6. input_bits(job.nitems) = b /\ Depth = d BY <1>1 DEF input_bits, Depth, depth, LPN
<1>7. LPN = y.lpn BY <1>1 DEF LPN
<1> HIDE DEF b, d
<1>8. d \in Nat /\ d <= b BY <1>5
<1>9. (Packed => NPL = 1) /\ (~Packed => LPN = 1) BY <1>4 DEF Packed
<1> QED BY <1>3, <1>4, <1>5, <1>6, <1>7, <1>8, <1>9

\* The bit of x for layer l, and the node of x on the layer below.
LEMMA BitFacts ==
  ASSUME JobOK, NEW x \in Nat, NEW l \in 0 .. (Depth - 1)
  PROVE  /\ BitAt(job.nitems, x, l) \in Two
         /\ x \div 2 ^ (input_bits(job.nitems) - (l + 1))
              = 2 * (x \div 2 ^ (input_bits(job.nitems) - l)) + BitAt(job.nitems, x, l)
<1> DEFINE b == input_bits(job.nitems)
           k == b - l - 1
           m == 2 ^ k
<1>1. b \in Nat /\ Depth \in Nat /\ Depth <= b /\ \A i \in 0 .. b : 2 ^ i \in Nat \ {0} /\ 2 ^ (i + 1) = 2 * 2 ^ i
  BY DepthFacts
<1>2. BitAt(job.nitems, x, l) = (x \div m) % 2 BY DEF BitAt
<1> HIDE DEF b
<1>3. k \in 0 .. b /\ k + 1 = b - l /\ k = b - (l + 1) BY <1>1
<1>4. m \in Nat \ {0} /\ 2 ^ (k + 1) = 2 * m BY <1>1, <1>3
<1>5. 2 ^ (b - l) = 2 * m /\ 2 ^ (b - (l + 1)) = m BY <1>3, <1>4
<1> HIDE DEF m, k
<1>6. /\ (x \div m) % 2 \in {0, 1}
      /\ x \div m = 2 * (x \div (2 * m)) + ((x \div m) % 2)
  BY <1>4, DivHalf
<1> QED BY <1>2, <1>5, <1>6 DEF b, Two

\* Two leaves of one node are told apart by their lanes.
LEMMA SameLeaf ==
  ASSUME JobOK, NEW x \in 0 .. (job.nitems - 1), job.target < job.nitems,
         x \div 2 ^ (input_bits(job.nitems) - Depth) = job.target \div 2 ^ (input_bits(job.nitems) - Depth),
         x % LPN = job.target % LPN
  PROVE  x = job.target
<1>1. job.nitems \in Nat /\ job.target \in Nat /\ LPN \in Nat \ {0} /\ x \in Nat /\ x < job.nitems
  BY DepthFacts
<1>2. x = LPN * (x \div LPN) + (x % LPN) /\ job.target = LPN * (job.target \div LPN) + (job.target % LPN)
  BY <1>1, DivNat
<1>3. x \div LPN = job.target \div LPN
  <2>1. CASE job.nitems <= LPN
    <3>1. x < LPN /\ job.target < LPN BY <1>1, <2>1
    <3> QED BY <1>1, <3>1, DivNat
  <2>2. CASE 2 ^ (input_bits(job.nitems) - Depth) = LPN BY <2>2
  <2> QED BY <2>1, <2>2, DepthFacts
<1> QED BY <1>2, <1>3

\* The descent starts at the roots, for every index.
LEMMA FromTheTop ==
  ASSUME JobOK, NEW x \in 0 .. (job.nitems - 1)
  PROVE  x \div 2 ^ (input_bits(job.nitems) - 0) = 0
<1>1. /\ input_bits(job.nitems) \in Nat /\ job.nitems \in Nat
      /\ job.nitems <= 2 ^ input_bits(job.nitems) /\ 2 ^ input_bits(job.nitems) \in Nat \ {0}
  BY DepthFacts
<1> DEFINE m == 2 ^ input_bits(job.nitems)
<1>2. x \in Nat /\ m \in Nat \ {0} /\ x < m BY <1>1
<1>3. input_bits(job.nitems) - 0 = input_bits(job.nitems) BY <1>1
<1> HIDE DEF m
<1>4. x \div m = 0 BY <1>2, DivNat
<1> QED BY <1>3, <1>4 DEF m

-----------------------------------------------------------------------------
(* Keys on the wire                                                        *)

\* Where the elements of a concatenation are.
LEMMA Joined ==
  ASSUME NEW S, NEW s \in Seq(S), NEW u \in Seq(S)
  PROVE  /\ s \o u \in Seq(S) /\ Len(s \o u) = Len(s) + Len(u)
         /\ Len(s) \in Nat /\ Len(u) \in Nat
         /\ \A i \in 1 .. Len(s) : (s \o u)[i] = s[i]
         /\ \A i \in 1 .. Len(u) : (s \o u)[Len(s) + i] = u[i]
  BY ConcatProperties

\* recv_dpf_key rebuilds what send wrote.
LEMMA RoundTrip ==
  ASSUME NEW n, NEW root, NEW pk, NEW c \in Seq(XWord), NEW fin, fin = [w \in WordsOfLeaf |-> fin[w]],
         NPL \in Nat \ {0}
  PROVE  deserialize_dpf_key(serialize_dpf_key(dpf_key(n, root, c, fin, pk))) = dpf_key(n, root, c, fin, pk)
<1> DEFINE k == dpf_key(n, root, c, fin, pk)
           S == {n, root, Len(c), pk} \cup XWord \cup {fin[w] : w \in WordsOfLeaf}
           l == Len(c)
           s1 == <<n, root, l>>
           s2 == [w \in 1 .. NPL |-> fin[w - 1]]
           s3 == <<pk>>
           f1 == s1 \o c
           f2 == f1 \o s2
           f == f2 \o s3
<1>1. serialize_dpf_key(k) = f BY DEF serialize_dpf_key, dpf_key
<1>2. l \in Nat OBVIOUS
<1>3. s1 \in Seq(S) /\ Len(s1) = 3 /\ s1[1] = n /\ s1[2] = root /\ s1[3] = l OBVIOUS
<1>4. c \in Seq(S)
  <2>1. \A i \in 1 .. Len(c) : c[i] \in XWord OBVIOUS
  <2>2. \A i \in 1 .. Len(c) : c[i] \in S BY <2>1
  <2> HIDE DEF S
  <2> QED BY <2>2
<1>5. s2 \in Seq(S) /\ Len(s2) = NPL
  <2>1. \A w \in 1 .. NPL : w - 1 \in WordsOfLeaf BY DEF WordsOfLeaf
  <2>2. \A w \in 1 .. NPL : fin[w - 1] \in S BY <2>1
  <2> HIDE DEF S
  <2>3. s2 \in [1 .. NPL -> S] BY <2>2
  <2>4. \A m \in Nat : \A g \in [1 .. m -> S] : g \in Seq(S) /\ Len(g) = m OBVIOUS
  <2> QED BY <2>3, <2>4
<1>6. s3 \in Seq(S) /\ Len(s3) = 1 /\ s3[1] = pk OBVIOUS
<1> HIDE DEF s1, s3, S, l
<1>j. \A a, b \in Seq(S) : /\ a \o b \in Seq(S) /\ Len(a \o b) = Len(a) + Len(b)
                           /\ \A i \in 1 .. Len(a) : (a \o b)[i] = a[i]
                           /\ \A i \in 1 .. Len(b) : (a \o b)[Len(a) + i] = b[i]
  BY Joined
<1>7. /\ f1 \in Seq(S) /\ Len(f1) = 3 + l
      /\ \A i \in 1 .. 3 : f1[i] = s1[i]
      /\ \A i \in 1 .. l : f1[3 + i] = c[i]
  <2>1. /\ f1 \in Seq(S) /\ Len(f1) = Len(s1) + Len(c)
        /\ \A i \in 1 .. Len(s1) : f1[i] = s1[i]
        /\ \A i \in 1 .. Len(c) : f1[Len(s1) + i] = c[i]
    <3> HIDE DEF s2
    <3> QED BY <1>3, <1>4, <1>j
  <2> QED BY <1>3, <2>1 DEF l
<1> HIDE DEF f1, s2
<1>8. /\ f2 \in Seq(S) /\ Len(f2) = 3 + l + NPL
      /\ \A i \in 1 .. (3 + l) : f2[i] = f1[i]
      /\ \A i \in 1 .. NPL : f2[3 + l + i] = s2[i]
  <2>1. /\ f2 \in Seq(S) /\ Len(f2) = Len(f1) + Len(s2)
        /\ \A i \in 1 .. Len(f1) : f2[i] = f1[i]
        /\ \A i \in 1 .. Len(s2) : f2[Len(f1) + i] = s2[i]
    BY <1>5, <1>7, <1>j
  <2> QED BY <1>5, <1>7, <2>1
<1> HIDE DEF f2
<1>9. /\ f \in Seq(S) /\ Len(f) = 4 + l + NPL
      /\ \A i \in 1 .. (3 + l + NPL) : f[i] = f2[i]
      /\ f[4 + l + NPL] = pk
  <2>1. /\ f \in Seq(S) /\ Len(f) = Len(f2) + Len(s3)
        /\ \A i \in 1 .. Len(f2) : f[i] = f2[i]
        /\ \A i \in 1 .. Len(s3) : f[Len(f2) + i] = s3[i]
    BY <1>6, <1>8, <1>j
  <2>2. 3 + l + NPL + 1 = 4 + l + NPL /\ 1 \in 1 .. 1 BY <1>2
  <2> QED BY <1>6, <1>8, <2>1, <2>2
<1> HIDE DEF f
<1>10. f[1] = n /\ f[2] = root /\ f[3] = l
  <2>1. \A i \in 1 .. 3 : i \in 1 .. (3 + l) /\ i \in 1 .. (3 + l + NPL) BY <1>2
  <2>2. \A i \in 1 .. 3 : f[i] = s1[i] BY <1>7, <1>8, <1>9, <2>1
  <2> QED BY <1>3, <2>2
<1>11. SubSeq(f, 4, 3 + l) = c
  <2>1. ASSUME NEW i \in 1 .. l PROVE f[3 + i] = c[i]
    <3>1. 3 + i \in 1 .. (3 + l) /\ 3 + i \in 1 .. (3 + l + NPL) BY <1>2
    <3> QED BY <1>7, <1>8, <1>9, <3>1
  <2>2. SubSeq(f, 4, 3 + l) = [i \in 1 .. l |-> f[3 + i]]
    <3>1. \A i \in 1 .. l : 4 + i - 1 = 3 + i BY <1>2
    <3>2. (3 + l) - 4 + 1 = l BY <1>2
    <3> QED BY <1>2, <1>9, <3>1, <3>2
  <2>3. c = [i \in 1 .. l |-> c[i]] BY DEF l
  <2> QED BY <2>1, <2>2, <2>3
<1>12. \A w \in WordsOfLeaf : f[4 + l + w] = fin[w]
  <2> SUFFICES ASSUME NEW w \in WordsOfLeaf PROVE f[4 + l + w] = fin[w] OBVIOUS
  <2>1. w \in Nat /\ w + 1 \in 1 .. NPL BY DEF WordsOfLeaf
  <2>2. 4 + l + w = 3 + l + (w + 1) /\ 4 + l + w \in 1 .. (3 + l + NPL) BY <1>2, <2>1, SMTT(60)
  <2>3. s2[w + 1] = fin[w] BY <2>1 DEF s2
  <2> QED BY <1>8, <1>9, <2>1, <2>2, <2>3
<1>13. deserialize_dpf_key(f) = dpf_key(f[1], f[2], SubSeq(f, 4, 3 + l), [w \in WordsOfLeaf |-> f[4 + l + w]],
                                        f[4 + l + NPL])
  BY <1>10 DEF deserialize_dpf_key
<1> QED BY <1>1, <1>9, <1>10, <1>11, <1>12, <1>13

-----------------------------------------------------------------------------
(* Types and frames                                                        *)

\* One step down the tree stays among the nodes.
LEMMA ChildTyped ==
  ASSUME JobOK, NEW node \in Node, NEW d \in Two, NEW cw \in XWord
  PROVE  Child(node, d, cw) \in Node
<1> DEFINE c == PRG(job.prgkey, clear_lsb(node.s, {0, 1}), d)
<1>1. node.s \in XWord BY DEF Node
<1>2. c \in XWord BY <1>1, PrgFacts
<1> HIDE DEF c
<1>3. xor_if(c, cw, node.t) \in XWord BY <1>2, WordXor DEF xor_if
<1>4. clear_lsb(xor_if(c, cw, node.t), {0, 1}) \in XWord BY <1>3 DEF clear_lsb, XWord
<1>5. Child(node, d, cw) = [s |-> clear_lsb(xor_if(c, cw, node.t), {0, 1}),
                            t |-> get_lsb(c, 0) # (get_lsb(cw, d) /\ node.t)]
  BY DEF Child, traverse_, c
<1>6. (get_lsb(c, 0) # (get_lsb(cw, d) /\ node.t)) \in BOOLEAN OBVIOUS
<1> QED BY <1>4, <1>5, <1>6 DEF Node

\* The correction word of a layer is a block.
LEMMA WordTyped ==
  ASSUME JobOK, NEW nd \in [Two -> Node], NEW bit \in Two
  PROVE  NextWord(Expanded(job.prgkey, nd), bit) \in XWord
<1> DEFINE c == Expanded(job.prgkey, nd)
<1>1. 0 \in Two /\ 1 \in Two /\ 1 - bit \in Two BY TwoFacts DEF Two
<1>2. ASSUME NEW p \in Two PROVE c[p][1 - bit].s \in XWord
  <2>1. nd[p].s \in XWord BY DEF Node
  <2>2. PRG(job.prgkey, clear_lsb(nd[p].s, {0, 1}), 1 - bit) \in XWord BY <1>1, <2>1, PrgFacts
  <2>3. c[p][1 - bit].s = clear_lsb(PRG(job.prgkey, clear_lsb(nd[p].s, {0, 1}), 1 - bit), {0, 1})
    BY <1>1 DEF Expanded, expand
  <2> QED BY <2>2, <2>3 DEF clear_lsb, XWord
<1>3. Correction(c, bit) \in XWord BY <1>1, <1>2, WordXor DEF Correction
<1>4. Two \subseteq 0 .. (W - 1)
  <2>1. PICK y \in Layouts : job.lpn = y.lpn BY DEF JobOK
  <2> QED BY LayoutFacts DEF Two
<1> HIDE DEF c
<1> QED BY <1>3, <1>4 DEF NextWord, set_lsbs, XWord, c

\* What depends on the job alone.
LEMMA JobFixed ==
  ASSUME job' = job
  PROVE  /\ JobOK => JobOK'
         /\ Depth' = Depth /\ WordsOfLeaf' = WordsOfLeaf
         /\ \A l : Turn(l)' = Turn(l)
         /\ \A x, l : OnPath(x, l)' <=> OnPath(x, l)
<1>1. Packed' = Packed /\ Lane' = Lane /\ WordsOfLeaf' = WordsOfLeaf
  BY DEF Packed, Lane, LPN, NPL, WordsOfLeaf
<1>2. JobOK => JobOK' BY <1>1 DEF JobOK
<1>3. Depth' = Depth BY DEF Depth, depth, LPN
<1>4. (\A l : Turn(l)' = Turn(l)) /\ \A x, l : OnPath(x, l)' <=> OnPath(x, l)
  BY DEF Turn, OnPath
<1> QED BY <1>1, <1>2, <1>3, <1>4

\* What depends on what gen has made.
LEMMA KeysFixed ==
  ASSUME job' = job, roots' = roots, cws' = cws
  PROVE  /\ \A tr, l : Path(tr, l) => Path(tr, l)'
         /\ \A p, tr : KeyOf(p, tr)' = KeyOf(p, tr)
<1>1. RootNodes' = RootNodes BY DEF RootNodes
<1>2. \A l : Turn(l)' = Turn(l) BY JobFixed
<1>3. \A a, b, c : Child(a, b, c)' = Child(a, b, c) BY DEF Child
<1>4. \A tr, l : Path(tr, l) => Path(tr, l)' BY <1>1, <1>2, <1>3 DEF Path
<1>5. Depth' = Depth /\ WordsOfLeaf' = WordsOfLeaf BY JobFixed
<1>6. ASSUME NEW tr PROVE Finalizer(tr)' = Finalizer(tr)
  BY <1>5 DEF Finalizer, make_finalizer, stretch_leaf, Packed, make_vec, Lane, LPN
<1>7. \A p, tr : KeyOf(p, tr)' = KeyOf(p, tr) BY <1>6 DEF KeyOf, dpf_key
<1> QED BY <1>4, <1>7

\* Steps after Receive leave the keys alone.
LEMMA MadeKept ==
  ASSUME job' = job, roots' = roots, cws' = cws, key' = key, pc' \notin {"sent", "eval"}, pc # "sent",
         NEW tr, Made(tr)
  PROVE  Made(tr)'
<1>1. Path(tr, Depth)' BY KeysFixed, JobFixed DEF Made
<1>2. \A p \in Two : key'[p] = KeyOf(p, tr)' BY KeysFixed DEF Made
<1> QED BY <1>1, <1>2 DEF Made

\* The same for the whole invariant.
LEMMA AfterKeys ==
  ASSUME DpfInv, Types', job' = job, roots' = roots, cws' = cws, key' = key,
         pc \in {"ready", "eval", "layers"}, pc' \in {"layers", "expanded"}
  PROVE  DpfInv'
<1>1. JobOK' BY JobFixed DEF DpfInv
<1>2. job'.target < job'.nitems BY DEF DpfInv
<1>3. PICK tr : Made(tr) BY DEF DpfInv
<1>4. Made(tr)' BY <1>3, MadeKept
<1>5. Len(cws') = Depth' BY JobFixed DEF DpfInv
<1>6. PointCorrect' BY DEF PointCorrect
<1> QED BY <1>1, <1>2, <1>4, <1>5, <1>6 DEF DpfInv

\* Before gen there is nothing to explain.
LEMMA InitInv == Init => DpfInv
<1> SUFFICES ASSUME Init PROVE DpfInv OBVIOUS
<1>1. PICK y \in Layouts : \E n \in Sizes :
        job \in [lpn : {y.lpn}, npl : {y.npl}, prgkey : PrgKeys, nitems : {n},
               target : 0 .. n,
               val : IF y.lpn > 1 THEN {v \cap (0 .. (W \div y.lpn - 1)) : v \in Vals}
                     ELSE [0 .. (y.npl - 1) -> Vals]]
  BY DEF Init
<1>2. PICK n \in Sizes :
        job \in [lpn : {y.lpn}, npl : {y.npl}, prgkey : PrgKeys, nitems : {n},
               target : 0 .. n,
               val : IF y.lpn > 1 THEN {v \cap (0 .. (W \div y.lpn - 1)) : v \in Vals}
                     ELSE [0 .. (y.npl - 1) -> Vals]]
  BY <1>1
<1>3. JobOK
  <2>1. job.lpn = y.lpn /\ job.npl = y.npl /\ job.prgkey \in PrgKeys /\ job.nitems = n /\ job.target \in 0 .. n
    BY <1>2
  <2>2. CASE y.lpn > 1
    <3>1. job.val \in {v \cap (0 .. (W \div y.lpn - 1)) : v \in Vals} BY <1>2, <2>2
    <3>2. job.val \subseteq 0 .. (W \div y.lpn - 1) BY <3>1
    <3> QED BY <2>1, <2>2, <3>2 DEF JobOK, Packed, Lane, LPN
  <2>3. CASE ~(y.lpn > 1)
    <3>1. job.val \in [0 .. (y.npl - 1) -> Vals] BY <1>2, <2>3
    <3>2. job.val \in [0 .. (y.npl - 1) -> XWord] BY <3>1, DpfSampleAssumption
    <3> QED BY <2>1, <2>3, <3>2 DEF JobOK, Packed, LPN, NPL, WordsOfLeaf
  <2> QED BY <2>2, <2>3
<1>4. Types
  <2>1. {} \in XWord BY DEF XWord
  <2>2. Depth \in Nat BY <1>3, DepthFacts
  <2>3. cws = <<>> /\ layer = 0 /\ pos = 0 /\ pc = "start" BY DEF Init
  <2>4. roots \in [Two -> XWord] BY <2>1 DEF Init
  <2>5. nodes \in [Two -> [s : XWord, t : BOOLEAN]] BY <2>1 DEF Init
  <2>6. cws \in Seq(XWord) /\ Len(cws) <= Depth BY <2>2, <2>3
  <2> QED BY <2>2, <2>3, <2>4, <2>5, <2>6 DEF Types
<1> QED BY <1>3, <1>4 DEF DpfInv, Init, PointCorrect

-----------------------------------------------------------------------------
(* gen                                                                     *)

\* gen refuses a target that is out of range.
LEMMA GenThrowInv == ASSUME DpfInv, GenThrow PROVE DpfInv'
<1>1. /\ job' = job /\ roots' = roots /\ cws' = cws /\ layer' = layer /\ pos' = pos /\ nodes' = nodes
      /\ pc' = "thrown"
  BY DEF GenThrow, genvars, evalvars
<1>2. JobOK' /\ Depth' = Depth BY <1>1, JobFixed DEF DpfInv
<1>3. Types' BY <1>1, <1>2 DEF DpfInv, Types
<1> QED BY <1>1, <1>2, <1>3 DEF DpfInv, PointCorrect

\* gen traps on the division by zero.
LEMMA GenTrapInv == ASSUME DpfInv, GenTrap PROVE DpfInv'
<1>1. /\ job' = job /\ roots' = roots /\ cws' = cws /\ layer' = layer /\ pos' = pos /\ nodes' = nodes
      /\ pc' = "thrown"
  BY DEF GenTrap, genvars, evalvars
<1>2. JobOK' /\ Depth' = Depth BY <1>1, JobFixed DEF DpfInv
<1>3. Types' BY <1>1, <1>2 DEF DpfInv, Types
<1> QED BY <1>1, <1>2, <1>3 DEF DpfInv, PointCorrect

\* The roots differ in their advice bits, so the empty path is one.
LEMMA GenStartInv == ASSUME DpfInv, GenStart PROVE DpfInv'
<1>1. /\ job' = job /\ cws' = cws /\ pos' = pos /\ layer' = 0 /\ pc' = "gen" /\ pc = "start"
      /\ job.target < job.nitems
  BY DEF GenStart, evalvars
<1>2. PICK r \in [Two -> Roots] : roots' = [r EXCEPT ![1] = set_lsb(r[1], ~get_lsb(r[0], 0))]
  BY DEF GenStart
<1>3. nodes' = [p \in Two |-> [s |-> roots'[p], t |-> get_lsb(roots'[p], 0)]] BY DEF GenStart
<1>4. JobOK' /\ Depth' = Depth /\ Depth \in Nat BY <1>1, JobFixed, DepthFacts DEF DpfInv
<1>5. 0 \in Two /\ 1 \in Two BY DEF Two
<1>6. roots' \in [Two -> XWord]
  <2>1. \A p \in Two : r[p] \in XWord BY DpfSampleAssumption
  <2>2. 0 \in 0 .. (W - 1)
    <3>1. PICK y \in Layouts : job.lpn = y.lpn BY DEF DpfInv, JobOK
    <3> QED BY LayoutFacts
  <2>3. set_lsb(r[1], ~get_lsb(r[0], 0)) \in XWord BY <1>5, <2>1, <2>2 DEF set_lsb, XWord
  <2> QED BY <1>2, <2>1, <2>3
<1>7. nodes' \in [Two -> [s : XWord, t : BOOLEAN]] BY <1>3, <1>6 DEF get_lsb
<1>8. cws' = <<>> /\ cws' \in Seq(XWord) /\ Len(cws') = 0 BY <1>1 DEF DpfInv
<1>9. Types' BY <1>1, <1>4, <1>6, <1>7, <1>8 DEF DpfInv, Types
<1>10. nodes'[0].t # nodes'[1].t
  <2>1. roots'[0] = r[0] /\ roots'[1] = set_lsb(r[1], ~get_lsb(r[0], 0)) BY <1>2, <1>5
  <2>2. (0 \in roots'[1]) <=> ~(0 \in roots'[0]) BY <2>1 DEF set_lsb, get_lsb
  <2>3. nodes'[0].t = (0 \in roots'[0]) /\ nodes'[1].t = (0 \in roots'[1]) BY <1>3, <1>5 DEF get_lsb
  <2> QED BY <2>2, <2>3
<1>11. Making'
  <2>1. PICK nn : nn = nodes' OBVIOUS
  <2> DEFINE tr == [i \in {0} |-> nn]
  <2>2. tr[0] = nodes' BY <2>1
  <2>3. RootNodes' = nodes' BY <1>3 DEF RootNodes
  <2> HIDE DEF tr
  <2>4. \A i \in 0 .. (0 - 1) : FALSE OBVIOUS
  <2>5. \A i \in 0 .. 0 : i = 0 OBVIOUS
  <2>6. Path(tr, 0)' BY <1>10, <2>2, <2>3, <2>4, <2>5 DEF Path
  <2>7. Path(tr, layer)' BY <1>1, <2>6 DEF Path
  <2> QED BY <1>1, <2>2, <2>7 DEF Making
<1> QED BY <1>1, <1>4, <1>8, <1>9, <1>11 DEF DpfInv, PointCorrect

\* The correction word of a layer extends the path by the nodes it makes.
LEMMA GenLayerInv == ASSUME DpfInv, GenLayer PROVE DpfInv'
<1> DEFINE bit == Turn(layer)
           c == Expanded(job.prgkey, nodes)
           w == NextWord(c, bit)
<1>1. /\ job' = job /\ roots' = roots /\ pos' = pos /\ layer' = layer + 1 /\ pc' = "gen" /\ pc = "gen"
      /\ layer < Depth
  BY DEF GenLayer, evalvars, Depth
<1>2. nodes' = NextNodes(c, nodes, bit) /\ cws' = Append(cws, w) BY GenLayerFacts
<1>3. JobOK /\ JobOK' /\ Depth' = Depth /\ Depth \in Nat BY <1>1, JobFixed, DepthFacts DEF DpfInv
<1>4. layer \in Nat /\ layer \in 0 .. (Depth - 1) /\ layer + 1 \in 0 .. Depth BY <1>1, <1>3 DEF DpfInv, Types
<1>5. bit \in Two BY <1>3, <1>4, BitFacts, DepthFacts DEF Turn
<1>6. nodes \in [Two -> Node] BY DEF DpfInv, Types, Node
<1>7. cws \in Seq(XWord) /\ Len(cws) = layer BY <1>1 DEF DpfInv, Types
<1>8. w \in XWord BY <1>3, <1>5, <1>6, WordTyped
<1>9. PICK tr : Path(tr, layer) /\ tr[layer] = nodes BY <1>1 DEF DpfInv, Making
<1>10. nodes[0].t # nodes[1].t BY <1>4, <1>9 DEF Path
<1>11. /\ \A p \in Two : nodes'[p] = Child(nodes[p], bit, w)
       /\ Child(nodes[0], 1 - bit, w) = Child(nodes[1], 1 - bit, w)
       /\ nodes'[0].t # nodes'[1].t
  <2> HIDE DEF bit
  <2> QED BY <1>2, <1>5, <1>6, <1>10, LayerCorrects DEF Child
<1>12. nodes' \in [Two -> [s : XWord, t : BOOLEAN]]
  <2>1. nodes' = [p \in Two |-> nodes'[p]] BY <1>2 DEF NextNodes
  <2> HIDE DEF bit, w
  <2>2. \A p \in Two : nodes'[p] \in Node BY <1>3, <1>5, <1>6, <1>8, <1>11, ChildTyped
  <2> QED BY <2>1, <2>2 DEF Node
<1>12a. nodes' = [p \in Two |-> Child(nodes[p], bit, w)]
  <2>1. nodes' = [p \in Two |-> nodes'[p]] BY <1>2 DEF NextNodes
  <2> HIDE DEF bit, w
  <2> QED BY <1>11, <2>1
<1> HIDE DEF w, c
<1>13. /\ cws' \in Seq(XWord) /\ Len(cws') = layer + 1 /\ cws'[layer + 1] = w
       /\ \A i \in 0 .. (layer - 1) : cws'[i + 1] = cws[i + 1]
  BY <1>2, <1>4, <1>7, <1>8
<1>14. Types' BY <1>1, <1>3, <1>4, <1>12, <1>13 DEF DpfInv, Types
<1>15. Making'
  <2>1. PICK nn : nn = nodes' OBVIOUS
  <2>2. PICK l : l = layer OBVIOUS
  <2> DEFINE tr2 == [i \in 0 .. (l + 1) |-> IF i = l + 1 THEN nn ELSE tr[i]]
  <2>3. tr2[l + 1] = nodes' /\ \A i \in 0 .. l : tr2[i] = tr[i] BY <1>4, <2>1, <2>2
  <2> HIDE DEF tr2
  <2>4. tr2[0] = RootNodes'
    <3>1. RootNodes' = RootNodes BY <1>1 DEF RootNodes
    <3> QED BY <1>4, <1>9, <2>2, <2>3, <3>1 DEF Path
  <2>5. \A i : Turn(i)' = Turn(i) BY <1>1, JobFixed
  <2>6. \A x, y, z : Child(x, y, z)' = Child(x, y, z) BY <1>1 DEF Child
  <2>7. ASSUME NEW i \in 0 .. l
        PROVE  /\ tr2[i + 1] = [p \in Two |-> Child(tr2[i][p], Turn(i), cws'[i + 1])]
               /\ Child(tr2[i][0], 1 - Turn(i), cws'[i + 1]) = Child(tr2[i][1], 1 - Turn(i), cws'[i + 1])
    <3>1. CASE i = l
      BY <1>4, <1>9, <1>11, <1>12a, <1>13, <2>2, <2>3, <3>1
    <3>2. CASE i # l
      <4>1. i \in 0 .. (l - 1) /\ i \in 0 .. l /\ i + 1 \in 0 .. l BY <1>4, <2>2, <3>2
      <4>2. cws'[i + 1] = cws[i + 1] BY <1>13, <2>2, <4>1
      <4>3. tr2[i] = tr[i] /\ tr2[i + 1] = tr[i + 1] BY <2>3, <4>1
      <4> QED BY <1>9, <2>2, <4>1, <4>2, <4>3 DEF Path
    <3> QED BY <3>1, <3>2
  <2>8. ASSUME NEW i \in 0 .. (l + 1) PROVE tr2[i][0].t # tr2[i][1].t
    <3>1. CASE i = l + 1 BY <1>11, <2>3, <3>1
    <3>2. CASE i # l + 1
      <4>1. i \in 0 .. l BY <1>4, <2>2, <3>2
      <4> QED BY <1>9, <2>2, <2>3, <4>1 DEF Path
    <3> QED BY <3>1, <3>2
  <2>9. layer' = l + 1 /\ layer' - 1 = l BY <1>1, <1>4, <2>2
  <2>10. Path(tr2, layer)'
    <3>1. \A i \in 0 .. (layer' - 1) :
            /\ tr2[i + 1] = [p \in Two |-> Child(tr2[i][p], Turn(i), cws[i + 1])']
            /\ Child(tr2[i][0], 1 - Turn(i), cws[i + 1])' = Child(tr2[i][1], 1 - Turn(i), cws[i + 1])'
      BY <1>1, <2>5, <2>7, <2>9 DEF Child
    <3> QED BY <2>4, <2>8, <2>9, <3>1 DEF Path
  <2> QED BY <2>3, <2>9, <2>10 DEF Making
<1>16. job'.target < job'.nitems BY <1>1 DEF DpfInv
<1> QED BY <1>1, <1>3, <1>13, <1>14, <1>15, <1>16 DEF DpfInv, PointCorrect

\* The keys that gen sends.
LEMMA GenFinishInv == ASSUME DpfInv, GenFinish PROVE DpfInv'
<1>1. /\ job' = job /\ roots' = roots /\ cws' = cws /\ nodes' = nodes /\ pos' = pos /\ layer' = layer
      /\ pc' = "sent" /\ pc = "gen" /\ layer = Depth
  BY DEF GenFinish, evalvars, Depth
<1>2. JobOK' /\ Depth' = Depth BY <1>1, JobFixed DEF DpfInv
<1>3. Types' BY <1>1, <1>2 DEF DpfInv, Types
<1>4. PICK tr : Path(tr, layer) /\ tr[layer] = nodes BY <1>1 DEF DpfInv, Making
<1>5. \A p \in Two : wire'[p] = serialize_dpf_key(KeyOf(p, tr))
  <2>1. [p \in Two |-> nodes[p].s] = [p \in Two |-> tr[Depth][p].s] BY <1>1, <1>4
  <2> QED BY <2>1 DEF GenFinish, KeyOf, Finalizer
<1>6. \A k : serialize_dpf_key(k)' = serialize_dpf_key(k) BY <1>1 DEF serialize_dpf_key, NPL
<1>7. Made(tr)'
  <2>1. Path(tr, Depth)' BY <1>1, <1>2, <1>4, KeysFixed
  <2>2. \A p \in Two : KeyOf(p, tr)' = KeyOf(p, tr) BY <1>1, KeysFixed
  <2>3. \A p \in Two : wire'[p] = serialize_dpf_key(KeyOf(p, tr))' BY <1>1, <1>5, <2>2 DEF serialize_dpf_key, NPL
  <2> QED BY <1>1, <2>1, <2>3 DEF Made
<1>8. Len(cws') = Depth' /\ job'.target < job'.nitems BY <1>1, <1>2 DEF DpfInv
<1> QED BY <1>1, <1>2, <1>3, <1>7, <1>8 DEF DpfInv, PointCorrect

\* recv_dpf_key gets the keys that gen sent.
LEMMA ReceiveInv == ASSUME DpfInv, Receive PROVE DpfInv'
<1>1. /\ job' = job /\ roots' = roots /\ cws' = cws /\ nodes' = nodes /\ pos' = pos /\ layer' = layer
      /\ pc' = "ready" /\ pc = "sent"
  BY DEF Receive, evalvars
<1>2. JobOK' /\ Depth' = Depth BY <1>1, JobFixed DEF DpfInv
<1>3. Types' BY <1>1, <1>2 DEF DpfInv, Types
<1>4. PICK tr : Made(tr) BY <1>1 DEF DpfInv
<1>5. ASSUME NEW p \in Two PROVE key'[p] = KeyOf(p, tr)
  <2>1. key'[p] = deserialize_dpf_key(serialize_dpf_key(KeyOf(p, tr))) BY <1>1, <1>4 DEF Receive, Made
  <2>2. Finalizer(tr) = [w \in WordsOfLeaf |-> Finalizer(tr)[w]] BY DEF Finalizer, make_finalizer
  <2>3. cws \in Seq(XWord) BY DEF DpfInv, Types
  <2>4. NPL \in Nat \ {0} BY DepthFacts DEF DpfInv
  <2> QED BY <2>1, <2>2, <2>3, <2>4, RoundTrip DEF KeyOf
<1>6. Made(tr)'
  <2>1. Path(tr, Depth)' BY <1>1, <1>2, <1>4, KeysFixed DEF Made
  <2>2. \A p \in Two : key'[p] = KeyOf(p, tr)' BY <1>1, <1>5, KeysFixed
  <2> QED BY <1>1, <2>1, <2>2 DEF Made
<1>7. Len(cws') = Depth' /\ job'.target < job'.nitems BY <1>1, <1>2 DEF DpfInv
<1> QED BY <1>1, <1>2, <1>3, <1>6, <1>7 DEF DpfInv, PointCorrect

-----------------------------------------------------------------------------
(* eval                                                                    *)

\* One more layer on the path.
LEMMA OnPathStep ==
  ASSUME NEW x, NEW l \in Nat
  PROVE  OnPath(x, l + 1) <=> OnPath(x, l) /\ BitAt(job.nitems, x, l) = Turn(l)
<1>1. l + 1 - 1 = l /\ \A i \in 0 .. l : i = l \/ i \in 0 .. (l - 1) OBVIOUS
<1>2. l \in 0 .. l /\ \A i \in 0 .. (l - 1) : i \in 0 .. l OBVIOUS
<1> QED BY <1>1, <1>2 DEF OnPath, Turn

\* The fields of a key.
LEMMA KeyFields ==
  ASSUME NEW p, NEW tr
  PROVE  /\ KeyOf(p, tr).root = roots[p] /\ KeyOf(p, tr).prgkey = job.prgkey
         /\ KeyOf(p, tr).nitems = job.nitems /\ KeyOf(p, tr).cw = cws
         /\ KeyOf(p, tr).finalizer = Finalizer(tr)
  BY DEF KeyOf, dpf_key

\* eval starts at the root of its key, which is where the path starts.
LEMMA EvalStartInv == ASSUME DpfInv, EvalStart PROVE DpfInv'
<1>1. /\ job' = job /\ roots' = roots /\ cws' = cws /\ key' = key /\ pos' = pos /\ layer' = 0
      /\ pc' = "eval" /\ pc = "ready"
  BY DEF EvalStart, genvars
<1>2. PICK x \in 0 .. (job.nitems - 1) : arg' = [input |-> x] BY DEF EvalStart
<1>3. JobOK /\ JobOK' /\ Depth' = Depth /\ Depth \in Nat BY <1>1, JobFixed, DepthFacts DEF DpfInv
<1>4. PICK tr : Made(tr) BY <1>1 DEF DpfInv
<1>5. nodes' = RootNodes
  <2>1. \A p \in Two : key[p].root = roots[p] BY <1>1, <1>4, KeyFields DEF Made
  <2> QED BY <2>1 DEF EvalStart, RootNode, RootNodes
<1>6. nodes' \in [Two -> [s : XWord, t : BOOLEAN]] BY <1>5 DEF RootNodes, get_lsb, DpfInv, Types
<1>7. Types' BY <1>1, <1>3, <1>6 DEF DpfInv, Types
<1>8. Made(tr)'
  <2>1. Path(tr, Depth)' BY <1>1, <1>3, <1>4, KeysFixed DEF Made
  <2>2. \A p \in Two : key'[p] = KeyOf(p, tr)' BY <1>1, <1>4, KeysFixed DEF Made
  <2>3. OnPath(arg.input, layer)'
    <3>1. \A i \in 0 .. (0 - 1) : FALSE OBVIOUS
    <3> QED BY <1>1, <3>1 DEF OnPath
  <2>4. nodes' = tr[layer'] BY <1>1, <1>4, <1>5 DEF Made, Path
  <2>5. arg'.input = x /\ arg'.input \in 0 .. (job'.nitems - 1) BY <1>1, <1>2
  <2>6. job.target \in 0 .. (job.nitems - 1)
    BY <1>1, <1>3, DepthFacts DEF DpfInv
  <2>7. arg'.input \div 2 ^ (input_bits(job'.nitems) - layer')
          = job'.target \div 2 ^ (input_bits(job'.nitems) - layer')
    <3>1. x \div 2 ^ (input_bits(job.nitems) - 0) = 0 /\ job.target \div 2 ^ (input_bits(job.nitems) - 0) = 0
      BY <1>3, <2>6, FromTheTop
    <3> QED BY <1>1, <2>5, <3>1
  <2>8. /\ pc' = "eval" /\ pc' # "sent"
        /\ IF OnPath(arg.input, layer)' THEN nodes' = tr[layer'] ELSE nodes'[0] = nodes'[1]
    BY <1>1, <2>3, <2>4
  <2> QED BY <2>1, <2>2, <2>5, <2>7, <2>8 DEF Made, input_bits
<1>9. Len(cws') = Depth' /\ job'.target < job'.nitems BY <1>1, <1>3 DEF DpfInv
<1> QED BY <1>1, <1>3, <1>7, <1>8, <1>9 DEF DpfInv, PointCorrect

\* The descent stays on the path, leaves it, or goes on with equal nodes.
LEMMA EvalLayerInv == ASSUME DpfInv, EvalLayer PROVE DpfInv'
<1> DEFINE x == arg.input
           bit == BitAt(job.nitems, x, layer)
           w == cws[layer + 1]
<1>1. /\ job' = job /\ roots' = roots /\ cws' = cws /\ key' = key /\ pos' = pos /\ layer' = layer + 1
      /\ arg' = arg /\ pc' = "eval" /\ pc = "eval" /\ layer < Depth
  BY DEF EvalLayer, genvars, evalvars, Depth
<1>2. JobOK /\ JobOK' /\ Depth' = Depth /\ Depth \in Nat BY <1>1, JobFixed, DepthFacts DEF DpfInv
<1>3. layer \in Nat /\ layer \in 0 .. (Depth - 1) /\ layer + 1 \in 0 .. Depth /\ layer + 1 \in 1 .. Depth
  BY <1>1, <1>2 DEF DpfInv, Types
<1>4. PICK tr : Made(tr) BY <1>1 DEF DpfInv
<1>5. x \in 0 .. (job.nitems - 1) /\ x \in Nat /\ job.target \in Nat
  <2>1. x \in 0 .. (job.nitems - 1) BY <1>1, <1>4 DEF Made
  <2>2. \A n \in Nat : \A y \in 0 .. (n - 1) : y \in Nat OBVIOUS
  <2>3. job.nitems \in Nat /\ job.target \in Nat BY <1>2, DepthFacts
  <2> QED BY <2>1, <2>2, <2>3
<1>6. bit \in Two /\ Turn(layer) \in Two BY <1>2, <1>3, <1>5, BitFacts DEF Turn
<1>7. \A p \in Two : key[p].prgkey = job.prgkey /\ key[p].nitems = job.nitems /\ key[p].cw = cws
  BY <1>1, <1>4, KeyFields DEF Made
<1>8. nodes' = [p \in Two |-> Child(nodes[p], bit, w)] BY <1>7 DEF EvalLayer, Child
<1>9. w \in XWord BY <1>1, <1>3 DEF DpfInv, Types
<1>10. nodes \in [Two -> Node] BY DEF DpfInv, Types, Node
<1> HIDE DEF bit, w
<1>11. nodes' \in [Two -> [s : XWord, t : BOOLEAN]]
  <2>1. \A p \in Two : Child(nodes[p], bit, w) \in Node BY <1>2, <1>6, <1>9, <1>10, ChildTyped
  <2> QED BY <1>8, <2>1 DEF Node
<1>12. Types' BY <1>1, <1>2, <1>3, <1>11 DEF DpfInv, Types
<1>13. 0 \in Two /\ 1 \in Two BY DEF Two
<1>14. OnPath(x, layer + 1) <=> OnPath(x, layer) /\ bit = Turn(layer) BY <1>3, OnPathStep DEF bit
<1>15. OnPath(x, layer + 1) => nodes' = tr[layer + 1]
  <2> SUFFICES ASSUME OnPath(x, layer + 1) PROVE nodes' = tr[layer + 1] OBVIOUS
  <2>1. nodes = tr[layer] /\ bit = Turn(layer) BY <1>1, <1>4, <1>14 DEF Made
  <2>2. tr[layer + 1] = [p \in Two |-> Child(nodes[p], bit, w)] BY <1>3, <1>4, <2>1 DEF Made, Path, w
  <2> QED BY <1>8, <2>2
<1>16. ~OnPath(x, layer + 1) => nodes'[0] = nodes'[1]
  <2> SUFFICES ASSUME ~OnPath(x, layer + 1) PROVE nodes'[0] = nodes'[1] OBVIOUS
  <2>1. nodes'[0] = Child(nodes[0], bit, w) /\ nodes'[1] = Child(nodes[1], bit, w) BY <1>8, <1>13
  <2>2. CASE ~OnPath(x, layer)
    <3>1. nodes[0] = nodes[1] BY <1>1, <1>4, <2>2 DEF Made
    <3> QED BY <2>1, <3>1
  <2>3. CASE OnPath(x, layer)
    <3>1. nodes = tr[layer] /\ bit # Turn(layer) BY <1>1, <1>4, <1>14, <2>3 DEF Made
    <3>2. bit = 1 - Turn(layer) BY <1>6, <3>1, TwoFacts
    <3>3. Child(nodes[0], 1 - Turn(layer), w) = Child(nodes[1], 1 - Turn(layer), w)
      BY <1>3, <1>4, <3>1 DEF Made, Path, w
    <3> QED BY <2>1, <3>2, <3>3
  <2> QED BY <2>2, <2>3
<1>17. OnPath(x, layer + 1) =>
         x \div 2 ^ (input_bits(job.nitems) - (layer + 1))
           = job.target \div 2 ^ (input_bits(job.nitems) - (layer + 1))
  <2> SUFFICES ASSUME OnPath(x, layer + 1)
               PROVE  x \div 2 ^ (input_bits(job.nitems) - (layer + 1))
                        = job.target \div 2 ^ (input_bits(job.nitems) - (layer + 1))
    OBVIOUS
  <2>1. /\ x \div 2 ^ (input_bits(job.nitems) - layer) = job.target \div 2 ^ (input_bits(job.nitems) - layer)
        /\ bit = Turn(layer)
    BY <1>1, <1>4, <1>14 DEF Made
  <2>2. x \div 2 ^ (input_bits(job.nitems) - (layer + 1))
          = 2 * (x \div 2 ^ (input_bits(job.nitems) - layer)) + bit
    BY <1>2, <1>3, <1>5, BitFacts DEF bit
  <2>3. job.target \div 2 ^ (input_bits(job.nitems) - (layer + 1))
          = 2 * (job.target \div 2 ^ (input_bits(job.nitems) - layer)) + Turn(layer)
    BY <1>2, <1>3, <1>5, BitFacts DEF Turn
  <2> QED BY <2>1, <2>2, <2>3
<1>18. Made(tr)'
  <2>1. Path(tr, Depth)' BY <1>1, <1>2, <1>4, KeysFixed DEF Made
  <2>2. \A p \in Two : key'[p] = KeyOf(p, tr)' BY <1>1, <1>4, KeysFixed DEF Made
  <2>3. OnPath(arg.input, layer)' <=> OnPath(x, layer + 1) BY <1>1 DEF OnPath
  <2>4. arg'.input = x /\ arg'.input \in 0 .. (job'.nitems - 1) BY <1>1, <1>5
  <2>5. IF OnPath(arg.input, layer)' THEN nodes' = tr[layer'] ELSE nodes'[0] = nodes'[1]
    BY <1>1, <1>15, <1>16, <2>3
  <2>6. OnPath(arg.input, layer)' =>
          arg'.input \div 2 ^ (input_bits(job'.nitems) - layer')
            = job'.target \div 2 ^ (input_bits(job'.nitems) - layer')
    BY <1>1, <1>17, <2>3, <2>4
  <2>7. pc' = "eval" /\ pc' # "sent" BY <1>1
  <2> QED BY <2>1, <2>2, <2>4, <2>5, <2>6, <2>7 DEF Made, input_bits
<1>19. Len(cws') = Depth' /\ job'.target < job'.nitems BY <1>1, <1>2 DEF DpfInv
<1> QED BY <1>1, <1>2, <1>12, <1>18, <1>19 DEF DpfInv, PointCorrect

-----------------------------------------------------------------------------
(* Leaves                                                                  *)

\* A lane of a block that holds one packed leaf.
LEMMA Lanes ==
  ASSUME NEW m \in Nat, NEW i \in Nat, NEW k \in Nat, NEW v, v \subseteq 0 .. (m - 1), m = Lane
  PROVE  getword(make_vec(k, v), i) = IF i = k THEN v ELSE {}
<1>1. getword(make_vec(k, v), i) = {j \in 0 .. (m - 1) : \E b \in v : i * m + j = k * m + b}
  BY DEF getword, make_vec
<1>2. ASSUME NEW j \in 0 .. (m - 1), NEW b \in 0 .. (m - 1), i * m + j = k * m + b
      PROVE  i = k /\ j = b
  <2>1. m \in Nat \ {0} /\ j \in Nat /\ b \in Nat OBVIOUS
  <2>2. i * m + j = m * i + j /\ i * m + j = m * k + b /\ i * m + j \in Nat BY <1>2, <2>1
  <2>3. (i * m + j) \div m = i BY <2>1, <2>2, DivUnique
  <2>4. (i * m + j) \div m = k BY <2>1, <2>2, DivUnique
  <2>5. i = k BY <2>3, <2>4
  <2>6. \A z \in Nat : z + j = z + b => j = b BY <2>1
  <2>7. k * m \in Nat BY <2>1
  <2> QED BY <1>2, <2>5, <2>6, <2>7
<1>3. CASE i = k
  <2>1. \A j \in 0 .. (m - 1) : (\E b \in v : i * m + j = k * m + b) <=> j \in v BY <1>2, <1>3
  <2> QED BY <1>1, <1>3, <2>1
<1>4. CASE i # k
  <2>1. \A j \in 0 .. (m - 1) : ~(\E b \in v : i * m + j = k * m + b) BY <1>2, <1>4
  <2> QED BY <1>1, <1>4, <2>1
<1> QED BY <1>3, <1>4

\* Leaves of the two parties add up word by word.
LEMMA LeafXor ==
  ASSUME NEW a, NEW b, NEW x, a = [w \in WordsOfLeaf |-> a[w]], b = [w \in WordsOfLeaf |-> b[w]],
         0 \in WordsOfLeaf
  PROVE  leaf_xor(LeafOf(a, x), LeafOf(b, x)) = LeafOf([w \in WordsOfLeaf |-> Xor(a[w], b[w])], x)
<1>1. CASE Packed
  <2>1. leaf_xor(LeafOf(a, x), LeafOf(b, x)) = Xor(getword(a[0], x % LPN), getword(b[0], x % LPN))
    BY <1>1 DEF leaf_xor, LeafOf
  <2>2. LeafOf([w \in WordsOfLeaf |-> Xor(a[w], b[w])], x) = getword(Xor(a[0], b[0]), x % LPN)
    BY <1>1 DEF LeafOf
  <2>3. \A c, d, k : Xor(getword(c, k), getword(d, k)) = getword(Xor(c, d), k) BY DEF Xor, getword
  <2> QED BY <2>1, <2>2, <2>3
<1>2. CASE ~Packed
  <2>1. LeafOf(a, x) = a /\ LeafOf(b, x) = b BY <1>2 DEF LeafOf
  <2>2. leaf_xor(a, b) = [w \in WordsOfLeaf |-> Xor(a[w], b[w])] BY <1>2 DEF leaf_xor
  <2>3. LeafOf([w \in WordsOfLeaf |-> Xor(a[w], b[w])], x) = [w \in WordsOfLeaf |-> Xor(a[w], b[w])]
    BY <1>2 DEF LeafOf
  <2> QED BY <2>1, <2>2, <2>3
<1> QED BY <1>1, <1>2

\* At the same node both parties have the same words.
LEMMA LeafZero ==
  ASSUME NEW a, NEW x, a = [w \in WordsOfLeaf |-> a[w]], 0 \in WordsOfLeaf
  PROVE  leaf_xor(LeafOf(a, x), LeafOf(a, x)) = ZeroLeaf
<1>1. \A w : Xor(a[w], a[w]) = {} BY DEF Xor
<1>2. leaf_xor(LeafOf(a, x), LeafOf(a, x)) = LeafOf([w \in WordsOfLeaf |-> {}], x)
  BY <1>1, LeafXor, SMTT(60)
<1>3. LeafOf([w \in WordsOfLeaf |-> {}], x) = ZeroLeaf
  BY DEF LeafOf, ZeroLeaf, getword
<1> QED BY <1>2, <1>3

\* At nodes with different advice bits the finalizer is applied once and the
\* words add up to the value in its lane.
LEMMA LeafOnPath ==
  ASSUME JobOK, NEW nd \in [Two -> Node], nd[0].t # nd[1].t, job.target < job.nitems,
         NEW x \in 0 .. (job.nitems - 1),
         x \div 2 ^ (input_bits(job.nitems) - Depth) = job.target \div 2 ^ (input_bits(job.nitems) - Depth)
  PROVE  LET f == make_finalizer(job.prgkey, job.target, job.val, [p \in Two |-> nd[p].s])
             F(p) == Finalized(job.prgkey, f, nd[p])
         IN  leaf_xor(LeafOf(F(0), x), LeafOf(F(1), x)) = IF x = job.target THEN job.val ELSE ZeroLeaf
<1> DEFINE f == make_finalizer(job.prgkey, job.target, job.val, [p \in Two |-> nd[p].s])
           F(p) == Finalized(job.prgkey, f, nd[p])
           st(p) == stretch_leaf(job.prgkey, nd[p].s)
           vec == IF Packed THEN [w \in WordsOfLeaf |-> make_vec(job.target % LPN, job.val)] ELSE job.val
<1>1. 0 \in Two /\ 1 \in Two BY DEF Two
<1>2. /\ LPN \in Nat \ {0} /\ NPL \in Nat \ {0} /\ (~Packed => LPN = 1) /\ job.target \in Nat
      /\ job.nitems \in Nat
  BY DepthFacts
<1>3. 0 \in WordsOfLeaf BY <1>2 DEF WordsOfLeaf
<1>4. \A w \in WordsOfLeaf : f[w] = Xor(vec[w], Xor(st(0)[w], st(1)[w]))
  BY <1>1 DEF make_finalizer
<1>5. \A p : F(p) = [w \in WordsOfLeaf |-> xor_if(st(p)[w], f[w], nd[p].t)] BY DEF Finalized
<1>6. nd[0].t \in BOOLEAN /\ nd[1].t \in BOOLEAN BY <1>1 DEF Node
<1> HIDE DEF f, st, vec
<1>7. ASSUME NEW w \in WordsOfLeaf PROVE Xor(F(0)[w], F(1)[w]) = vec[w]
  <2>1. F(0)[w] = xor_if(st(0)[w], f[w], nd[0].t) /\ F(1)[w] = xor_if(st(1)[w], f[w], nd[1].t) BY <1>5, ZenonT(60)
  <2>2. \A a, b, v : /\ Xor(Xor(a, Xor(v, Xor(a, b))), b) = v
                     /\ Xor(a, Xor(b, Xor(v, Xor(a, b)))) = v
    BY DEF Xor
  <2>3. f[w] = Xor(vec[w], Xor(st(0)[w], st(1)[w])) BY <1>4
  <2> HIDE DEF F
  <2>4. CASE nd[0].t
    <3>1. ~nd[1].t BY <1>6, <2>4
    <3>2. F(0)[w] = Xor(st(0)[w], f[w]) /\ F(1)[w] = st(1)[w] BY <2>1, <2>4, <3>1 DEF xor_if
    <3> QED BY <2>2, <2>3, <3>2
  <2>5. CASE ~nd[0].t
    <3>1. nd[1].t BY <1>6, <2>5
    <3>2. F(0)[w] = st(0)[w] /\ F(1)[w] = Xor(st(1)[w], f[w]) BY <2>1, <2>5, <3>1 DEF xor_if
    <3> QED BY <2>2, <2>3, <3>2
  <2> QED BY <2>4, <2>5
<1>8. F(0) = [w \in WordsOfLeaf |-> F(0)[w]] /\ F(1) = [w \in WordsOfLeaf |-> F(1)[w]] BY <1>5
<1> HIDE DEF F
<1>9. leaf_xor(LeafOf(F(0), x), LeafOf(F(1), x)) = LeafOf([w \in WordsOfLeaf |-> vec[w]], x)
  <2>1. [w \in WordsOfLeaf |-> Xor(F(0)[w], F(1)[w])] = [w \in WordsOfLeaf |-> vec[w]] BY <1>7
  <2> QED BY <1>3, <1>8, <2>1, LeafXor
<1>10. x \in Nat /\ x % LPN \in Nat /\ job.target % LPN \in Nat BY <1>2
<1>11. x % LPN = job.target % LPN => x = job.target BY SameLeaf
<1>12. LeafOf([w \in WordsOfLeaf |-> vec[w]], x) = IF x = job.target THEN job.val ELSE ZeroLeaf
  <2>1. CASE Packed
    <3>1. vec[0] = make_vec(job.target % LPN, job.val) BY <1>3, <2>1 DEF vec
    <3>2. LeafOf([w \in WordsOfLeaf |-> vec[w]], x) = getword(vec[0], x % LPN) BY <1>3, <2>1 DEF LeafOf
    <3>3. Lane \in Nat BY <1>2, WordSize DEF Lane
    <3>4. job.val \subseteq 0 .. (Lane - 1) BY <2>1 DEF JobOK
    <3>5. getword(make_vec(job.target % LPN, job.val), x % LPN)
            = IF x % LPN = job.target % LPN THEN job.val ELSE {}
      BY <1>10, <3>3, <3>4, Lanes
    <3>6. ZeroLeaf = {} BY <2>1 DEF ZeroLeaf
    <3> QED BY <1>11, <3>1, <3>2, <3>5, <3>6
  <2>2. CASE ~Packed
    <3>1. LPN = 1 BY <1>2, <2>2
    <3>2. x % 1 = 0 /\ job.target % 1 = 0 BY <1>2, <1>10
    <3>3. x = job.target BY <1>11, <3>1, <3>2
    <3>4. job.val \in [WordsOfLeaf -> XWord] BY <2>2 DEF JobOK
    <3>5. [w \in WordsOfLeaf |-> vec[w]] = job.val BY <2>2, <3>4 DEF vec
    <3> QED BY <2>2, <3>3, <3>5 DEF LeafOf
  <2> QED BY <2>1, <2>2
<1> QED BY <1>9, <1>12 DEF f, F

\* The leaf that eval returns.
LEMMA EvalFinishInv == ASSUME DpfInv, EvalFinish PROVE DpfInv'
<1> DEFINE x == arg.input
<1>1. /\ job' = job /\ roots' = roots /\ cws' = cws /\ key' = key /\ pos' = pos /\ layer' = layer
      /\ nodes' = nodes /\ arg' = arg /\ pc' = "evaluated" /\ pc = "eval" /\ layer = Depth
  BY DEF EvalFinish, genvars, Depth
<1>2. JobOK /\ JobOK' /\ Depth' = Depth /\ Depth \in Nat BY <1>1, JobFixed, DepthFacts DEF DpfInv
<1>3. Types' BY <1>1, <1>2 DEF DpfInv, Types
<1>4. PICK tr : Made(tr) BY <1>1 DEF DpfInv
<1>5. Made(tr)' BY <1>1, <1>4, MadeKept
<1>6. Len(cws') = Depth' /\ job'.target < job'.nitems /\ job.target < job.nitems BY <1>1, <1>2 DEF DpfInv
<1>7. \A p \in Two : key[p].prgkey = job.prgkey /\ key[p].finalizer = Finalizer(tr)
  BY <1>1, <1>4, KeyFields DEF Made
<1>8. out' = [p \in Two |-> LeafOf(Finalized(job.prgkey, Finalizer(tr), nodes[p]), x)] BY <1>7 DEF EvalFinish
<1>9. 0 \in Two /\ 1 \in Two BY DEF Two
<1>10. /\ out'[0] = LeafOf(Finalized(job.prgkey, Finalizer(tr), nodes[0]), x)
       /\ out'[1] = LeafOf(Finalized(job.prgkey, Finalizer(tr), nodes[1]), x)
  BY <1>8, <1>9
<1>11. leaf_xor(out'[0], out'[1]) = IF x = job.target THEN job.val ELSE ZeroLeaf
  <2>1. CASE OnPath(x, layer)
    <3>1. /\ nodes = tr[Depth] /\ x \in 0 .. (job.nitems - 1)
          /\ x \div 2 ^ (input_bits(job.nitems) - Depth) = job.target \div 2 ^ (input_bits(job.nitems) - Depth)
      BY <1>1, <1>4, <2>1 DEF Made
    <3>2. nodes[0].t # nodes[1].t BY <1>2, <1>4, <3>1 DEF Made, Path
    <3>3. nodes \in [Two -> Node] BY DEF DpfInv, Types, Node
    <3>4. Finalizer(tr) = make_finalizer(job.prgkey, job.target, job.val, [p \in Two |-> nodes[p].s])
      BY <3>1 DEF Finalizer
    <3> HIDE DEF x
    <3> QED BY <1>2, <1>6, <1>10, <3>1, <3>2, <3>3, <3>4, LeafOnPath
  <2>2. CASE ~OnPath(x, layer)
    <3>1. nodes[0] = nodes[1] BY <1>1, <1>4, <2>2 DEF Made
    <3>2. x # job.target BY <2>2 DEF OnPath
    <3> DEFINE a == Finalized(job.prgkey, Finalizer(tr), nodes[0])
    <3>3. a = [w \in WordsOfLeaf |-> a[w]] BY DEF Finalized
    <3>4. 0 \in WordsOfLeaf BY <1>2, DepthFacts DEF WordsOfLeaf
    <3>5. out'[0] = LeafOf(a, x) /\ out'[1] = LeafOf(a, x) BY <1>10, <3>1
    <3> HIDE DEF a, x
    <3>6. leaf_xor(out'[0], out'[1]) = ZeroLeaf BY <3>3, <3>4, <3>5, LeafZero
    <3> QED BY <3>2, <3>6
  <2> QED BY <2>1, <2>2
<1>12. PointCorrect'
  <2>1. leaf_xor(out[0], out[1])' = leaf_xor(out'[0], out'[1]) /\ ZeroLeaf' = ZeroLeaf
    BY <1>1 DEF leaf_xor, ZeroLeaf, Packed, WordsOfLeaf, LPN, NPL
  <2>2. leaf_xor(out[0], out[1])' = IF arg'.input = job'.target THEN job'.val ELSE ZeroLeaf'
    BY <1>1, <1>11, <2>1
  <2> QED BY <2>2 DEF PointCorrect
<1> QED BY <1>1, <1>2, <1>3, <1>5, <1>6, <1>12 DEF DpfInv

-----------------------------------------------------------------------------
(* Keys that nobody changes, and the theorems about gen and eval           *)

\* No step of __evalinterval touches the keys.
LEMMA IntervalInv == ASSUME DpfInv, EvalInterval PROVE DpfInv'
<1>1. /\ job' = job /\ roots' = roots /\ cws' = cws /\ key' = key /\ nodes' = nodes
      /\ pc \in {"ready", "layers"} /\ pc' \in {"layers", "expanded"}
      /\ pos' \in {0, pos, pos + 1}
      /\ layer' \in {0, layer} \/ (layer < Depth /\ layer' = layer + 1)
  <2>1. CASE IntervalStart BY <2>1 DEF IntervalStart, genvars
  <2>2. CASE TraverseNode BY <2>2 DEF TraverseNode, genvars
  <2>3. CASE NextLayer BY <2>3 DEF NextLayer, genvars, Depth
  <2>4. CASE FinalizeNode BY <2>4 DEF FinalizeNode, genvars
  <2>5. CASE IntervalFinish BY <2>5 DEF IntervalFinish, genvars, evalvars
  <2> QED BY <2>1, <2>2, <2>3, <2>4, <2>5 DEF EvalInterval
<1>2. JobOK /\ Depth' = Depth /\ Depth \in Nat BY <1>1, JobFixed, DepthFacts DEF DpfInv
<1>3. pos' \in Nat BY <1>1 DEF DpfInv, Types
<1>4. layer' \in 0 .. Depth BY <1>1, <1>2 DEF DpfInv, Types
<1>5. Types' BY <1>1, <1>2, <1>3, <1>4 DEF DpfInv, Types
<1> QED BY <1>1, <1>5, AfterKeys

\* Every step keeps the invariant.
LEMMA DpfStep == DpfInv /\ [Next]_vars => DpfInv'
<1> SUFFICES ASSUME DpfInv, [Next]_vars PROVE DpfInv' OBVIOUS
<1>1. CASE Gen BY <1>1, GenThrowInv, GenStartInv, GenLayerInv, GenFinishInv, GenTrapInv DEF Gen
<1>2. CASE Receive BY <1>2, ReceiveInv
<1>3. CASE Eval BY <1>3, EvalStartInv, EvalLayerInv, EvalFinishInv DEF Eval
<1>4. CASE EvalInterval BY <1>4, IntervalInv
<1>5. CASE UNCHANGED vars
  <2>1. /\ job' = job /\ roots' = roots /\ cws' = cws /\ key' = key /\ nodes' = nodes /\ pc' = pc
        /\ pos' = pos /\ layer' = layer /\ wire' = wire /\ arg' = arg /\ out' = out
    BY <1>5 DEF vars
  <2>2. JobOK' /\ Depth' = Depth BY <2>1, JobFixed DEF DpfInv
  <2>3. Types' BY <2>1, <2>2 DEF DpfInv, Types
  <2>4. Making => Making' BY <2>1, KeysFixed DEF Making
  <2>5. ASSUME NEW tr, Made(tr) PROVE Made(tr)'
    <3>1. Path(tr, Depth)' BY <2>1, <2>2, <2>5, KeysFixed DEF Made
    <3>2. \A p \in Two : KeyOf(p, tr)' = KeyOf(p, tr) BY <2>1, KeysFixed
    <3>3. \A p \in Two : serialize_dpf_key(KeyOf(p, tr))' = serialize_dpf_key(KeyOf(p, tr))
      BY <2>1, <3>2 DEF serialize_dpf_key, NPL
    <3>4. OnPath(arg.input, layer)' <=> OnPath(arg.input, layer) BY <2>1 DEF OnPath
    <3> QED BY <2>1, <2>5, <3>1, <3>2, <3>3, <3>4 DEF Made, input_bits
  <2>6. PointCorrect'
    BY <2>1 DEF DpfInv, PointCorrect, leaf_xor, ZeroLeaf, Packed, WordsOfLeaf, LPN, NPL
  <2> QED BY <2>1, <2>2, <2>3, <2>4, <2>5, <2>6 DEF DpfInv
<1> QED BY <1>1, <1>2, <1>3, <1>4, <1>5 DEF Next

\* In every state there is a path of nodes that explains the keys.
LEMMA DpfInvariant == Spec => []DpfInv
  BY InitInv, DpfStep, PTL DEF Spec

\* The types of gen's and eval's variables; gen never makes more correction
\* words than the tree has layers.
THEOREM DpfTypeCorrect == Spec => []TypeOK
<1>1. DpfInv => TypeOK BY DEF DpfInv, JobOK, Types, TypeOK, Depth
<1> QED BY <1>1, DpfInvariant, PTL

\* gen keeps two nodes with different advice bits; eval walks down them as long
\* as the input follows the target, and from where it does not the two parties
\* are at the same node: whatever the PRG, the size and the leaf type.
THEOREM PathCorrect == Spec => []PathInvariant
<1>1. ASSUME DpfInv PROVE PathInvariant
  <2>1. Depth \in Nat /\ layer \in 0 .. layer /\ layer \in 0 .. Depth BY <1>1, DepthFacts DEF DpfInv, Types
  <2>2. pc = "gen" => nodes[0].t # nodes[1].t BY <1>1, <2>1 DEF DpfInv, Making, Path
  <2>3. ASSUME pc = "eval"
        PROVE  IF OnPath(arg.input, layer) THEN nodes[0].t # nodes[1].t ELSE nodes[0] = nodes[1]
    <3>1. PICK tr : Made(tr) BY <1>1, <2>3 DEF DpfInv
    <3> QED BY <2>1, <2>3, <3>1 DEF Made, Path
  <2> QED BY <2>2, <2>3 DEF PathInvariant
<1> QED BY <1>1, DpfInvariant, PTL

\* What dpf.hpp promises: the two keys, serialised, received and evaluated at
\* any input, give shares of the value at the target and of zero elsewhere.
THEOREM PointFunctionCorrect == Spec => []PointCorrect
<1>1. DpfInv => PointCorrect BY DEF DpfInv
<1> QED BY <1>1, DpfInvariant, PTL

-----------------------------------------------------------------------------
(* __evalinterval: its invariant                                           *)

\* The nodes that eval passes with key p on its way to x.
Steps(g, k, x) ==
  g = [l \in 0 .. depth(k.nitems) |->
        IF l = 0 THEN RootNode(k)
        ELSE traverse_(k.prgkey, g[l - 1], BitAt(k.nitems, x, l - 1), k.cw[l])]
Walk(p, x) == CHOOSE g : Steps(g, key[p], x)

\* Leaves below a node of layer l, and the place of the node above x among the
\* nodes of the interval on that layer.
Span(l) == 2 ^ (input_bits(job.nitems) - l)
Place(l, x) == x \div Span(l) - arg.from \div Span(l)

\* Node i of layer buffer c of party p.
Stored(p, c, i, node) == out[p][SeedAt(c, i)] = node.s /\ flag[p][FlagAt(c, i)] = node.t

Leaves(p, x) == Finalized(key[p].prgkey, key[p].finalizer, Walk(p, x)[Depth])

\* What the layer that is read still holds, what has been written of the next
\* one, and in the end of the output.
Reading(p, x) ==
  Place(layer, x) >= pos => Stored(p, Prev, Place(layer, x), Walk(p, x)[layer])
Written(p, x) ==
  layer < Depth /\ Place(layer, x) < pos =>
    Stored(p, 1 - Prev, Place(layer + 1, x), Walk(p, x)[layer + 1])
Output(p, x) ==
  layer = Depth =>
    /\ flag[p][Place(Depth, x)] = Walk(p, x)[Depth].t
    /\ Place(Depth, x) < pos =>
         \A w \in WordsOfLeaf : out[p][Place(Depth, x) * NPL + w] = Leaves(p, x)[w]

LayersOK ==
  /\ arg \in Intervals(job.nitems)
  /\ pos \in 0 .. NodesOn(layer)
  /\ \A p \in Two :
       /\ DOMAIN out[p] = 0 .. (N * NPL - 1) /\ DOMAIN flag[p] = 0 .. (N - 1)
       /\ \A x \in arg.from .. arg.to : Reading(p, x) /\ Written(p, x) /\ Output(p, x)

ExpandOK ==
  pc \in {"layers", "expanded"} =>
    LayersOK /\ (pc = "expanded" => layer = Depth /\ pos = N)

-----------------------------------------------------------------------------
(* __evalinterval: where the nodes are                                     *)

\* The walk exists: it goes from the root one layer down at a time, and ends at
\* the node that eval reaches.
LEMMA WalkFacts ==
  ASSUME NEW p \in Two, NEW x, depth(key[p].nitems) \in Nat
  PROVE  LET k == key[p]
             g == Walk(p, x)
         IN  /\ g[0] = RootNode(k)
             /\ \A l \in 0 .. (depth(k.nitems) - 1) :
                  g[l + 1] = traverse_(k.prgkey, g[l], BitAt(k.nitems, x, l), k.cw[l + 1])
             /\ EvalNode(k, x) = g[depth(k.nitems)]
<1> DEFINE k == key[p]
           d == depth(k.nitems)
           Down(l, nd) == traverse_(k.prgkey, nd, BitAt(k.nitems, x, l - 1), k.cw[l])
           Is(g, m) == g = [l \in 0 .. m |-> IF l = 0 THEN RootNode(k) ELSE Down(l, g[l - 1])]
           T == {m \in Nat : \E g : Is(g, m)}
<1> HIDE DEF Down
<1>1. 0 \in T
  <2>1. PICK g : g = [l \in 0 .. 0 |-> RootNode(k)] OBVIOUS
  <2>2. Is(g, 0)
    <3>1. \A l \in 0 .. 0 : l = 0 OBVIOUS
    <3> QED BY <2>1, <3>1
  <2> QED BY <2>2
<1>2. ASSUME NEW m \in Nat, m \in T PROVE m + 1 \in T
  <2>1. PICK g : Is(g, m) BY <1>2
  <2>2. PICK h : h = [l \in 0 .. (m + 1) |-> IF l <= m THEN g[l] ELSE Down(m + 1, g[m])] OBVIOUS
  <2>3. \A l \in 0 .. m : h[l] = g[l] /\ g[l] = IF l = 0 THEN RootNode(k) ELSE Down(l, g[l - 1])
    BY <2>1, <2>2
  <2>4. ASSUME NEW l \in 0 .. (m + 1)
        PROVE  h[l] = IF l = 0 THEN RootNode(k) ELSE Down(l, h[l - 1])
    <3>1. CASE l = 0
      <4>1. 0 \in 0 .. m OBVIOUS
      <4> QED BY <2>3, <3>1, <4>1
    <3>2. CASE l \in 1 .. m
      <4>1. l - 1 \in 0 .. m /\ l \in 0 .. m /\ l # 0 BY <3>2
      <4> QED BY <2>3, <4>1
    <3>3. CASE l = m + 1
      <4>1. l - 1 = m /\ m \in 0 .. m /\ l # 0 /\ ~(l <= m) BY <3>3
      <4>2. h[l] = Down(m + 1, g[m]) /\ h[m] = g[m] BY <2>2, <2>3, <3>3, <4>1
      <4> QED BY <3>3, <4>1, <4>2
    <3> QED BY <3>1, <3>2, <3>3
  <2>5. Is(h, m + 1)
    <3>1. h = [l \in 0 .. (m + 1) |-> h[l]] BY <2>2
    <3> QED BY <2>4, <3>1
  <2> HIDE DEF Is
  <2> QED BY <2>5
<1>3. \E g : Is(g, d)
  <2> HIDE DEF T
  <2>1. Nat \subseteq T BY <1>1, <1>2, Induction
  <2> QED BY <2>1 DEF T
<1>4. Walk(p, x) = CHOOSE g : Is(g, d) BY DEF Walk, Steps, Down
<1>5. EvalNode(k, x) = (CHOOSE g : Is(g, d))[d] BY DEF EvalNode, Down
<1>6. Is(Walk(p, x), d) BY <1>3, <1>4
<1>7. Walk(p, x)[0] = RootNode(k)
  <2>1. 0 \in 0 .. d OBVIOUS
  <2> QED BY <1>6, <2>1
<1>8. ASSUME NEW l \in 0 .. (d - 1) PROVE Walk(p, x)[l + 1] = Down(l + 1, Walk(p, x)[l])
  <2>1. l + 1 \in 0 .. d /\ l + 1 # 0 /\ l + 1 - 1 = l OBVIOUS
  <2>2. Walk(p, x)[l + 1] = Down(l + 1, Walk(p, x)[l + 1 - 1]) BY <1>6, <2>1
  <2> QED BY <2>1, <2>2
<1>9. ASSUME NEW l \in 0 .. (d - 1), NEW nd
      PROVE  Down(l + 1, nd) = traverse_(k.prgkey, nd, BitAt(k.nitems, x, l), k.cw[l + 1])
  <2>1. l + 1 - 1 = l OBVIOUS
  <2> QED BY <2>1 DEF Down
<1> QED BY <1>4, <1>5, <1>7, <1>8, <1>9

\* Division that rounds up.
LEMMA CeilFacts ==
  ASSUME NEW n \in Nat \ {0}, NEW m \in Nat \ {0}
  PROVE  LET c == CeilDiv(n, m)
         IN  c \in Nat \ {0} /\ c <= n /\ n <= m * c /\ m * (c - 1) < n
<1> DEFINE c == CeilDiv(n, m)
           r == (n + m - 1) % m
<1>1. n + m - 1 \in Nat OBVIOUS
<1>2. c \in Nat /\ r \in 0 .. (m - 1) /\ n + m - 1 = m * c + r BY <1>1, DivNat DEF CeilDiv
<1> HIDE DEF c, r
<1>3. n <= m * c /\ m * c - m < n BY <1>2
<1>4. m * (c - 1) = m * c - m BY <1>2
<1>5. c # 0 BY <1>2, <1>3
<1>6. c - 1 <= m * (c - 1)
  <2>1. c - 1 \in Nat BY <1>2, <1>5
  <2>2. \A u \in Nat, v \in Nat \ {0} : u <= v * u OBVIOUS
  <2> QED BY <2>1, <2>2
<1>7. c <= n BY <1>2, <1>3, <1>4, <1>6
<1> QED BY <1>2, <1>3, <1>4, <1>5, <1>7 DEF c

\* Half as many nodes, rounded up.
LEMMA CeilHalf ==
  ASSUME NEW n \in Nat \ {0}, NEW m \in Nat \ {0}
  PROVE  2 * CeilDiv(n, 2 * m) <= CeilDiv(n, m) + 1
<1> DEFINE c == CeilDiv(n, 2 * m)
           e == CeilDiv(n, m)
<1>1. 2 * m \in Nat \ {0} OBVIOUS
<1>2. c \in Nat /\ (2 * m) * (c - 1) < n BY <1>1, CeilFacts
<1>3. e \in Nat /\ n <= m * e BY CeilFacts
<1> HIDE DEF c, e
<1>4. (2 * m) * (c - 1) = m * (2 * (c - 1)) BY <1>2
<1>5. m * (2 * (c - 1)) < m * e BY <1>2, <1>3, <1>4
<1>6. \A u, v \in Int : m * u < m * v => u < v OBVIOUS
<1>7. 2 * (c - 1) < e BY <1>2, <1>3, <1>5, <1>6
<1> QED BY <1>2, <1>3, <1>7 DEF c, e

\* Powers of two multiply.
LEMMA PowerSum ==
  ASSUME JobOK, NEW i \in Nat, NEW j \in Nat, i + j <= input_bits(job.nitems)
  PROVE  2 ^ (i + j) = 2 ^ i * 2 ^ j /\ 2 ^ i \in Nat \ {0} /\ 2 ^ j \in Nat \ {0}
<1> DEFINE b == input_bits(job.nitems)
           T == {e \in Nat : i + e <= b => 2 ^ (i + e) = 2 ^ i * 2 ^ e}
<1>1. b \in Nat /\ \A e \in 0 .. b : 2 ^ e \in Nat \ {0} /\ 2 ^ (e + 1) = 2 * 2 ^ e BY DepthFacts
<1> HIDE DEF b
<1>2. 0 \in T
  <2>1. 2 ^ 0 = 1 /\ i + 0 = i BY PowersOfTwo
  <2>2. i <= b => 2 ^ i \in Nat BY <1>1
  <2> QED BY <2>1, <2>2
<1>3. ASSUME NEW e \in Nat, e \in T PROVE e + 1 \in T
  <2> SUFFICES ASSUME i + (e + 1) <= b PROVE 2 ^ (i + (e + 1)) = 2 ^ i * 2 ^ (e + 1) OBVIOUS
  <2>1. i + e \in 0 .. b /\ i \in 0 .. b /\ e \in 0 .. b /\ i + (e + 1) = (i + e) + 1 BY <1>1
  <2>2. 2 ^ (i + e) = 2 ^ i * 2 ^ e BY <1>3, <2>1
  <2>3. 2 ^ (i + (e + 1)) = 2 * 2 ^ (i + e) /\ 2 ^ (e + 1) = 2 * 2 ^ e BY <1>1, <2>1
  <2>4. \A u, v \in Nat : 2 * (u * v) = u * (2 * v) OBVIOUS
  <2> QED BY <1>1, <2>1, <2>2, <2>3, <2>4
<1> HIDE DEF T
<1>4. j \in T BY <1>2, <1>3, Induction
<1>5. i \in 0 .. b /\ j \in 0 .. b BY <1>1 DEF b
<1> QED BY <1>1, <1>4, <1>5 DEF T, b

\* The leaves below a node of each layer, and the nodes of the last layer below it.
LEMMA SpanFacts ==
  ASSUME JobOK, NEW l \in 0 .. Depth
  PROVE  /\ Span(l) \in Nat \ {0} /\ 2 ^ (Depth - l) \in Nat \ {0}
         /\ Span(l) = Span(Depth) * 2 ^ (Depth - l)
         /\ l < Depth => 2 ^ (Depth - l) = 2 * 2 ^ (Depth - (l + 1))
         /\ l = Depth => 2 ^ (Depth - l) = 1
<1> DEFINE b == input_bits(job.nitems)
           d == Depth
<1>1. b \in Nat /\ d \in Nat /\ d <= b /\ \A e \in 0 .. b : 2 ^ e \in Nat \ {0} /\ 2 ^ (e + 1) = 2 * 2 ^ e
  BY DepthFacts
<1>2. \A e \in Nat, f \in Nat : e + f <= b => 2 ^ (e + f) = 2 ^ e * 2 ^ f BY PowerSum
<1>3. l \in Nat /\ l <= d OBVIOUS
<1> HIDE DEF b, d
<1>4. b - d \in Nat /\ d - l \in 0 .. b /\ b - l \in 0 .. b /\ (b - d) + (d - l) = b - l BY <1>1, <1>3
<1>5. 2 ^ (b - l) = 2 ^ (b - d) * 2 ^ (d - l) BY <1>2, <1>4
<1>6. ASSUME l < d PROVE 2 ^ (d - l) = 2 * 2 ^ (d - (l + 1))
  <2>1. d - (l + 1) \in 0 .. b /\ d - l = (d - (l + 1)) + 1 BY <1>1, <1>3, <1>6
  <2> QED BY <1>1, <2>1
<1>7. ASSUME l = d PROVE 2 ^ (d - l) = 1
  <2>1. d - l = 0 BY <1>1, <1>7
  <2> QED BY <2>1, PowersOfTwo
<1> QED BY <1>1, <1>4, <1>5, <1>6, <1>7 DEF Span, b, d

\* An interval is made of whole nodes of the last layer.
LEMMA IntervalFacts ==
  ASSUME JobOK, arg \in Intervals(job.nitems)
  PROVE  /\ arg.from \in Nat /\ arg.to \in Nat /\ arg.from <= arg.to /\ arg.to < job.nitems
         /\ N \in Nat \ {0} /\ arg.to + 1 = arg.from + LPN * N
         /\ from_node = arg.from
         /\ \/ arg.from = 0
            \/ \E k \in 0 .. input_bits(job.nitems) :
                 arg.from % 2 ^ k = 0 /\ arg.to = arg.from + 2 ^ k - 1
<1> DEFINE n == job.nitems
           f == arg.from
           t == arg.to
           u == (t + 1) \div LPN
           v == f \div LPN
<1>1. /\ n \in Nat \ {0} /\ LPN \in Nat \ {0} /\ NPL \in Nat \ {0} BY DepthFacts
<1>2. /\ f \in 0 .. (n - 1) /\ t \in 0 .. (n - 1) /\ f <= t /\ f % LPN = 0 /\ (t + 1) % LPN = 0
      /\ \/ f = 0
         \/ /\ NPL = 1
            /\ \E k \in 0 .. input_bits(n) : f % 2 ^ k = 0 /\ t = f + 2 ^ k - 1
  BY DEF Intervals
<1>3. f \in Nat /\ t \in Nat /\ t < n /\ t + 1 \in Nat
  <2> HIDE DEF f, t
  <2> QED BY <1>1, <1>2
<1>4. u \in Nat /\ v \in Nat /\ t + 1 = LPN * u /\ f = LPN * v
  <2> HIDE DEF f, t
  <2>1. t + 1 = LPN * u + ((t + 1) % LPN) /\ u \in Nat BY <1>1, <1>3, DivNat
  <2>2. f = LPN * v + (f % LPN) /\ v \in Nat BY <1>1, <1>3, DivNat
  <2>3. t + 1 = LPN * u + 0 /\ f = LPN * v + 0 BY <1>2, <2>1, <2>2
  <2> HIDE DEF u, v
  <2>4. LPN * u \in Nat /\ LPN * v \in Nat BY <1>1, <2>1, <2>2
  <2> QED BY <2>1, <2>2, <2>3, <2>4
<1>5. N = u - v
  <2>1. N = CeilDiv(t + 1, LPN) - v
    <3>1. ~(t < f) BY <1>2, <1>3
    <3> QED BY <3>1 DEF N, nodes_in_interval
  <2>2. CeilDiv(t + 1, LPN) = (LPN * u + LPN - 1) \div LPN
    <3>1. t + 1 + LPN - 1 = LPN * u + LPN - 1 BY <1>4
    <3> QED BY <3>1 DEF CeilDiv
  <2> HIDE DEF u, v, f, t
  <2>3. (LPN * u + LPN - 1) \div LPN = u
    <3> DEFINE a == LPN * u + LPN - 1
    <3>1. a \in Nat /\ LPN - 1 \in 0 .. (LPN - 1) /\ a = LPN * u + (LPN - 1) BY <1>1, <1>4
    <3> HIDE DEF a
    <3>2. a \div LPN = u BY <1>1, <1>4, <3>1, DivUnique
    <3> QED BY <3>2 DEF a
  <2> QED BY <2>1, <2>2, <2>3
<1>6. v < u
  <2> HIDE DEF f, t, u, v
  <2>1. LPN * v < LPN * u BY <1>2, <1>3, <1>4
  <2>2. \A a, c \in Nat : LPN * a < LPN * c => a < c BY <1>1
  <2> QED BY <1>4, <2>1, <2>2
<1>7. N \in Nat \ {0} /\ t + 1 = f + LPN * N
  <2> HIDE DEF f, t, u, v
  <2>1. LPN * (u - v) = LPN * u - LPN * v BY <1>1, <1>4
  <2> QED BY <1>1, <1>4, <1>5, <1>6, <2>1
<1>8. from_node = f
  <2>1. CASE f = 0
    <3>1. 0 \div NPL = 0 BY <1>1, DivNat
    <3> QED BY <2>1, <3>1 DEF from_node
  <2>2. CASE NPL = 1
    <3>1. f \div 1 = f
      <4> HIDE DEF f
      <4> QED BY <1>3
    <3> QED BY <2>2, <3>1 DEF from_node
  <2> QED BY <1>2, <2>1, <2>2
<1> QED BY <1>2, <1>3, <1>7, <1>8

\* An aligned block lies below one node, or its first leaf is the first of a node.
LEMMA Aligned ==
  ASSUME JobOK, NEW l \in 0 .. Depth, NEW k \in 0 .. input_bits(job.nitems), NEW f \in Nat,
         f % 2 ^ k = 0
  PROVE  \/ f % Span(l) = 0
         \/ \A x \in f .. (f + 2 ^ k - 1) : x \div Span(l) = f \div Span(l)
<1> DEFINE b == input_bits(job.nitems)
           S == Span(l)
           K == 2 ^ k
           j == b - l
<1>1. b \in Nat /\ Depth \in Nat /\ Depth <= b BY DepthFacts
<1>2. \A e \in Nat, g \in Nat : e + g <= b => 2 ^ (e + g) = 2 ^ e * 2 ^ g /\ 2 ^ e \in Nat \ {0} /\ 2 ^ g \in Nat \ {0}
  BY PowerSum
<1>3. S = 2 ^ j BY DEF Span
<1>4. S \in Nat \ {0} BY SpanFacts
<1> HIDE DEF b, S
<1>5. k \in Nat /\ k <= b /\ j \in Nat /\ j <= b BY <1>1 DEF b
<1>6. K \in Nat \ {0} BY <1>2, <1>5
<1>7. PICK q \in Nat : f = K * q
  <2>1. f % K = 0 OBVIOUS
  <2> HIDE DEF K
  <2>2. f \div K \in Nat /\ f = K * (f \div K) + (f % K) BY <1>6, DivNat
  <2>3. f = K * (f \div K) BY <1>6, <2>1, <2>2
  <2> QED BY <2>2, <2>3
<1>8. CASE j <= k
  <2>1. k - j \in Nat /\ j + (k - j) = k BY <1>5, <1>8
  <2>2. K = S * 2 ^ (k - j) /\ 2 ^ (k - j) \in Nat BY <1>2, <1>3, <1>5, <2>1
  <2>3. PICK c \in Nat : K = S * c BY <2>2
  <2> HIDE DEF K
  <2>4. f = S * (c * q) /\ c * q \in Nat BY <1>4, <1>7, <2>3
  <2>5. f = S * (c * q) + 0 /\ 0 \in 0 .. (S - 1) BY <1>4, <2>4
  <2>6. f % S = 0 BY <1>4, <2>4, <2>5, ModUnique
  <2> QED BY <2>6 DEF S
<1>9. CASE k <= j
  <2>1. j - k \in Nat /\ k + (j - k) = j BY <1>5, <1>9
  <2>2. S = K * 2 ^ (j - k) /\ 2 ^ (j - k) \in Nat \ {0} BY <1>2, <1>3, <1>5, <2>1
  <2>3. PICK c \in Nat \ {0} : S = K * c BY <2>2
  <2> HIDE DEF K
  <2> DEFINE h == q \div c
             r == q % c
  <2>4. h \in Nat /\ r \in 0 .. (c - 1) /\ q = c * h + r BY <1>7, <2>3, DivNat
  <2> HIDE DEF h, r
  <2>5. f = S * h + K * r
    <3>1. \A a1, a2, a3, a4 \in Nat : a1 * (a2 * a3 + a4) = (a1 * a2) * a3 + a1 * a4 OBVIOUS
    <3>2. r \in Nat BY <2>4
    <3> QED BY <1>6, <1>7, <2>3, <2>4, <3>1, <3>2
  <2>6. K * r + K <= S
    <3>1. r + 1 <= c /\ r \in Nat BY <2>4
    <3>2. K * (r + 1) <= K * c
      <4>1. \A a1, a2, a3 \in Nat : a2 <= a3 => a1 * a2 <= a1 * a3 OBVIOUS
      <4> QED BY <1>6, <2>3, <3>1, <4>1
    <3>3. K * (r + 1) = K * r + K BY <1>6, <3>1
    <3> QED BY <2>3, <3>2, <3>3
  <2>7. K * r \in Nat BY <1>6, <2>4
  <2>8. ASSUME NEW x \in f .. (f + K - 1) PROVE x \div S = h
    <3> DEFINE a == x - S * h
    <3>1. a \in 0 .. (S - 1) /\ x = S * h + a /\ x \in Nat
      <4>1. S * h \in Nat BY <1>4, <2>4
      <4> QED BY <1>4, <1>6, <2>4, <2>5, <2>6, <2>7, <4>1
    <3> HIDE DEF a
    <3> QED BY <1>4, <2>4, <3>1, DivUnique
  <2>9. f \in f .. (f + K - 1) BY <1>6
  <2> QED BY <2>8, <2>9 DEF S, K
<1> QED BY <1>5, <1>8, <1>9

\* A leaf of the interval has its place on every layer among the nodes that the
\* loop visits there.
LEMMA PlaceFacts ==
  ASSUME JobOK, arg \in Intervals(job.nitems), NEW l \in 0 .. Depth, NEW x \in arg.from .. arg.to
  PROVE  Place(l, x) \in 0 .. (NodesOn(l) - 1)
<1> DEFINE f == arg.from
           S == Span(l)
           M == 2 ^ (Depth - l)
           C == NodesOn(l)
<1>1. /\ f \in Nat /\ arg.to \in Nat /\ N \in Nat \ {0} /\ arg.to + 1 = f + LPN * N
      /\ arg.to < job.nitems /\ job.nitems \in Nat /\ LPN \in Nat \ {0}
  BY IntervalFacts, DepthFacts
<1>2. x \in Nat /\ f <= x /\ x <= arg.to /\ x < f + LPN * N /\ x < job.nitems
  <2> HIDE DEF f
  <2>1. x \in f .. arg.to BY DEF f
  <2>2. LPN * N \in Nat BY <1>1
  <2> QED BY <1>1, <2>1, <2>2
<1>3. S \in Nat \ {0} /\ M \in Nat \ {0} /\ S = Span(Depth) * M BY SpanFacts
<1>4. C = CeilDiv(N, M) BY DEF NodesOn, Depth
<1>5. C \in Nat \ {0} /\ N <= M * C
  <2> HIDE DEF M, C
  <2> QED BY <1>1, <1>3, <1>4, CeilFacts
<1>6. Place(l, x) = x \div S - f \div S BY DEF Place
<1> HIDE DEF S, M, C, f
<1>7. ASSUME x \div S = f \div S PROVE Place(l, x) \in 0 .. (C - 1)
  <2>1. f \div S \in Nat BY <1>1, <1>3, DivNat
  <2> QED BY <1>5, <1>6, <1>7, <2>1
<1>8. ASSUME f % S = 0, Span(Depth) = LPN PROVE Place(l, x) \in 0 .. (C - 1)
  <2> DEFINE q == f \div S
             r == x \div S
  <2>1. q \in Nat /\ f = S * q + (f % S) /\ r \in Nat /\ x = S * r + (x % S) /\ x % S \in 0 .. (S - 1)
    BY <1>1, <1>2, <1>3, DivNat
  <2>2. f = S * q + 0 BY <1>8, <2>1
  <2> HIDE DEF q, r
  <2>3. S * q \in Nat /\ S * r \in Nat BY <1>3, <2>1
  <2>4. f = S * q /\ S * r <= x /\ x < S * r + S
    <3>1. PICK e \in 0 .. (S - 1) : x = S * r + e BY <2>1
    <3> QED BY <1>3, <2>2, <2>3, <3>1
  <2>5. q <= r
    <3>1. S * q < S * (r + 1)
      <4>1. S * (r + 1) = S * r + S BY <1>3, <2>1
      <4> QED BY <1>1, <1>2, <1>3, <2>3, <2>4, <4>1
    <3>2. \A a, c \in Nat : S * a < S * c => a < c BY <1>3
    <3>3. q < r + 1 BY <2>1, <3>1, <3>2
    <3> QED BY <2>1, <3>3
  <2>6. LPN * N <= S * C
    <3>1. LPN * N <= LPN * (M * C)
      <4>1. \A a, c, e \in Nat : a <= c => e * a <= e * c OBVIOUS
      <4>2. M * C \in Nat BY <1>3, <1>5
      <4> QED BY <1>1, <1>5, <4>1, <4>2
    <3>2. LPN * (M * C) = (LPN * M) * C BY <1>1, <1>3, <1>5
    <3> QED BY <1>3, <1>8, <3>1, <3>2
  <2>7. S * r < S * (q + C)
    <3>1. S * (q + C) = S * q + S * C BY <1>3, <1>5, <2>1
    <3>2. S * C \in Nat /\ LPN * N \in Nat BY <1>1, <1>3, <1>5
    <3> QED BY <1>1, <1>2, <2>3, <2>4, <2>6, <3>1, <3>2
  <2>8. r < q + C
    <3>1. \A a, c \in Nat : S * a < S * c => a < c BY <1>3
    <3>2. q + C \in Nat BY <1>5, <2>1
    <3> QED BY <2>1, <2>7, <3>1, <3>2
  <2>9. Place(l, x) = r - q BY <1>6 DEF q, r
  <2> QED BY <1>5, <2>1, <2>5, <2>8, <2>9
<1>9. CASE Depth = 0
  <2>1. l = 0 /\ x \in 0 .. (job.nitems - 1) /\ f \in 0 .. (job.nitems - 1)
    <3>1. \A a \in 0 .. 0 : a = 0 OBVIOUS
    <3> QED BY <1>1, <1>2, <1>9, <3>1
  <2>2. x \div S = 0 /\ f \div S = 0 BY <2>1, FromTheTop DEF S, Span
  <2> QED BY <1>7, <2>2 DEF C
<1>10. CASE Span(Depth) = LPN
  <2>1. \/ f % S = 0
        \/ x \div S = f \div S
    <3>1. CASE f = 0
      <4>1. 0 % S = 0 BY <1>3
      <4> QED BY <3>1, <4>1
    <3>2. CASE \E k \in 0 .. input_bits(job.nitems) : f % 2 ^ k = 0 /\ arg.to = f + 2 ^ k - 1
      <4>1. PICK k \in 0 .. input_bits(job.nitems) : f % 2 ^ k = 0 /\ arg.to = f + 2 ^ k - 1 BY <3>2
      <4>2. x \in f .. (f + 2 ^ k - 1) BY <4>1 DEF f
      <4> QED BY <1>1, <4>1, <4>2, Aligned DEF S
    <3> QED BY <3>1, <3>2, IntervalFacts DEF f
  <2> QED BY <1>7, <1>8, <1>10, <2>1 DEF C
<1> QED BY <1>9, <1>10, DepthFacts DEF Span

\* The place of a leaf on the next layer, which is where the loop puts the child
\* in its direction.
LEMMA PlaceStep ==
  ASSUME JobOK, arg \in Intervals(job.nitems), layer \in 0 .. (Depth - 1), NEW x \in arg.from .. arg.to
  PROVE  LET d == BitAt(job.nitems, x, layer)
         IN  /\ d \in Two /\ nextbit \in Two
             /\ Place(layer + 1, x) = 2 * Place(layer, x) - nextbit + d
<1> DEFINE f == arg.from
           d == BitAt(job.nitems, x, layer)
<1>1. f \in Nat /\ arg.to \in Nat /\ from_node = f BY IntervalFacts
<1>2. x \in Nat
  <2> HIDE DEF f
  <2>1. x \in f .. arg.to BY DEF f
  <2> QED BY <1>1, <2>1
<1>3. d \in Two /\ x \div Span(layer + 1) = 2 * (x \div Span(layer)) + d
  BY <1>2, BitFacts DEF Span
<1>4. nextbit \in Two /\ f \div Span(layer + 1) = 2 * (f \div Span(layer)) + nextbit
  BY <1>1, BitFacts DEF Span, nextbit
<1>5. Span(layer) \in Nat \ {0}
  <2>1. layer \in 0 .. Depth BY DepthFacts
  <2> QED BY <2>1, SpanFacts
<1>6. x \div Span(layer) \in Nat /\ f \div Span(layer) \in Nat BY <1>1, <1>2, <1>5, DivNat
<1>7. \A a, c \in Nat, e, g \in Two : (2 * a + e) - (2 * c + g) = 2 * (a - c) - g + e BY DEF Two
<1> HIDE DEF d, f
<1>8. Place(layer + 1, x) = x \div Span(layer + 1) - f \div Span(layer + 1)
      /\ Place(layer, x) = x \div Span(layer) - f \div Span(layer)
  BY DEF Place, f
<1>9. (2 * (x \div Span(layer)) + d) - (2 * (f \div Span(layer)) + nextbit)
        = 2 * (x \div Span(layer) - f \div Span(layer)) - nextbit + d
  BY <1>3, <1>4, <1>6, <1>7
<1>10. Place(layer + 1, x) = 2 * Place(layer, x) - nextbit + d
  BY <1>3, <1>4, <1>8, <1>9, Zenon
<1> QED BY <1>3, <1>4, <1>10 DEF d

\* What depends on the job, the keys and the interval.
LEMMA ExpandFixed ==
  ASSUME job' = job, key' = key, arg' = arg
  PROVE  /\ N' = N /\ NPL' = NPL /\ LPN' = LPN /\ WordsOfLeaf' = WordsOfLeaf /\ Depth' = Depth
         /\ Intervals(job.nitems)' = Intervals(job.nitems)
         /\ \A l : NodesOn(l)' = NodesOn(l)
         /\ \A l, x : Place(l, x)' = Place(l, x)
         /\ \A c, i : SeedAt(c, i)' = SeedAt(c, i) /\ FlagAt(c, i)' = FlagAt(c, i)
         /\ \A p, x : Walk(p, x)' = Walk(p, x)
         /\ \A p, x : Leaves(p, x)' = Leaves(p, x)
<1>1. NPL' = NPL /\ LPN' = LPN /\ WordsOfLeaf' = WordsOfLeaf /\ Depth' = Depth
  BY DEF NPL, LPN, WordsOfLeaf, Depth, depth
<1>2. N' = N BY <1>1 DEF N, nodes_in_interval
<1>3. Intervals(job.nitems)' = Intervals(job.nitems) BY <1>1 DEF Intervals
<1>4. \A l : NodesOn(l)' = NodesOn(l) BY <1>1, <1>2 DEF NodesOn, Depth
<1>5. \A l, x : Place(l, x)' = Place(l, x) BY DEF Place, Span
<1>6. \A c, i : SeedAt(c, i)' = SeedAt(c, i) /\ FlagAt(c, i)' = FlagAt(c, i)
  BY <1>1, <1>2 DEF SeedAt, FlagAt
<1>7. \A p, x : Walk(p, x)' = Walk(p, x)
  BY <1>1 DEF Walk, Steps, depth
<1>8. \A p, x : Leaves(p, x)' = Leaves(p, x)
  BY <1>1, <1>7 DEF Leaves, Finalized, stretch_leaf
<1> QED BY <1>1, <1>2, <1>3, <1>4, <1>5, <1>6, <1>7, <1>8

\* How many nodes the loop visits on a layer.
LEMMA NodesFacts ==
  ASSUME JobOK, arg \in Intervals(job.nitems), NEW l \in 0 .. Depth
  PROVE  /\ N \in Nat \ {0} /\ NodesOn(l) \in Nat \ {0} /\ NodesOn(l) <= N
         /\ l < Depth => 2 * NodesOn(l) <= NodesOn(l + 1) + 1
         /\ l = Depth => NodesOn(l) = N
<1> DEFINE M == 2 ^ (Depth - l)
<1>1. N \in Nat \ {0} BY IntervalFacts
<1>2. M \in Nat \ {0} BY SpanFacts
<1>3. NodesOn(l) = CeilDiv(N, M) BY DEF NodesOn, Depth
<1>4. NodesOn(l) \in Nat \ {0} /\ NodesOn(l) <= N
  <2> HIDE DEF M
  <2> QED BY <1>1, <1>2, <1>3, CeilFacts
<1>5. ASSUME l < Depth PROVE 2 * NodesOn(l) <= NodesOn(l + 1) + 1
  <2> DEFINE m == 2 ^ (Depth - (l + 1))
  <2>1. l + 1 \in 0 .. Depth BY <1>5, DepthFacts
  <2>2. m \in Nat \ {0} /\ M = 2 * m BY <1>5, <2>1, SpanFacts
  <2>3. NodesOn(l + 1) = CeilDiv(N, m) BY DEF NodesOn, Depth
  <2> HIDE DEF m, M
  <2> QED BY <1>1, <1>3, <2>2, <2>3, CeilHalf
<1>6. ASSUME l = Depth PROVE NodesOn(l) = N
  <2>1. M = 1 BY <1>6, SpanFacts
  <2>2. (N + 1 - 1) \div 1 = N BY <1>1
  <2> QED BY <1>3, <2>1, <2>2 DEF CeilDiv
<1> QED BY <1>1, <1>4, <1>5, <1>6

\* The layer that is written stays within the buffer, and away from the nodes of
\* the other layer that are still to be read.
LEMMA Apart ==
  ASSUME JobOK, arg \in Intervals(job.nitems), layer \in 0 .. (Depth - 1),
         NEW q \in 0 .. (NodesOn(layer) - 1), NEW j \in 0 .. (NodesOn(layer + 1) - 1)
  PROVE  /\ Prev \in Two /\ 1 - Prev \in Two
         /\ FlagAt(1 - Prev, j) \in 0 .. (N - 1)
         /\ FlagAt(Prev, q) \in 0 .. (N - 1)
         /\ \A i \in 0 .. (q - 1) : j <= 2 * i + 1 => FlagAt(Prev, q) # FlagAt(1 - Prev, j)
<1> DEFINE a == NodesOn(layer)
           b == NodesOn(layer + 1)
<1>1. layer \in Nat /\ Depth \in Nat /\ layer < Depth /\ layer \in 0 .. Depth /\ layer + 1 \in 0 .. Depth
  BY DepthFacts
<1>2. N \in Nat \ {0} /\ a \in Nat \ {0} /\ b \in Nat \ {0} /\ b <= N /\ 2 * a <= b + 1 BY <1>1, NodesFacts
<1>3. Prev = (Depth - layer) % 2 BY DEF Prev, Depth
<1>4. FlagAt(0, q) = 0 + q /\ FlagAt(0, j) = 0 + j /\ FlagAt(1, q) = (N \div 2) + q /\ FlagAt(1, j) = (N \div 2) + j
  BY DEF FlagAt, Half
<1>5. q \in Nat /\ q < a /\ j \in Nat /\ j < b BY <1>2
<1> HIDE DEF a, b
<1>6. CASE Prev = 1
  <2>1. 1 - Prev = 0 BY <1>6
  <2>2. j \in 0 .. (N - 1) /\ (N \div 2) + q \in 0 .. (N - 1) BY <1>2, <1>5
  <2>3. ASSUME NEW i \in 0 .. (q - 1), j <= 2 * i + 1 PROVE (N \div 2) + q # j BY <1>2, <1>5, <2>3
  <2> QED BY <1>4, <1>6, <2>1, <2>2, <2>3 DEF Two
<1>7. CASE Prev = 0
  <2>1. 1 - Prev = 1 BY <1>7
  <2>2. layer + 1 < Depth /\ (layer + 1) + 1 \in 0 .. Depth
    <3>1. Depth - layer # 1 BY <1>1, <1>3, <1>7
    <3> QED BY <1>1, <3>1
  <2>3. 2 * b <= N + 1
    <3>1. NodesOn((layer + 1) + 1) \in Nat /\ NodesOn((layer + 1) + 1) <= N BY <2>2, NodesFacts
    <3>2. 2 * b <= NodesOn((layer + 1) + 1) + 1 BY <1>1, <2>2, NodesFacts DEF b
    <3> QED BY <1>2, <3>1, <3>2
  <2>4. q \in 0 .. (N - 1) /\ (N \div 2) + j \in 0 .. (N - 1) BY <1>2, <1>5, <2>3
  <2>5. ASSUME NEW i \in 0 .. (q - 1) PROVE q # (N \div 2) + j BY <1>2, <1>5, <2>3
  <2> QED BY <1>4, <1>7, <2>1, <2>4, <2>5 DEF Two
<1>8. Prev \in {0, 1} BY <1>1, <1>3
<1> QED BY <1>6, <1>7, <1>8

\* Where the child in direction d of node pos goes.
At(d) == 2 * pos - nextbit + d

\* The loop computes the children that belong to the interval, and no others.
LEMMA DirFacts ==
  ASSUME JobOK, arg \in Intervals(job.nitems), layer \in 0 .. (Depth - 1),
         pos \in 0 .. (NodesOn(layer) - 1)
  PROVE  /\ Dirs \subseteq Two
         /\ \A d \in Dirs : At(d) \in 0 .. (NodesOn(layer + 1) - 1) /\ At(d) <= 2 * pos + 1
         /\ \A x \in arg.from .. arg.to :
              Place(layer, x) = pos =>
                BitAt(job.nitems, x, layer) \in Dirs /\ Place(layer + 1, x) = At(BitAt(job.nitems, x, layer))
<1> DEFINE a == NodesOn(layer)
           b == NodesOn(layer + 1)
<1>1. layer \in Nat /\ Depth \in Nat /\ layer < Depth /\ layer \in 0 .. Depth /\ layer + 1 \in 0 .. Depth
  BY DepthFacts
<1>2. a \in Nat \ {0} /\ b \in Nat \ {0} /\ 2 * a <= b + 1 BY <1>1, NodesFacts
<1>3. nextbit \in {0, 1}
  <2>1. arg.from \in arg.from .. arg.to BY IntervalFacts
  <2> QED BY <2>1, PlaceStep DEF Two
<1>4. /\ nextbit = 1 /\ pos = 0 => Dirs = {1}
      /\ ~(nextbit = 1 /\ pos = 0) /\ (pos < a - 1 \/ 2 * pos - nextbit < b - 1) => Dirs = {0, 1}
      /\ ~(nextbit = 1 /\ pos = 0) /\ ~(pos < a - 1 \/ 2 * pos - nextbit < b - 1) => Dirs = {0}
  BY DEF Dirs, L, R
<1>5. pos \in Nat /\ pos < a BY <1>2
<1>6. ASSUME NEW x \in arg.from .. arg.to, Place(layer, x) = pos
      PROVE  BitAt(job.nitems, x, layer) \in Dirs /\ Place(layer + 1, x) = At(BitAt(job.nitems, x, layer))
  <2> DEFINE d == BitAt(job.nitems, x, layer)
  <2>1. d \in {0, 1} /\ Place(layer + 1, x) = 2 * pos - nextbit + d BY <1>6, PlaceStep DEF Two
  <2>2. Place(layer + 1, x) \in 0 .. (b - 1) BY <1>1, PlaceFacts
  <2> HIDE DEF d, a, b
  <2>3. d \in Dirs
    <3>1. CASE nextbit = 1 /\ pos = 0 BY <1>2, <1>4, <2>1, <2>2, <3>1
    <3>2. CASE ~(nextbit = 1 /\ pos = 0) /\ (pos < a - 1 \/ 2 * pos - nextbit < b - 1) BY <1>4, <2>1, <3>2
    <3>3. CASE ~(nextbit = 1 /\ pos = 0) /\ ~(pos < a - 1 \/ 2 * pos - nextbit < b - 1)
      <4>1. d = 0 BY <1>2, <1>3, <1>5, <2>1, <2>2, <3>3
      <4> QED BY <1>4, <3>3, <4>1
    <3> QED BY <3>1, <3>2, <3>3
  <2> QED BY <2>1, <2>3 DEF At, d
<1> HIDE DEF a, b
<1>7. Dirs \subseteq {0, 1} BY <1>4
<1>8. ASSUME NEW d \in Dirs PROVE 2 * pos - nextbit + d \in 0 .. (b - 1) /\ 2 * pos - nextbit + d <= 2 * pos + 1
  <2>1. d \in {0, 1} BY <1>7
  <2>2. nextbit = 1 /\ pos = 0 => d = 1 BY <1>4
  <2>3. d = 1 => (nextbit = 1 /\ pos = 0) \/ pos < a - 1 \/ 2 * pos - nextbit < b - 1 BY <1>4
  <2> QED BY <1>2, <1>3, <1>5, <2>1, <2>2, <2>3
<1> QED BY <1>6, <1>7, <1>8 DEF At, Two, b

\* A node of a layer buffer, and the child of node pos in direction d.
NodeAt(p, c, i) == [s |-> out[p][SeedAt(c, i)], t |-> flag[p][FlagAt(c, i)]]
ChildAt(p, d) == traverse_(key[p].prgkey, NodeAt(p, Prev, pos), d, key[p].cw[layer + 1])

\* What one iteration writes, and what it leaves alone.
LEMMA TraverseEffect ==
  ASSUME JobOK, LayersOK, TraverseNode, layer \in 0 .. (Depth - 1), NEW p \in Two
  PROVE  /\ DOMAIN out'[p] = DOMAIN out[p] /\ DOMAIN flag'[p] = DOMAIN flag[p]
         /\ \A d \in Dirs :
              /\ out'[p][SeedAt(1 - Prev, At(d))] = ChildAt(p, d).s
              /\ flag'[p][FlagAt(1 - Prev, At(d))] = ChildAt(p, d).t
         /\ \A c, i \in Int :
              /\ FlagAt(c, i) \in 0 .. (N - 1)
              /\ \A d \in Dirs : FlagAt(c, i) # FlagAt(1 - Prev, At(d))
              => /\ out'[p][SeedAt(c, i)] = out[p][SeedAt(c, i)]
                 /\ flag'[p][FlagAt(c, i)] = flag[p][FlagAt(c, i)]
<1> DEFINE e == 1 - Prev
           base == N * (NPL - 1)
<1>1. /\ arg \in Intervals(job.nitems) /\ pos \in 0 .. (NodesOn(layer) - 1)
      /\ DOMAIN out[p] = 0 .. (N * NPL - 1) /\ DOMAIN flag[p] = 0 .. (N - 1)
  <2>1. NodesOn(layer) \in Nat
    <3>1. layer \in 0 .. Depth BY DepthFacts
    <3> QED BY <3>1, NodesFacts DEF LayersOK
  <2>2. pos < NodesOn(layer) /\ pos \in 0 .. NodesOn(layer) BY DEF TraverseNode, LayersOK
  <2> QED BY <2>1, <2>2 DEF LayersOK
<1>2. out'[p] = [i \in DOMAIN out[p] |->
                  IF \E d \in Dirs : i = SeedAt(e, At(d))
                  THEN ChildAt(p, i - SeedAt(e, At(0))).s ELSE out[p][i]]
  BY DEF TraverseNode, At, ChildAt, NodeAt
<1>3. flag'[p] = [i \in DOMAIN flag[p] |->
                   IF \E d \in Dirs : i = FlagAt(e, At(d))
                   THEN ChildAt(p, i - FlagAt(e, At(0))).t ELSE flag[p][i]]
  BY DEF TraverseNode, At, ChildAt, NodeAt
<1>4. N \in Nat \ {0} /\ NPL \in Nat \ {0} BY <1>1, IntervalFacts, DepthFacts
<1>5. base \in Nat /\ N * NPL = base + N BY <1>4
<1>6. nextbit \in {0, 1} /\ pos \in Nat
  <2>1. arg.from \in arg.from .. arg.to BY <1>1, IntervalFacts
  <2>2. nextbit \in Two BY <1>1, <2>1, PlaceStep
  <2>3. pos \in Nat
    <3>1. layer \in 0 .. Depth BY DepthFacts
    <3>2. NodesOn(layer) \in Nat BY <1>1, <3>1, NodesFacts
    <3> QED BY <1>1, <3>2
  <2> QED BY <2>2, <2>3 DEF Two
<1>7. \A c : Half(N, c) \in Nat BY <1>4 DEF Half
<1>8. \A c, i : SeedAt(c, i) = base + Half(N, c) + i /\ FlagAt(c, i) = Half(N, c) + i BY DEF SeedAt, FlagAt
<1>9. \A d \in Dirs : d \in {0, 1} /\ At(d) \in Int /\ At(d) = 2 * pos - nextbit + d BY <1>1, <1>6, DirFacts DEF At, Two
<1>9a. At(0) = 2 * pos - nextbit + 0 BY DEF At
<1>10. \A d \in Dirs : FlagAt(e, At(d)) \in 0 .. (N - 1)
  <2> SUFFICES ASSUME NEW d \in Dirs PROVE FlagAt(e, At(d)) \in 0 .. (N - 1) OBVIOUS
  <2>1. At(d) \in 0 .. (NodesOn(layer + 1) - 1) BY <1>1, DirFacts
  <2> QED BY <1>1, <2>1, Apart
<1> HIDE DEF base, e
<1>11. \A c, i \in Int : SeedAt(c, i) = base + FlagAt(c, i) /\ FlagAt(c, i) \in Int BY <1>5, <1>7, <1>8
<1>12. \A j \in 0 .. (N - 1) : base + j \in 0 .. (N * NPL - 1) BY <1>4, <1>5
<1>13. e \in Int
  <2>1. Prev \in Int BY DepthFacts DEF Prev, Depth
  <2> QED BY <2>1 DEF e
<1>14. ASSUME NEW d \in Dirs
       PROVE  /\ out'[p][SeedAt(e, At(d))] = ChildAt(p, d).s
              /\ flag'[p][FlagAt(e, At(d))] = ChildAt(p, d).t
  <2>1. FlagAt(e, At(d)) \in 0 .. (N - 1) /\ SeedAt(e, At(d)) \in 0 .. (N * NPL - 1)
    BY <1>9, <1>10, <1>11, <1>12, <1>13
  <2>2. SeedAt(e, At(d)) - SeedAt(e, At(0)) = d /\ FlagAt(e, At(d)) - FlagAt(e, At(0)) = d
    BY <1>5, <1>6, <1>7, <1>8, <1>9, <1>9a
  <2> QED BY <1>1, <1>2, <1>3, <2>1, <2>2
<1>15. ASSUME NEW c \in Int, NEW i \in Int, FlagAt(c, i) \in 0 .. (N - 1),
              \A d \in Dirs : FlagAt(c, i) # FlagAt(e, At(d))
       PROVE  /\ out'[p][SeedAt(c, i)] = out[p][SeedAt(c, i)]
              /\ flag'[p][FlagAt(c, i)] = flag[p][FlagAt(c, i)]
  <2>1. SeedAt(c, i) \in 0 .. (N * NPL - 1) BY <1>11, <1>12, <1>15
  <2>2. \A d \in Dirs : SeedAt(c, i) # SeedAt(e, At(d))
    <3> SUFFICES ASSUME NEW d \in Dirs PROVE SeedAt(c, i) # SeedAt(e, At(d)) OBVIOUS
    <3>1. SeedAt(c, i) = base + FlagAt(c, i) /\ FlagAt(c, i) \in Int BY <1>11
    <3>2. SeedAt(e, At(d)) = base + FlagAt(e, At(d)) /\ FlagAt(e, At(d)) \in Int BY <1>9, <1>11, <1>13
    <3>3. FlagAt(c, i) # FlagAt(e, At(d)) BY <1>15
    <3>4. \A u, v \in Int : base + u = base + v => u = v BY <1>5
    <3> QED BY <3>1, <3>2, <3>3, <3>4, Zenon
  <2> QED BY <1>1, <1>2, <1>3, <1>15, <2>1, <2>2
<1> QED BY <1>2, <1>3, <1>14, <1>15 DEF e

\* One iteration: the children of node pos are where the next layer looks for
\* them, the rest of this layer is still there.
LEMMA TraverseOK ==
  ASSUME DpfInv, LayersOK, TraverseNode
  PROVE  LayersOK'
<1>1. /\ job' = job /\ key' = key /\ arg' = arg /\ layer' = layer /\ pos' = pos + 1 /\ pc = "layers"
      /\ layer < Depth /\ pos < NodesOn(layer)
  BY DEF TraverseNode, genvars, Depth
<1>2. JobOK /\ Depth \in Nat /\ layer \in 0 .. Depth BY DepthFacts DEF DpfInv, Types
<1>3. layer \in 0 .. (Depth - 1) /\ layer + 1 \in 0 .. Depth /\ layer \in Nat BY <1>1, <1>2
<1>4. arg \in Intervals(job.nitems) /\ pos \in 0 .. NodesOn(layer) BY DEF LayersOK
<1>5. NodesOn(layer) \in Nat BY <1>2, <1>4, NodesFacts
<1>6. pos \in 0 .. (NodesOn(layer) - 1) /\ pos \in Nat /\ pos + 1 \in 0 .. NodesOn(layer) BY <1>1, <1>4, <1>5
<1>7. PICK tr : Made(tr) BY <1>1 DEF DpfInv
<1>8. \A p \in Two : key[p].nitems = job.nitems BY <1>1, <1>7, KeyFields DEF Made
<1>9. ASSUME NEW p \in Two, NEW x \in arg.from .. arg.to
      PROVE  Reading(p, x)' /\ Written(p, x)' /\ Output(p, x)'
  <2> DEFINE q == Place(layer, x)
             r == Place(layer + 1, x)
             d == BitAt(job.nitems, x, layer)
  <2>1. q \in 0 .. (NodesOn(layer) - 1) /\ r \in 0 .. (NodesOn(layer + 1) - 1) BY <1>2, <1>3, <1>4, PlaceFacts
  <2>2. d \in Two /\ nextbit \in Two /\ r = 2 * q - nextbit + d BY <1>2, <1>3, <1>4, PlaceStep
  <2>3. q \in Nat /\ r \in Nat
    <3>1. NodesOn(layer + 1) \in Nat BY <1>2, <1>3, <1>4, NodesFacts
    <3> HIDE DEF q, r
    <3> QED BY <1>5, <2>1, <3>1
  <2>4. Prev \in Two /\ 1 - Prev \in Two /\ Prev \in Int /\ 1 - Prev \in Int
    <3>1. Prev \in Two /\ 1 - Prev \in Two BY <1>2, <1>3, <1>4, <2>1, Apart
    <3> QED BY <3>1 DEF Two
  <2>5. FlagAt(1 - Prev, r) \in 0 .. (N - 1) /\ FlagAt(Prev, q) \in 0 .. (N - 1)
    BY <1>2, <1>3, <1>4, <2>1, Apart
  <2>6. /\ N' = N /\ Depth' = Depth /\ Prev' = Prev
        /\ Place(layer, x)' = q /\ Place(layer + 1, x)' = r
        /\ Walk(p, x)' = Walk(p, x)
        /\ \A c, i : SeedAt(c, i)' = SeedAt(c, i) /\ FlagAt(c, i)' = FlagAt(c, i)
    <3>1. Prev' = Prev BY <1>1, ExpandFixed DEF Prev, Depth
    <3>2. Place(layer, x)' = q /\ Place(layer + 1, x)' = r BY <1>1 DEF Place, Span
    <3> QED BY <1>1, <3>1, <3>2, ExpandFixed
  <2>7. \A c, i \in Int :
          /\ FlagAt(c, i) \in 0 .. (N - 1)
          /\ \A e \in Dirs : FlagAt(c, i) # FlagAt(1 - Prev, At(e))
          => /\ out'[p][SeedAt(c, i)] = out[p][SeedAt(c, i)]
             /\ flag'[p][FlagAt(c, i)] = flag[p][FlagAt(c, i)]
    BY <1>2, <1>3, TraverseEffect
  <2>8. \A e \in Dirs : At(e) \in 0 .. (NodesOn(layer + 1) - 1) /\ At(e) <= 2 * pos + 1
    BY <1>2, <1>3, <1>4, <1>6, DirFacts
  <2>9. Reading(p, x) /\ Written(p, x) BY DEF LayersOK
  <2> HIDE DEF q, r, d
  <2>10. Reading(p, x)'
    <3> SUFFICES ASSUME q >= pos + 1
                 PROVE  /\ out'[p][SeedAt(Prev, q)] = Walk(p, x)[layer].s
                        /\ flag'[p][FlagAt(Prev, q)] = Walk(p, x)[layer].t
      BY <1>1, <2>6 DEF Reading, Stored
    <3>1. q >= pos /\ pos \in 0 .. (q - 1) BY <1>6, <2>3
    <3>2. out[p][SeedAt(Prev, q)] = Walk(p, x)[layer].s /\ flag[p][FlagAt(Prev, q)] = Walk(p, x)[layer].t
      BY <2>9, <3>1 DEF Reading, Stored, q
    <3>3. \A e \in Dirs : FlagAt(Prev, q) # FlagAt(1 - Prev, At(e))
      <4> SUFFICES ASSUME NEW e \in Dirs PROVE FlagAt(Prev, q) # FlagAt(1 - Prev, At(e)) OBVIOUS
      <4>1. At(e) \in 0 .. (NodesOn(layer + 1) - 1) /\ At(e) <= 2 * pos + 1 BY <2>8
      <4> QED BY <1>2, <1>3, <1>4, <2>1, <3>1, <4>1, Apart DEF q
    <3> QED BY <2>3, <2>4, <2>5, <2>7, <3>2, <3>3
  <2>11. ASSUME q < pos + 1
         PROVE  /\ out'[p][SeedAt(1 - Prev, r)] = Walk(p, x)[layer + 1].s
                /\ flag'[p][FlagAt(1 - Prev, r)] = Walk(p, x)[layer + 1].t
    <3>1. CASE q = pos
      <4>1. d \in Dirs /\ r = At(d) BY <1>2, <1>3, <1>4, <1>6, <3>1, DirFacts DEF q, r, d
      <4>2. /\ out'[p][SeedAt(1 - Prev, At(d))] = ChildAt(p, d).s
            /\ flag'[p][FlagAt(1 - Prev, At(d))] = ChildAt(p, d).t
        BY <1>2, <1>3, <4>1, TraverseEffect
      <4>3. out[p][SeedAt(Prev, pos)] = Walk(p, x)[layer].s /\ flag[p][FlagAt(Prev, pos)] = Walk(p, x)[layer].t
        <5>1. Place(layer, x) = pos /\ Place(layer, x) >= pos BY <1>6, <3>1 DEF q
        <5> QED BY <2>9, <5>1 DEF Reading, Stored
      <4>4. ChildAt(p, d) = Walk(p, x)[layer + 1]
        <5>1. Walk(p, x)[layer + 1]
                = traverse_(key[p].prgkey, Walk(p, x)[layer], BitAt(key[p].nitems, x, layer), key[p].cw[layer + 1])
          BY <1>2, <1>3, <1>8, WalkFacts DEF Depth
        <5>2. \A k, nd, b, w : traverse_(k, [s |-> nd.s, t |-> nd.t], b, w) = traverse_(k, nd, b, w)
          BY DEF traverse_
        <5> QED BY <1>8, <4>3, <5>1, <5>2 DEF ChildAt, NodeAt, d
      <4> QED BY <4>1, <4>2, <4>4
    <3>2. CASE q < pos
      <4>1. out[p][SeedAt(1 - Prev, r)] = Walk(p, x)[layer + 1].s
            /\ flag[p][FlagAt(1 - Prev, r)] = Walk(p, x)[layer + 1].t
        BY <1>1, <2>9, <3>2 DEF Written, Stored, q, r
      <4>2. \A e \in Dirs : FlagAt(1 - Prev, r) # FlagAt(1 - Prev, At(e))
        <5> SUFFICES ASSUME NEW e \in Dirs PROVE FlagAt(1 - Prev, r) # FlagAt(1 - Prev, At(e)) OBVIOUS
        <5>1. e \in {0, 1} /\ At(e) = 2 * pos - nextbit + e /\ d \in {0, 1} /\ nextbit \in {0, 1}
          BY <1>2, <1>3, <1>4, <1>6, <2>2, DirFacts DEF At, Two
        <5>2. r # At(e) /\ At(e) \in Int BY <1>6, <2>2, <2>3, <3>2, <5>1
        <5>3. N \in Nat BY <1>2, <1>4, IntervalFacts
        <5>4. \A c : Half(N, c) \in Nat BY <5>3 DEF Half
        <5>5. \A h \in Nat, u, v \in Int : h + u = h + v => u = v OBVIOUS
        <5> QED BY <2>3, <5>2, <5>4, <5>5 DEF FlagAt
      <4> QED BY <2>3, <2>4, <2>5, <2>7, <4>1, <4>2
    <3>3. q = pos \/ q < pos BY <1>6, <2>3, <2>11
    <3> QED BY <3>1, <3>2, <3>3
  <2>12. Written(p, x)' BY <1>1, <2>6, <2>11 DEF Written, Stored
  <2>13. Output(p, x)'
    <3>1. layer' # Depth' BY <1>1, <1>2, <1>3, <2>6
    <3> QED BY <3>1 DEF Output
  <2> QED BY <2>10, <2>12, <2>13
<1>10. ASSUME NEW p \in Two
       PROVE  DOMAIN out'[p] = 0 .. (N' * NPL' - 1) /\ DOMAIN flag'[p] = 0 .. (N' - 1)
  <2>1. DOMAIN out'[p] = DOMAIN out[p] /\ DOMAIN flag'[p] = DOMAIN flag[p] BY <1>2, <1>3, TraverseEffect
  <2>2. N' = N /\ NPL' = NPL BY <1>1, ExpandFixed
  <2> QED BY <2>1, <2>2 DEF LayersOK
<1>11. arg' \in Intervals(job.nitems)' /\ pos' \in 0 .. NodesOn(layer)'
  <2>1. Intervals(job.nitems)' = Intervals(job.nitems) BY <1>1, ExpandFixed
  <2>2. NodesOn(layer)' = NodesOn(layer) BY <1>1, ExpandFixed DEF NodesOn, Depth
  <2> QED BY <1>1, <1>4, <1>6, <2>1, <2>2
<1> QED BY <1>1, <1>9, <1>10, <1>11 DEF LayersOK

\* Above every leaf of the interval there is the root.
LEMMA RootPlace ==
  JobOK /\ arg \in Intervals(job.nitems) =>
    /\ N \in Nat \ {0} /\ NodesOn(0) \in Nat
    /\ \A x \in arg.from .. arg.to : Place(0, x) = 0
<1> SUFFICES ASSUME JobOK, arg \in Intervals(job.nitems)
             PROVE  /\ N \in Nat \ {0} /\ NodesOn(0) \in Nat
                    /\ \A x \in arg.from .. arg.to : Place(0, x) = 0
  OBVIOUS
<1>1. /\ arg.from \in Nat /\ arg.to \in Nat /\ arg.from <= arg.to /\ arg.to < job.nitems
      /\ job.nitems \in Nat /\ 0 \in 0 .. Depth
  BY IntervalFacts, DepthFacts
<1>2. N \in Nat \ {0} /\ NodesOn(0) \in Nat BY <1>1, NodesFacts
<1>3. ASSUME NEW x \in arg.from .. arg.to PROVE Place(0, x) = 0
  <2>1. x \in 0 .. (job.nitems - 1) /\ arg.from \in 0 .. (job.nitems - 1) BY <1>1
  <2>2. x \div Span(0) = 0 /\ arg.from \div Span(0) = 0 BY <2>1, FromTheTop DEF Span
  <2> QED BY <2>2 DEF Place
<1> QED BY <1>2, <1>3

\* The same after a step.
LEMMA RootPlaceNext ==
  (JobOK /\ arg \in Intervals(job.nitems))' =>
    (/\ N \in Nat \ {0} /\ NodesOn(0) \in Nat
     /\ \A x \in arg.from .. arg.to : Place(0, x) = 0)'
  BY RootPlace, PTL

\* At first the buffers hold the root.
LEMMA IntervalStartOK ==
  ASSUME DpfInv, IntervalStart
  PROVE  LayersOK'
<1>1. /\ job' = job /\ key' = key /\ layer' = 0 /\ pos' = 0 /\ pc = "ready" BY DEF IntervalStart, genvars
<1> DEFINE n == nodes_in_interval(arg'.from, arg'.to)
           h == Half(n, depth(job.nitems) % 2)
<1>2. /\ arg' \in Intervals(job.nitems)
      /\ out' = [p \in Two |-> [i \in 0 .. (n * NPL - 1) |->
                  IF i = n * (NPL - 1) + h THEN key[p].root ELSE Junk]]
      /\ flag' = [p \in Two |-> [i \in 0 .. (n - 1) |->
                  IF i = h THEN get_lsb(key[p].root, 0) ELSE Junk]]
  BY DEF IntervalStart
<1>3. JobOK /\ JobOK' /\ Depth' = Depth /\ Depth \in Nat BY <1>1, JobFixed, DepthFacts DEF DpfInv
<1>4. arg' \in Intervals(job.nitems)' /\ NPL' = NPL /\ LPN' = LPN
  <2>1. NPL' = NPL /\ LPN' = LPN BY <1>1 DEF NPL, LPN
  <2> QED BY <1>1, <1>2, <2>1 DEF Intervals
<1>5. N' = n BY <1>4 DEF N, nodes_in_interval
<1>6. n \in Nat \ {0} /\ NodesOn(0)' \in Nat /\ \A x \in arg'.from .. arg'.to : Place(0, x)' = 0
  BY <1>3, <1>4, <1>5, RootPlaceNext
<1>7. Depth % 2 \in {0, 1} /\ Depth - 0 = Depth BY <1>3
<1>8. Prev' = Depth % 2
  <2>1. Prev' = (Depth' - layer') % 2 BY DEF Prev, Depth
  <2> QED BY <1>1, <1>3, <1>7, <2>1
<1>9. h = Half(n, Depth % 2) BY DEF Depth
<1> HIDE DEF n, h
<1>10. h \in 0 .. (n - 1) BY <1>6, <1>7, <1>9 DEF Half
<1>11. FlagAt(Prev, 0)' = h /\ SeedAt(Prev, 0)' = n * (NPL - 1) + h
  <2>1. FlagAt(Prev, 0)' = h + 0 /\ SeedAt(Prev, 0)' = n * (NPL - 1) + h + 0
    BY <1>4, <1>5, <1>8, <1>9 DEF FlagAt, SeedAt
  <2>2. NPL \in Nat \ {0} BY <1>3, DepthFacts
  <2>3. n * (NPL - 1) \in Nat BY <1>6, <2>2
  <2> QED BY <1>6, <1>10, <2>1, <2>3
<1>12. n * (NPL - 1) + h \in 0 .. (n * NPL - 1)
  <2>1. NPL \in Nat \ {0} BY <1>3, DepthFacts
  <2>2. n * (NPL - 1) \in Nat /\ n * NPL = n * (NPL - 1) + n BY <1>6, <2>1
  <2> QED BY <1>6, <1>10, <2>2
<1>13. PICK tr : Made(tr) BY <1>1 DEF DpfInv
<1>14. ASSUME NEW p \in Two, NEW x \in arg'.from .. arg'.to
       PROVE  Reading(p, x)' /\ Written(p, x)' /\ Output(p, x)'
  <2>1. Walk(p, x)'[0] = [s |-> key[p].root, t |-> get_lsb(key[p].root, 0)]
    <3>1. key[p].nitems = job.nitems BY <1>1, <1>13, KeyFields DEF Made
    <3>2. Walk(p, x)[0] = RootNode(key[p]) BY <1>3, <3>1, WalkFacts DEF Depth
    <3>3. Walk(p, x)' = Walk(p, x)
      <4>1. \A m : depth(m)' = depth(m) BY <1>4 DEF depth
      <4> QED BY <1>1, <4>1 DEF Walk, Steps
    <3> QED BY <3>2, <3>3 DEF RootNode
  <2>2. out'[p][n * (NPL - 1) + h] = key[p].root /\ flag'[p][h] = get_lsb(key[p].root, 0)
    BY <1>2, <1>10, <1>12
  <2>3. Place(layer, x)' = 0
    <3>1. Place(layer, x)' = Place(0, x)' BY <1>1 DEF Place, Span
    <3> QED BY <1>6, <3>1
  <2>4. Stored(p, Prev, Place(layer, x), Walk(p, x)[layer])'
    <3>1. SeedAt(Prev, Place(layer, x))' = SeedAt(Prev, 0)' /\ FlagAt(Prev, Place(layer, x))' = FlagAt(Prev, 0)'
      BY <2>3 DEF SeedAt, FlagAt
    <3> QED BY <1>1, <1>11, <2>1, <2>2, <3>1 DEF Stored
  <2>5. Written(p, x)' BY <1>1, <2>3 DEF Written
  <2>6. Output(p, x)'
    <3> SUFFICES ASSUME layer' = Depth'
                 PROVE  /\ flag'[p][Place(Depth, x)'] = Walk(p, x)'[Depth'].t
                        /\ ~(Place(Depth, x)' < pos')
      BY DEF Output
    <3>1. Depth = 0 /\ Place(Depth, x)' = Place(0, x)' BY <1>1, <1>3 DEF Place, Span
    <3>2. h = 0
      <4>1. 0 % 2 = 0 OBVIOUS
      <4> QED BY <1>9, <3>1, <4>1 DEF Half
    <3> QED BY <1>1, <1>3, <1>6, <2>1, <2>2, <3>1, <3>2
  <2> QED BY <2>4, <2>5, <2>6 DEF Reading
<1>15. ASSUME NEW p \in Two
       PROVE  DOMAIN out'[p] = 0 .. (N' * NPL' - 1) /\ DOMAIN flag'[p] = 0 .. (N' - 1)
  BY <1>2, <1>4, <1>5
<1>16. pos' \in 0 .. NodesOn(layer)'
  <2>1. NodesOn(layer)' = NodesOn(0)' BY <1>1 DEF NodesOn
  <2> QED BY <1>1, <1>6, <2>1
<1> QED BY <1>4, <1>14, <1>15, <1>16 DEF LayersOK

\* When a layer is complete it is the one to read.
LEMMA NextLayerOK ==
  ASSUME DpfInv, LayersOK, NextLayer
  PROVE  LayersOK'
<1>1. /\ job' = job /\ key' = key /\ arg' = arg /\ layer' = layer + 1 /\ pos' = 0
      /\ out' = out /\ flag' = flag /\ layer < Depth /\ pos = NodesOn(layer)
  BY DEF NextLayer, genvars, Depth
<1>2. JobOK /\ Depth \in Nat /\ layer \in 0 .. Depth BY DepthFacts DEF DpfInv, Types
<1>3. layer \in Nat /\ layer + 1 \in 0 .. Depth BY <1>1, <1>2
<1>4. arg \in Intervals(job.nitems) BY DEF LayersOK
<1>5. /\ N' = N /\ NPL' = NPL /\ Depth' = Depth /\ Intervals(job.nitems)' = Intervals(job.nitems)
      /\ \A c, i : SeedAt(c, i)' = SeedAt(c, i) /\ FlagAt(c, i)' = FlagAt(c, i)
  BY <1>1, ExpandFixed
<1>6. Prev' = 1 - Prev
  <2>1. Prev = (Depth - layer) % 2 /\ Prev' = (Depth' - layer') % 2 BY DEF Prev, Depth
  <2>2. \A a, c \in Nat : (a - (c + 1)) % 2 = 1 - ((a - c) % 2) OBVIOUS
  <2> QED BY <1>1, <1>2, <1>3, <1>5, <2>1, <2>2
<1>7. ASSUME NEW p \in Two, NEW x \in arg.from .. arg.to
      PROVE  Reading(p, x)' /\ Written(p, x)' /\ Output(p, x)'
  <2>1. Place(layer, x) \in 0 .. (NodesOn(layer) - 1) /\ NodesOn(layer) \in Nat
    BY <1>2, <1>4, PlaceFacts, NodesFacts
  <2>2. Place(layer + 1, x) \in 0 .. (NodesOn(layer + 1) - 1) /\ NodesOn(layer + 1) \in Nat
    BY <1>2, <1>3, <1>4, PlaceFacts, NodesFacts
  <2>3. Place(layer, x) < pos /\ ~(Place(layer + 1, x) < 0) BY <1>1, <2>1, <2>2
  <2>4. Stored(p, 1 - Prev, Place(layer + 1, x), Walk(p, x)[layer + 1])
    BY <1>1, <2>3 DEF LayersOK, Written
  <2>5. Place(layer, x)' = Place(layer + 1, x) /\ Walk(p, x)' = Walk(p, x)
    <3>1. Place(layer, x)' = Place(layer + 1, x) BY <1>1 DEF Place, Span
    <3> QED BY <1>1, <3>1, ExpandFixed
  <2>6. Reading(p, x)' BY <1>1, <1>5, <1>6, <2>4, <2>5 DEF Reading, Stored
  <2>7. Written(p, x)' BY <1>1, <2>3, <2>5 DEF Written
  <2>8. Output(p, x)'
    <3> SUFFICES ASSUME layer' = Depth'
                 PROVE  /\ flag[p][Place(Depth, x)'] = Walk(p, x)'[Depth'].t
                        /\ ~(Place(Depth, x)' < pos')
      BY <1>1 DEF Output
    <3>1. layer + 1 = Depth /\ Place(Depth, x)' = Place(layer + 1, x) BY <1>1, <1>5 DEF Place, Span
    <3>2. 1 - Prev = 0
      <4>1. (Depth - layer) % 2 = 1 BY <1>2, <1>3, <3>1
      <4>2. Prev = 1 BY <4>1 DEF Prev, Depth
      <4> QED BY <4>2
    <3>3. FlagAt(0, Place(layer + 1, x)) = Place(layer + 1, x)
      <4>1. FlagAt(0, Place(layer + 1, x)) = 0 + Place(layer + 1, x) BY DEF FlagAt, Half
      <4> QED BY <2>2, <4>1
    <3> QED BY <1>1, <1>5, <2>3, <2>4, <2>5, <3>1, <3>2, <3>3 DEF Stored
  <2> QED BY <2>6, <2>7, <2>8
<1>8. ASSUME NEW p \in Two
      PROVE  DOMAIN out'[p] = 0 .. (N' * NPL' - 1) /\ DOMAIN flag'[p] = 0 .. (N' - 1)
  BY <1>1, <1>5 DEF LayersOK
<1>9. arg' \in Intervals(job.nitems)' /\ pos' \in 0 .. NodesOn(layer)'
  <2>1. NodesOn(layer + 1) \in Nat BY <1>2, <1>3, <1>4, NodesFacts
  <2>2. NodesOn(layer)' = NodesOn(layer + 1) BY <1>1, <1>5 DEF NodesOn, Depth
  <2> QED BY <1>1, <1>4, <1>5, <2>1, <2>2
<1> QED BY <1>1, <1>7, <1>8, <1>9 DEF LayersOK

\* The words of node q in the output.
LEMMA BlockPlace ==
  ASSUME NEW m \in Nat \ {0}, NEW q \in Nat, NEW w \in 0 .. (m - 1)
  PROVE  (q * m + w) \div m = q /\ (q * m + w) % m = w /\ q * m + w \in Nat
<1> DEFINE a == q * m + w
<1>0. q * m = m * q /\ m * q \in Nat OBVIOUS
<1>1. a \in Nat /\ a = m * q + w BY <1>0
<1> HIDE DEF a
<1>2. a \div m = q /\ a % m = w BY <1>1, DivUnique, ModUnique
<1> QED BY <1>1, <1>2 DEF a

\* The words of a node overwrite no seed that is still to be read.
LEMMA SeedsBehind ==
  ASSUME NEW m \in Nat \ {0}, NEW n \in Nat, NEW q \in Nat, NEW i \in Nat, i < q, q < n
  PROVE  (n * (m - 1) + q) \div m # i /\ n * (m - 1) + q \in 0 .. (n * m - 1)
<1> DEFINE a == n * (m - 1) + q
<1>1. m - 1 \in Nat /\ n - 1 \in Nat OBVIOUS
<1>2. n * (m - 1) \in Nat /\ n * m = n * (m - 1) + n /\ n * m \in Nat BY <1>1
<1>3. (i + 1) * (m - 1) <= n * (m - 1)
  <2>1. \A u, v, z \in Nat : u <= v => u * z <= v * z OBVIOUS
  <2>2. i + 1 \in Nat /\ i + 1 <= n OBVIOUS
  <2> QED BY <1>1, <2>1, <2>2
<1>4. (i + 1) * (m - 1) + (i + 1) = m * (i + 1) /\ (i + 1) * (m - 1) \in Nat BY <1>1
<1>5. a \in Nat /\ m * (i + 1) <= a /\ a \in 0 .. (n * m - 1) BY <1>2, <1>3, <1>4
<1>6. a \div m # i
  <2> HIDE DEF a
  <2>1. a \div m \in Nat /\ a = m * (a \div m) + (a % m) /\ a % m \in 0 .. (m - 1) BY <1>5, DivNat
  <2>2. m * (i + 1) = m * i + m /\ m * i \in Nat OBVIOUS
  <2>3. a \div m = i => a = m * i + (a % m) BY <2>1
  <2> QED BY <1>5, <2>1, <2>2, <2>3
<1> QED BY <1>5, <1>6 DEF a

\* The words of node i are in the buffer.
LEMMA BlockInside ==
  ASSUME NEW m \in Nat \ {0}, NEW n \in Nat, NEW i \in Nat, i < n, NEW w \in 0 .. (m - 1)
  PROVE  i * m + w \in 0 .. (n * m - 1)
<1>1. (i + 1) * m <= n * m
  <2>1. \A u, v, z \in Nat : u <= v => u * z <= v * z OBVIOUS
  <2>2. i + 1 \in Nat /\ i + 1 <= n OBVIOUS
  <2> QED BY <2>1, <2>2
<1>2. (i + 1) * m = i * m + m /\ i * m \in Nat /\ n * m \in Nat OBVIOUS
<1> QED BY <1>1, <1>2

\* finalize, one node: its words are what eval gives there, and the seeds behind
\* are untouched.
LEMMA FinalizeOK ==
  ASSUME DpfInv, LayersOK, FinalizeNode
  PROVE  LayersOK'
<1>1. /\ job' = job /\ key' = key /\ arg' = arg /\ layer' = layer /\ pos' = pos + 1
      /\ flag' = flag /\ layer = Depth /\ pos < N
  BY DEF FinalizeNode, genvars, Depth
<1>2. JobOK /\ Depth \in Nat /\ layer \in 0 .. Depth /\ NPL \in Nat \ {0}
  BY DepthFacts DEF DpfInv, Types
<1>3. arg \in Intervals(job.nitems) /\ pos \in 0 .. NodesOn(layer) BY DEF LayersOK
<1>4. N \in Nat \ {0} /\ NodesOn(layer) = N BY <1>1, <1>2, <1>3, NodesFacts
<1>5. pos \in Nat /\ pos + 1 \in 0 .. N BY <1>1, <1>3, <1>4
<1>6. /\ N' = N /\ NPL' = NPL /\ Depth' = Depth /\ Intervals(job.nitems)' = Intervals(job.nitems)
      /\ WordsOfLeaf' = WordsOfLeaf
      /\ \A c, i : SeedAt(c, i)' = SeedAt(c, i) /\ FlagAt(c, i)' = FlagAt(c, i)
      /\ \A l, x : Place(l, x)' = Place(l, x)
      /\ \A p, x : Walk(p, x)' = Walk(p, x) /\ Leaves(p, x)' = Leaves(p, x)
  BY <1>1, ExpandFixed
<1>7. Prev = 0 /\ Prev' = 0
  <2>1. Prev = (Depth - layer) % 2 /\ Prev' = (Depth' - layer') % 2 BY DEF Prev, Depth
  <2>2. (Depth - Depth) % 2 = 0 BY <1>2
  <2> QED BY <1>1, <1>6, <2>1, <2>2
<1>8. \A i : SeedAt(0, i) = N * (NPL - 1) + 0 + i /\ FlagAt(0, i) = 0 + i BY DEF SeedAt, FlagAt, Half
<1>9. \A i \in Nat : SeedAt(0, i) = N * (NPL - 1) + i /\ FlagAt(0, i) = i
  <2>1. N * (NPL - 1) \in Nat BY <1>2, <1>4
  <2> QED BY <1>8, <2>1
<1> DEFINE F(p) == Finalized(key[p].prgkey, key[p].finalizer, NodeAt(p, 0, pos))
<1>10. ASSUME NEW p \in Two
       PROVE  DOMAIN out[p] = 0 .. (N * NPL - 1) /\ DOMAIN flag[p] = 0 .. (N - 1)
  BY DEF LayersOK
<1>11. ASSUME NEW p \in Two
       PROVE  /\ DOMAIN out'[p] = 0 .. (N * NPL - 1)
              /\ \A i \in 0 .. (N * NPL - 1) :
                   out'[p][i] = IF i \div NPL = pos THEN F(p)[i % NPL] ELSE out[p][i]
  <2>1. out'[p] = [i \in DOMAIN out[p] |-> IF i \div NPL = pos THEN F(p)[i % NPL] ELSE out[p][i]]
    BY DEF FinalizeNode, NodeAt
  <2> HIDE DEF F
  <2> QED BY <1>10, <2>1
<1> HIDE DEF F
<1>12. ASSUME NEW p \in Two, NEW x \in arg.from .. arg.to
       PROVE  Reading(p, x)' /\ Written(p, x)' /\ Output(p, x)'
  <2> DEFINE q == Place(Depth, x)
  <2>1. q \in 0 .. (N - 1) BY <1>1, <1>2, <1>3, <1>4, PlaceFacts
  <2>2. Reading(p, x) /\ Output(p, x) BY DEF LayersOK
  <2>3. q >= pos => Stored(p, 0, q, Walk(p, x)[Depth]) BY <1>1, <1>7, <2>2 DEF Reading
  <2>4. /\ flag[p][q] = Walk(p, x)[Depth].t
        /\ q < pos => \A w \in WordsOfLeaf : out[p][q * NPL + w] = Leaves(p, x)[w]
    BY <1>1, <2>2 DEF Output
  <2> HIDE DEF q
  <2>5. q \in Nat /\ q < N BY <1>4, <2>1
  <2>6. ASSUME q >= pos + 1 PROVE out'[p][SeedAt(0, q)] = out[p][SeedAt(0, q)]
    <3>1. pos < q BY <1>5, <2>5, <2>6
    <3>2. SeedAt(0, q) \div NPL # pos /\ SeedAt(0, q) \in 0 .. (N * NPL - 1)
      BY <1>2, <1>4, <1>5, <1>9, <2>5, <3>1, SeedsBehind
    <3> QED BY <1>11, <3>2
  <2>7. Reading(p, x)'
    <3> SUFFICES ASSUME q >= pos + 1
                 PROVE  /\ out'[p][SeedAt(0, q)] = Walk(p, x)[Depth].s
                        /\ flag[p][FlagAt(0, q)] = Walk(p, x)[Depth].t
      BY <1>1, <1>6, <1>7 DEF Reading, Stored, q
    <3>1. q >= pos BY <1>5, <2>5
    <3> QED BY <2>3, <2>6, <3>1 DEF Stored
  <2>8. Written(p, x)'
    <3>1. ~(layer' < Depth') BY <1>1, <1>2, <1>6
    <3> QED BY <3>1 DEF Written
  <2>9. ASSUME q < pos + 1, NEW w \in WordsOfLeaf PROVE out'[p][q * NPL + w] = Leaves(p, x)[w]
    <3>1. w \in 0 .. (NPL - 1) BY DEF WordsOfLeaf
    <3>2. (q * NPL + w) \div NPL = q /\ (q * NPL + w) % NPL = w BY <1>2, <2>5, <3>1, BlockPlace
    <3>3. q * NPL + w \in 0 .. (N * NPL - 1) BY <1>2, <1>4, <2>5, <3>1, BlockInside
    <3>4. CASE q = pos
      <4>1. out'[p][q * NPL + w] = F(p)[w] BY <1>11, <3>2, <3>3, <3>4
      <4>2. NodeAt(p, 0, pos).s = Walk(p, x)[Depth].s /\ NodeAt(p, 0, pos).t = Walk(p, x)[Depth].t
        <5>1. q >= pos BY <1>5, <3>4
        <5> QED BY <2>3, <3>4, <5>1 DEF Stored, NodeAt
      <4>3. \A k, f, u, v : u.s = v.s /\ u.t = v.t => Finalized(k, f, u) = Finalized(k, f, v)
        BY DEF Finalized
      <4> QED BY <4>1, <4>2, <4>3 DEF Leaves, F
    <3>5. CASE q < pos
      <4>1. q # pos BY <1>5, <2>5, <3>5
      <4> QED BY <1>11, <2>4, <3>2, <3>3, <3>5, <4>1
    <3>6. q = pos \/ q < pos BY <1>5, <2>5, <2>9
    <3> QED BY <3>4, <3>5, <3>6
  <2>10. Output(p, x)' BY <1>1, <1>6, <2>4, <2>9 DEF Output, q
  <2> QED BY <2>7, <2>8, <2>10
<1>13. ASSUME NEW p \in Two
       PROVE  DOMAIN out'[p] = 0 .. (N' * NPL' - 1) /\ DOMAIN flag'[p] = 0 .. (N' - 1)
  BY <1>1, <1>6, <1>10, <1>11
<1>14. arg' \in Intervals(job.nitems)' /\ pos' \in 0 .. NodesOn(layer)'
  <2>1. NodesOn(layer)' = NodesOn(layer) BY <1>1, <1>6 DEF NodesOn, Depth
  <2> QED BY <1>1, <1>3, <1>4, <1>5, <1>6, <2>1
<1> QED BY <1>1, <1>12, <1>13, <1>14 DEF LayersOK

\* The buffers do not change in other steps.
LEMMA LayersKept ==
  ASSUME LayersOK, UNCHANGED <<job, key, arg, layer, pos, out, flag>>
  PROVE  LayersOK'
<1>1. /\ N' = N /\ NPL' = NPL /\ Depth' = Depth /\ Intervals(job.nitems)' = Intervals(job.nitems)
      /\ WordsOfLeaf' = WordsOfLeaf
      /\ \A l : NodesOn(l)' = NodesOn(l)
      /\ \A c, i : SeedAt(c, i)' = SeedAt(c, i) /\ FlagAt(c, i)' = FlagAt(c, i)
      /\ \A l, x : Place(l, x)' = Place(l, x)
      /\ \A p, x : Walk(p, x)' = Walk(p, x) /\ Leaves(p, x)' = Leaves(p, x)
  BY ExpandFixed
<1>2. Prev' = Prev BY <1>1 DEF Prev, Depth
<1>3. ASSUME NEW p \in Two, NEW x \in arg.from .. arg.to
      PROVE  Reading(p, x)' /\ Written(p, x)' /\ Output(p, x)'
  <2>1. Reading(p, x) /\ Written(p, x) /\ Output(p, x) BY DEF LayersOK
  <2>2. Place(layer, x)' = Place(layer, x) /\ Place(layer + 1, x)' = Place(layer + 1, x)
        /\ Place(Depth, x)' = Place(Depth, x)
    BY <1>1 DEF Place, Span
  <2>3. Reading(p, x)' BY <1>1, <1>2, <2>1, <2>2 DEF Reading, Stored
  <2>4. Written(p, x)' BY <1>1, <1>2, <2>1, <2>2 DEF Written, Stored
  <2>5. Output(p, x)' BY <1>1, <2>1, <2>2 DEF Output
  <2> QED BY <2>3, <2>4, <2>5
<1>4. NodesOn(layer)' = NodesOn(layer) BY <1>1 DEF NodesOn, Depth
<1> QED BY <1>1, <1>3, <1>4 DEF LayersOK

\* Every step keeps what is said about the buffers.
LEMMA ExpandStep == DpfInv /\ ExpandOK /\ [Next]_vars => ExpandOK'
<1> SUFFICES ASSUME DpfInv, ExpandOK, [Next]_vars PROVE ExpandOK' OBVIOUS
<1>1. CASE Gen
  BY <1>1 DEF Gen, GenThrow, GenStart, GenLayer, GenFinish, GenTrap, ExpandOK
<1>2. CASE Receive BY <1>2 DEF Receive, ExpandOK
<1>3. CASE Eval BY <1>3 DEF Eval, EvalStart, EvalLayer, EvalFinish, ExpandOK
<1>4. CASE IntervalStart
  <2>1. pc' = "layers" BY <1>4 DEF IntervalStart
  <2> QED BY <1>4, <2>1, IntervalStartOK DEF ExpandOK
<1>5. CASE TraverseNode
  <2>1. pc' = "layers" /\ pc = "layers" BY <1>5 DEF TraverseNode
  <2> QED BY <1>5, <2>1, TraverseOK DEF ExpandOK
<1>6. CASE NextLayer
  <2>1. pc' = "layers" /\ pc = "layers" BY <1>6 DEF NextLayer
  <2> QED BY <1>6, <2>1, NextLayerOK DEF ExpandOK
<1>7. CASE FinalizeNode
  <2>1. pc' = "layers" /\ pc = "layers" BY <1>7 DEF FinalizeNode
  <2> QED BY <1>7, <2>1, FinalizeOK DEF ExpandOK
<1>8. CASE IntervalFinish
  <2>1. /\ pc' = "expanded" /\ pc = "layers" /\ layer = Depth /\ pos = N
        /\ UNCHANGED <<job, key, arg, layer, pos, out, flag>>
    BY <1>8 DEF IntervalFinish, genvars, evalvars, Depth
  <2>2. LayersOK' BY <2>1, LayersKept DEF ExpandOK
  <2>3. layer' = Depth' /\ pos' = N' BY <2>1, ExpandFixed
  <2> QED BY <2>2, <2>3 DEF ExpandOK
<1>9. CASE UNCHANGED vars
  <2>1. pc' = pc /\ UNCHANGED <<job, key, arg, layer, pos, out, flag>> BY <1>9 DEF vars
  <2>2. LayersOK => LayersOK' BY <2>1, LayersKept
  <2>3. Depth' = Depth /\ N' = N BY <2>1, ExpandFixed
  <2> QED BY <2>1, <2>2, <2>3 DEF ExpandOK
<1> QED BY <1>1, <1>2, <1>3, <1>4, <1>5, <1>6, <1>7, <1>8, <1>9 DEF Next, EvalInterval

\* In every state of __evalinterval its buffers hold what they should.
LEMMA ExpandInvariant == Spec => []ExpandOK
<1>1. Init => ExpandOK BY DEF Init, ExpandOK
<1> QED BY <1>1, ExpandStep, DpfInvariant, PTL DEF Spec

\* The last layer has the nodes that hold the leaves.
LEMMA LastPlace ==
  ASSUME JobOK, arg \in Intervals(job.nitems), NEW x \in arg.from .. arg.to
  PROVE  Place(Depth, x) = x \div LPN - arg.from \div LPN
<1>1. CASE Span(Depth) = LPN BY <1>1 DEF Place
<1>2. CASE Depth = 0 /\ job.nitems <= LPN
  <2>1. /\ arg.from \in Nat /\ arg.to \in Nat /\ arg.from <= arg.to /\ arg.to < job.nitems
        /\ job.nitems \in Nat /\ LPN \in Nat \ {0}
    BY IntervalFacts, DepthFacts
  <2>2. x \in Nat /\ x < LPN /\ arg.from < LPN BY <1>2, <2>1
  <2>3. x \div LPN = 0 /\ arg.from \div LPN = 0 BY <2>1, <2>2, DivNat
  <2>4. Place(Depth, x) = 0 BY <1>2, RootPlace
  <2> QED BY <2>3, <2>4
<1> QED BY <1>1, <1>2, DepthFacts DEF Span

\* __evalinterval computes all leaves of an interval in place, two layers of the
\* tree overlapping in the buffer of its output, and yet every leaf is the one
\* that eval computes alone: for every PRG, size, leaf type and interval.
THEOREM IntervalCorrect == Spec => []IntervalMatchesEval
<1>1. ASSUME DpfInv, ExpandOK PROVE IntervalMatchesEval
  <2> SUFFICES ASSUME pc = "expanded", NEW p \in Two, NEW x \in arg.from .. arg.to
               PROVE  OutLeaf(p, x) = EvalLeaf(key[p], x)
    BY DEF IntervalMatchesEval
  <2>1. LayersOK /\ layer = Depth /\ pos = N BY <1>1 DEF ExpandOK
  <2>2. JobOK /\ Depth \in Nat /\ Depth \in 0 .. Depth BY <1>1, DepthFacts DEF DpfInv
  <2>3. arg \in Intervals(job.nitems) BY <2>1 DEF LayersOK
  <2>4. N \in Nat \ {0} /\ Place(Depth, x) \in 0 .. (N - 1) BY <2>2, <2>3, NodesFacts, PlaceFacts
  <2>5. Place(Depth, x) < pos BY <2>1, <2>4
  <2>6. \A w \in WordsOfLeaf : out[p][Place(Depth, x) * NPL + w] = Leaves(p, x)[w]
    BY <2>1, <2>5 DEF LayersOK, Output
  <2>7. PICK tr : Made(tr) BY <1>1 DEF DpfInv
  <2>8. key[p].nitems = job.nitems BY <2>7, KeyFields DEF Made
  <2>9. EvalNode(key[p], x) = Walk(p, x)[Depth] BY <2>2, <2>8, WalkFacts DEF Depth
  <2>10. [w \in WordsOfLeaf |-> out[p][Place(Depth, x) * NPL + w]] = Leaves(p, x)
    <3>1. Leaves(p, x) = [w \in WordsOfLeaf |-> Leaves(p, x)[w]] BY DEF Leaves, Finalized
    <3> QED BY <2>6, <3>1
  <2>11. OutLeaf(p, x) = LeafOf([w \in WordsOfLeaf |-> out[p][Place(Depth, x) * NPL + w]], x)
    BY <2>2, <2>3, LastPlace DEF OutLeaf
  <2> QED BY <2>9, <2>10, <2>11 DEF EvalLeaf, Leaves
<1> QED BY <1>1, DpfInvariant, ExpandInvariant, PTL

\* x and the target are below the same node of layer l exactly if they take the
\* same turns down to it.
LEMMA SameTurns ==
  ASSUME JobOK, job.target < job.nitems, NEW x \in 0 .. (job.nitems - 1), NEW l \in 0 .. Depth
  PROVE  OnPath(x, l) <=> x \div Span(l) = job.target \div Span(l)
<1> DEFINE T == {e \in Nat : e <= Depth => (OnPath(x, e) <=> x \div Span(e) = job.target \div Span(e))}
<1>1. job.nitems \in Nat /\ job.target \in Nat /\ Depth \in Nat BY DepthFacts
<1>2. x \in Nat /\ job.target \in 0 .. (job.nitems - 1) BY <1>1
<1>3. 0 \in T
  <2>1. OnPath(x, 0)
    <3>1. \A i \in 0 .. (0 - 1) : FALSE OBVIOUS
    <3> QED BY <3>1 DEF OnPath
  <2>2. x \div Span(0) = 0 /\ job.target \div Span(0) = 0 BY <1>2, FromTheTop DEF Span
  <2> QED BY <2>1, <2>2
<1>4. ASSUME NEW e \in Nat, e \in T PROVE e + 1 \in T
  <2> SUFFICES ASSUME e + 1 <= Depth
               PROVE  OnPath(x, e + 1) <=> x \div Span(e + 1) = job.target \div Span(e + 1)
    OBVIOUS
  <2>1. e \in 0 .. (Depth - 1) /\ e \in 0 .. Depth /\ e <= Depth BY <1>1
  <2>2. OnPath(x, e) <=> x \div Span(e) = job.target \div Span(e) BY <1>4, <2>1
  <2>3. OnPath(x, e + 1) <=> OnPath(x, e) /\ BitAt(job.nitems, x, e) = Turn(e) BY OnPathStep
  <2>4. /\ BitAt(job.nitems, x, e) \in {0, 1}
        /\ x \div Span(e + 1) = 2 * (x \div Span(e)) + BitAt(job.nitems, x, e)
    BY <1>2, <2>1, BitFacts DEF Span, Two
  <2>5. /\ Turn(e) \in {0, 1}
        /\ job.target \div Span(e + 1) = 2 * (job.target \div Span(e)) + Turn(e)
    BY <1>1, <2>1, BitFacts DEF Span, Two, Turn
  <2>6. x \div Span(e) \in Nat /\ job.target \div Span(e) \in Nat
    <3>1. Span(e) \in Nat \ {0} BY <2>1, SpanFacts
    <3> QED BY <1>1, <1>2, <3>1, DivNat
  <2>7. \A u, v \in Nat, c, d \in {0, 1} : 2 * u + c = 2 * v + d <=> u = v /\ c = d OBVIOUS
  <2>8. x \div Span(e + 1) = job.target \div Span(e + 1)
          <=> x \div Span(e) = job.target \div Span(e) /\ BitAt(job.nitems, x, e) = Turn(e)
    BY <2>4, <2>5, <2>6, <2>7
  <2> QED BY <2>2, <2>3, <2>8
<1> HIDE DEF T
<1>5. l \in Nat /\ l <= Depth BY <1>1
<1>6. l \in T BY <1>3, <1>4, <1>5, Induction
<1> QED BY <1>5, <1>6 DEF T

\* The walk of eval stays on the path that explains the keys, and once it has
\* left it both parties are at the same node.
LEMMA WalkOnPath ==
  ASSUME JobOK, NEW tr, Made(tr), pc # "sent", NEW x \in 0 .. (job.nitems - 1), NEW l \in 0 .. Depth
  PROVE  IF OnPath(x, l) THEN \A p \in Two : Walk(p, x)[l] = tr[l][p]
                         ELSE Walk(0, x)[l] = Walk(1, x)[l]
<1> DEFINE P(e) == IF OnPath(x, e) THEN \A p \in Two : Walk(p, x)[e] = tr[e][p]
                                   ELSE Walk(0, x)[e] = Walk(1, x)[e]
           T == {e \in Nat : e <= Depth => P(e)}
<1>1. job.nitems \in Nat /\ job.target \in Nat /\ Depth \in Nat BY DepthFacts
<1>2. x \in Nat BY <1>1
<1>3. \A p \in Two : key[p].prgkey = job.prgkey /\ key[p].nitems = job.nitems /\ key[p].cw = cws
                     /\ key[p].root = roots[p]
  BY KeyFields DEF Made
<1>4. ASSUME NEW p \in Two
      PROVE  /\ Walk(p, x)[0] = RootNode(key[p])
             /\ \A e \in 0 .. (Depth - 1) :
                  Walk(p, x)[e + 1] = Child(Walk(p, x)[e], BitAt(job.nitems, x, e), cws[e + 1])
  BY <1>1, <1>3, WalkFacts DEF Depth, Child
<1>5. 0 \in Two /\ 1 \in Two BY DEF Two
<1>6. 0 \in T
  <2>1. OnPath(x, 0)
    <3>1. \A i \in 0 .. (0 - 1) : FALSE OBVIOUS
    <3> QED BY <3>1 DEF OnPath
  <2>2. \A p \in Two : tr[0][p] = RootNode(key[p]) BY <1>3 DEF Made, Path, RootNodes, RootNode
  <2> QED BY <1>4, <2>1, <2>2
<1>7. ASSUME NEW e \in Nat, e \in T PROVE e + 1 \in T
  <2> SUFFICES ASSUME e + 1 <= Depth PROVE P(e + 1) OBVIOUS
  <2> DEFINE bit == BitAt(job.nitems, x, e)
             w == cws[e + 1]
  <2>1. e \in 0 .. (Depth - 1) /\ e <= Depth BY <1>1
  <2>2. P(e) BY <1>7, <2>1
  <2>3. bit \in Two /\ Turn(e) \in Two BY <1>1, <1>2, <2>1, BitFacts DEF Turn
  <2>4. OnPath(x, e + 1) <=> OnPath(x, e) /\ bit = Turn(e) BY OnPathStep
  <2>5. \A p \in Two : Walk(p, x)[e + 1] = Child(Walk(p, x)[e], bit, w) BY <1>4, <2>1
  <2>6. /\ tr[e + 1] = [p \in Two |-> Child(tr[e][p], Turn(e), w)]
        /\ Child(tr[e][0], 1 - Turn(e), w) = Child(tr[e][1], 1 - Turn(e), w)
    BY <2>1 DEF Made, Path
  <2> HIDE DEF bit, w
  <2>7. CASE OnPath(x, e + 1)
    <3>1. \A p \in Two : Walk(p, x)[e] = tr[e][p] /\ bit = Turn(e) BY <2>2, <2>4, <2>7
    <3>2. \A p \in Two : Walk(p, x)[e + 1] = tr[e + 1][p] BY <2>5, <2>6, <3>1
    <3> QED BY <2>7, <3>2
  <2>8. CASE ~OnPath(x, e + 1)
    <3>1. CASE ~OnPath(x, e)
      <4>1. Walk(0, x)[e] = Walk(1, x)[e] BY <2>2, <3>1
      <4> QED BY <1>5, <2>5, <2>8, <4>1
    <3>2. CASE OnPath(x, e)
      <4>1. bit = 1 - Turn(e) BY <2>3, <2>4, <2>8, <3>2, TwoFacts
      <4>2. Walk(0, x)[e] = tr[e][0] /\ Walk(1, x)[e] = tr[e][1] BY <1>5, <2>2, <3>2
      <4> QED BY <1>5, <2>5, <2>6, <2>8, <4>1, <4>2
    <3> QED BY <3>1, <3>2
  <2> QED BY <2>7, <2>8
<1> HIDE DEF T, P
<1>8. l \in Nat /\ l <= Depth BY <1>1
<1>9. l \in T BY <1>6, <1>7, <1>8, Induction
<1>10. P(l) BY <1>8, <1>9 DEF T
<1> QED BY <1>10 DEF P

\* The advice bits that __evalinterval leaves behind, one per node, are shares of
\* the unit vector with its one at the node that holds the target: for every
\* PRG, size, leaf type and interval from the first leaf on.
THEOREM UnitVectorCorrect == Spec => []FlagsAreUnitVector
<1>1. ASSUME DpfInv, ExpandOK PROVE FlagsAreUnitVector
  <2> SUFFICES ASSUME pc = "expanded", arg.from = 0, NEW i \in 0 .. (N - 1)
               PROVE  (flag[0][i] # flag[1][i]) <=> (i = job.target \div LPN)
    BY DEF FlagsAreUnitVector
  <2> DEFINE x == i * LPN
  <2>1. LayersOK /\ layer = Depth BY <1>1 DEF ExpandOK
  <2>2. JobOK /\ Depth \in Nat /\ Depth \in 0 .. Depth /\ job.target < job.nitems BY <1>1, DepthFacts DEF DpfInv
  <2>3. arg \in Intervals(job.nitems) BY <2>1 DEF LayersOK
  <2>4. /\ N \in Nat \ {0} /\ arg.to \in Nat /\ arg.to < job.nitems /\ arg.to + 1 = LPN * N
        /\ job.nitems \in Nat /\ job.target \in Nat /\ LPN \in Nat \ {0}
    <3>1. /\ N \in Nat \ {0} /\ arg.to \in Nat /\ arg.to < job.nitems /\ arg.to + 1 = 0 + LPN * N
      BY <2>2, <2>3, IntervalFacts
    <3>2. job.nitems \in Nat /\ job.target \in Nat /\ LPN \in Nat \ {0} BY <2>2, DepthFacts
    <3> QED BY <3>1, <3>2
  <2>5. i \in Nat /\ i < N BY <2>4
  <2>6. x \div LPN = i /\ x \in 0 .. arg.to
    <3>1. 0 \in 0 .. (LPN - 1) /\ x + 0 = x /\ N * LPN = LPN * N BY <2>4, <2>5
    <3>2. (i * LPN + 0) \div LPN = i /\ i * LPN + 0 \in 0 .. (N * LPN - 1)
      BY <2>4, <2>5, <3>1, BlockPlace, BlockInside
    <3> QED BY <2>4, <3>1, <3>2
  <2>7. x \in arg.from .. arg.to /\ x \in 0 .. (job.nitems - 1)
    <3> HIDE DEF x
    <3> QED BY <2>4, <2>6
  <2> HIDE DEF x
  <2>8. Place(Depth, x) = i
    <3>1. 0 \div LPN = 0 BY <2>4, DivNat
    <3>2. Place(Depth, x) = i - 0 BY <2>2, <2>3, <2>6, <2>7, <3>1, LastPlace
    <3> QED BY <2>5, <3>2
  <2>9. \A p \in Two : flag[p][i] = Walk(p, x)[Depth].t BY <2>1, <2>7, <2>8 DEF LayersOK, Output
  <2>10. PICK tr : Made(tr) BY <1>1 DEF DpfInv
  <2>11. tr[Depth][0].t # tr[Depth][1].t BY <2>2, <2>10 DEF Made, Path
  <2>12. IF OnPath(x, Depth) THEN \A p \in Two : Walk(p, x)[Depth] = tr[Depth][p]
                             ELSE Walk(0, x)[Depth] = Walk(1, x)[Depth]
    BY <2>2, <2>7, <2>10, WalkOnPath
  <2>13. (flag[0][i] # flag[1][i]) <=> OnPath(x, Depth)
    <3>1. 0 \in Two /\ 1 \in Two BY DEF Two
    <3>2. CASE OnPath(x, Depth) BY <2>9, <2>11, <2>12, <3>1, <3>2
    <3>3. CASE ~OnPath(x, Depth) BY <2>9, <2>12, <3>1, <3>3
    <3> QED BY <3>2, <3>3
  <2>14. OnPath(x, Depth) <=> x \div Span(Depth) = job.target \div Span(Depth) BY <2>2, <2>7, SameTurns
  <2>15. OnPath(x, Depth) <=> i = job.target \div LPN
    <3>1. CASE Span(Depth) = LPN BY <2>6, <2>14, <3>1
    <3>2. CASE Depth = 0 /\ job.nitems <= LPN
      <4>1. OnPath(x, Depth)
        <5>1. \A e \in 0 .. (0 - 1) : FALSE OBVIOUS
        <5> QED BY <3>2, <5>1 DEF OnPath
      <4>2. x \in Nat /\ x < LPN /\ job.target < LPN BY <2>2, <2>4, <2>7, <3>2
      <4>3. x \div LPN = 0 /\ job.target \div LPN = 0 BY <2>4, <4>2, DivNat
      <4> QED BY <2>6, <4>1, <4>3
    <3> QED BY <2>2, <3>1, <3>2, DepthFacts DEF Span
  <2> QED BY <2>13, <2>15
<1> QED BY <1>1, DpfInvariant, ExpandInvariant, PTL
=============================================================================
