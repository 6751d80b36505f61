-------------------------------- MODULE Dpf --------------------------------
(***************************************************************************)
(* The distributed point function of mpc/dpf.hpp: gen makes two keys whose *)
(* evaluations differ at one point only.  A key is a root, one correction  *)
(* word per layer of a binary tree, and a finalizer.  eval walks one path  *)
(* of the tree; __evalinterval computes every leaf of an interval, layer   *)
(* by layer, in the memory of its own output: the two layers it needs at a *)
(* time overlap in that buffer.                                            *)
(*                                                                         *)
(* A block (__m128i) is an XOR word of Words.  Bits 0 and 1 are the "lsbs" *)
(* which carry the advice bits of a node and of a correction word.  The    *)
(* parties evaluate without talking to each other; the model takes the two *)
(* evaluations one step at a time side by side.                            *)
(***************************************************************************)
EXTENDS Words, Sequences

CONSTANTS
  Layouts,  \* leaves_per_node and nodes_per_leaf of the leaf types
  Prg,      \* Prg[k]: the function that PRG computes with key k
  Roots,    \* what arc4random_buf may return for a root
  Sizes,    \* nitems
  Vals,     \* words of the value of a point
  Junk,     \* the contents of memory that nothing has written
  None      \* a value that is not there yet

Two == {0, 1}           \* the two keys; also the directions L and R
L == 0
R == 1

PrgKeys == DOMAIN Prg
Seeds == {b \in XWord : 0 \notin b}

\* A node holds several leaves or a leaf takes several nodes, never both.
ASSUME LayoutAssumption ==
  \A y \in Layouts :
    /\ y.lpn \in Nat \ {0} /\ y.npl \in Nat \ {0} /\ (y.lpn = 1 \/ y.npl = 1)
    /\ W % y.lpn = 0 /\ W > 1
    /\ \A k \in PrgKeys : \A x \in Seeds : \A i \in 0 .. (y.npl - 1) \cup Two :
         Prg[k][x][i] \in XWord

ASSUME DpfSampleAssumption ==
  Roots \subseteq XWord /\ Vals \subseteq XWord /\ Sizes \subseteq Nat \ {0}

VARIABLES
  pc,       \* what is being computed
  job,      \* the leaf type and the arguments of gen
  roots,    \* the two roots that gen drew
  nodes,    \* nodes[p]: the node at which gen, or eval with key p, stands
  cws,      \* the correction words that gen has made
  wire,     \* wire[p]: the serialised key of p
  key,      \* key[p]: the key that p has received
  arg,      \* the arguments of eval or __evalinterval
  layer,    \* the loop counter of gen, eval and __evalinterval
  pos,      \* the inner loop counter of __evalinterval, the loop of finalize
  out,      \* out[p]: the output buffer of p, in blocks
  flag      \* flag[p]: its buffer of advice bits

vars == <<pc, job, roots, nodes, cws, wire, key, arg, layer, pos, out, flag>>

genvars == <<job, roots, cws, wire, key>>
evalvars == <<arg, pos, out, flag>>

\* leaves_per_node is 2 for uint64_t and 1 for __m128i; nodes_per_leaf is more
\* than 1 for arrays of __m128i.
LPN == job.lpn
NPL == job.npl

Packed == LPN > 1
Lane == W \div LPN      \* bits in a leaf that shares its node with others
WordsOfLeaf == 0 .. (NPL - 1)

-----------------------------------------------------------------------------
(* Sizes.                                                                  *)

CeilDiv(a, b) == (a + b - 1) \div b
CeilLog2(m) == CHOOSE d \in 0 .. m : 2 ^ d >= m /\ (d = 0 \/ 2 ^ (d - 1) < m)

depth(n) == CeilLog2(CeilDiv(n, LPN))
input_bits(n) == CeilLog2(n)

\* The depths of the trees.  All of this is arithmetic, given that leaves_per_node
\* is a power of two; it is stated because the provers know nothing of powers.
ASSUME DepthAssumption ==
  \A n \in Sizes, y \in Layouts :
    LET b == CeilLog2(n)
        d == CeilLog2(CeilDiv(n, y.lpn))
    IN  /\ b \in Nat /\ d \in 0 .. b /\ n <= 2 ^ b
        /\ \A k \in 0 .. b : 2 ^ k \in Nat \ {0} /\ 2 ^ (k + 1) = 2 * 2 ^ k
        /\ (d = 0 /\ n <= y.lpn) \/ 2 ^ (b - d) = y.lpn

nodes_in_interval(from, to) ==
  IF to < from THEN 0 ELSE CeilDiv(to + 1, LPN) - from \div LPN

\* The bit that selects the direction in which layer l is left towards x.
BitAt(n, x, l) == (x \div 2 ^ (input_bits(n) - l - 1)) % 2

-----------------------------------------------------------------------------
(* Blocks and nodes.  A node is a seed s and an advice bit t.              *)

get_lsb(b, i) == i \in b
clear_lsb(b, bits) == b \ bits
set_lsb(b, v) == (b \ {0}) \cup (IF v THEN {0} ELSE {})
set_lsbs(b, v) == (b \ {0, 1}) \cup {i \in Two : v[i]}
xor_if(a, b, cond) == IF cond THEN Xor(a, b) ELSE a

PRG(prgkey, seed, i) == Prg[prgkey][seed][i]

\* Both children of a seed, uncorrected.
expand(prgkey, seed) ==
  [d \in Two |-> LET c == PRG(prgkey, clear_lsb(seed, {0, 1}), d)
                 IN  [s |-> clear_lsb(c, {0, 1}), t |-> get_lsb(c, 0)]]

\* Mutant of traverse_: the advice bit of the child is not corrected.
TraverseNoAdvice(prgkey, node, d, cw) ==
  LET c == PRG(prgkey, clear_lsb(node.s, {0, 1}), d)
  IN  [s |-> clear_lsb(xor_if(c, cw, node.t), {0, 1}), t |-> get_lsb(c, 0)]

\* One child of a node, with the correction word applied if its bit is set.
traverse_(prgkey, node, d, cw) ==
  LET c == PRG(prgkey, clear_lsb(node.s, {0, 1}), d)
  IN  [s |-> clear_lsb(xor_if(c, cw, node.t), {0, 1}),
       t |-> get_lsb(c, 0) # (get_lsb(cw, d) /\ node.t)]

stretch_leaf(prgkey, seed) == [w \in WordsOfLeaf |-> PRG(prgkey, clear_lsb(seed, {0}), w)]

\* The words of a node with the finalizer applied if its advice bit is set.
Finalized(prgkey, finalizer, node) ==
  [w \in WordsOfLeaf |-> xor_if(stretch_leaf(prgkey, node.s)[w], finalizer[w], node.t)]

\* A packed leaf in its lane of a node, and back.
make_vec(k, v) == {k * Lane + b : b \in v}
getword(b, k) == {i \in 0 .. (Lane - 1) : k * Lane + i \in b}

\* Mutant of make_finalizer: the value goes to the first lane.
FinalizerFirstLane(prgkey, target, val, s) ==
  LET vec == IF Packed THEN [w \in WordsOfLeaf |-> make_vec(0, val)] ELSE val
  IN  [w \in WordsOfLeaf |-> Xor(vec[w], Xor(stretch_leaf(prgkey, s[0])[w],
                                        stretch_leaf(prgkey, s[1])[w]))]

make_finalizer(prgkey, target, val, s) ==
  LET vec == IF Packed THEN [w \in WordsOfLeaf |-> make_vec(target % LPN, val)] ELSE val
  IN  [w \in WordsOfLeaf |-> Xor(vec[w], Xor(stretch_leaf(prgkey, s[0])[w],
                                        stretch_leaf(prgkey, s[1])[w]))]

\* Leaf x, given the words of its node.
LeafOf(words, x) == IF Packed THEN getword(words[0], x % LPN) ELSE words

leaf_xor(a, b) == IF Packed THEN Xor(a, b) ELSE [w \in WordsOfLeaf |-> Xor(a[w], b[w])]
ZeroLeaf == IF Packed THEN {} ELSE [w \in WordsOfLeaf |-> {}]

-----------------------------------------------------------------------------
(* Keys, and the sequence of fields that represents one on a socket.       *)

dpf_key(n, root, cw, finalizer, prgkey) ==
  [nitems |-> n, root |-> root, cw |-> cw, finalizer |-> finalizer, prgkey |-> prgkey]

serialize_dpf_key(k) ==
  <<k.nitems, k.root, Len(k.cw)>> \o k.cw
    \o [w \in 1 .. NPL |-> k.finalizer[w - 1]] \o <<k.prgkey>>

deserialize_dpf_key(f) ==
  dpf_key(f[1], f[2], SubSeq(f, 4, 3 + f[3]),
          [w \in WordsOfLeaf |-> f[4 + f[3] + w]], f[4 + f[3] + NPL])

RootNode(k) == [s |-> k.root, t |-> get_lsb(k.root, 0)]

-----------------------------------------------------------------------------
(* gen.                                                                    *)

\* "target point out of range"
GenThrow ==
  /\ pc = "start" /\ job.nitems <= job.target
  /\ pc' = "thrown"
  /\ UNCHANGED <<genvars, evalvars, nodes, layer>>

\* Mutant of GenStart: both roots keep the advice bit they were drawn with.
GenStartSameAdvice ==
  /\ pc = "start" /\ job.target < job.nitems
  /\ \E r \in [Two -> Roots] :
       /\ roots' = r
       /\ nodes' = [p \in Two |-> [s |-> roots'[p], t |-> get_lsb(roots'[p], 0)]]
  /\ pc' = "gen" /\ layer' = 0
  /\ UNCHANGED <<job, cws, wire, key, evalvars>>

\* Two roots are drawn; the advice bit of the second is made to differ.
GenStart ==
  /\ pc = "start" /\ job.target < job.nitems
  /\ \E r \in [Two -> Roots] :
       /\ roots' = [r EXCEPT ![1] = set_lsb(r[1], ~get_lsb(r[0], 0))]
       /\ nodes' = [p \in Two |-> [s |-> roots'[p], t |-> get_lsb(roots'[p], 0)]]
  /\ pc' = "gen" /\ layer' = 0
  /\ UNCHANGED <<job, cws, wire, key, evalvars>>

\* One layer: the correction word makes the two children off the path equal,
\* and the two on it different in their advice bits.
GenLayer ==
  /\ pc = "gen" /\ layer < depth(job.nitems)
  /\ LET bit == BitAt(job.nitems, job.target, layer)
         c == [p \in Two |-> expand(job.prgkey, nodes[p].s)]
         cwt == [d \in Two |-> (c[0][d].t # c[1][d].t) # (bit = IF d = L THEN 0 ELSE 1)]
         nextcw == Xor(c[0][1 - bit].s, c[1][1 - bit].s)
     IN  /\ nodes' = [p \in Two |->
                      [s |-> xor_if(c[p][bit].s, nextcw, nodes[p].t),
                       t |-> c[p][bit].t # (nodes[p].t /\ cwt[bit])]]
         /\ cws' = Append(cws, set_lsbs(nextcw, cwt))
  /\ layer' = layer + 1
  /\ UNCHANGED <<pc, job, roots, wire, key, evalvars>>

\* make_finalizer, the two keys, and their serialisation for the parties.
GenFinish ==
  /\ pc = "gen" /\ layer = depth(job.nitems)
  /\ LET f == make_finalizer(job.prgkey, job.target, job.val, [p \in Two |-> nodes[p].s])
     IN  wire' = [p \in Two |->
                   serialize_dpf_key(dpf_key(job.nitems, roots[p], cws, f, job.prgkey))]
  /\ pc' = "sent"
  /\ UNCHANGED <<job, roots, nodes, cws, key, layer, evalvars>>

\* target % elements_per_vector, and elements_per_vector is 16 / sizeof(leaf_t):
\* zero for a leaf of several nodes.  The quotient is not used by such a leaf,
\* so a build that drops it as dead code goes on and one that keeps it traps.
GenTrap ==
  /\ pc = "gen" /\ layer = depth(job.nitems) /\ NPL > 1
  /\ pc' = "thrown"
  /\ UNCHANGED <<genvars, evalvars, nodes, layer>>

\* recv_dpf_key
Receive ==
  /\ pc = "sent"
  /\ key' = [p \in Two |-> deserialize_dpf_key(wire[p])]
  /\ pc' = "ready"
  /\ UNCHANGED <<job, roots, nodes, cws, wire, layer, evalvars>>

-----------------------------------------------------------------------------
(* eval: one path.                                                         *)

EvalStart ==
  /\ pc = "ready"
  /\ \E x \in 0 .. (job.nitems - 1) : arg' = [input |-> x]
  /\ nodes' = [p \in Two |-> RootNode(key[p])]
  /\ pc' = "eval" /\ layer' = 0
  /\ UNCHANGED <<genvars, pos, out, flag>>

EvalLayer ==
  /\ pc = "eval" /\ layer < depth(job.nitems)
  /\ nodes' = [p \in Two |->
               traverse_(key[p].prgkey, nodes[p], BitAt(key[p].nitems, arg.input, layer),
                         key[p].cw[layer + 1])]
  /\ layer' = layer + 1
  /\ UNCHANGED <<genvars, evalvars, pc>>

\* finalize, then the word of the input.
EvalFinish ==
  /\ pc = "eval" /\ layer = depth(job.nitems)
  /\ out' = [p \in Two |->
              LeafOf(Finalized(key[p].prgkey, key[p].finalizer, nodes[p]), arg.input)]
  /\ pc' = "evaluated"
  /\ UNCHANGED <<genvars, nodes, arg, layer, pos, flag>>

-----------------------------------------------------------------------------
(* __evalinterval: all leaves of from .. to.                               *)

\* The intervals it serves: whole nodes, and from the first leaf on, as every
\* caller asks, or an aligned power of two.
Intervals(n) ==
  {i \in [from : 0 .. (n - 1), to : 0 .. (n - 1)] :
     /\ i.from <= i.to /\ i.from % LPN = 0 /\ (i.to + 1) % LPN = 0
     /\ \/ i.from = 0
        \/ /\ NPL = 1
           /\ \E k \in 0 .. input_bits(n) :
                i.from % 2 ^ k = 0 /\ i.to = i.from + 2 ^ k - 1}

N == nodes_in_interval(arg.from, arg.to)

\* Mutant of Half: the second layer starts too early.
HalfEarly(n, c) == IF c = 1 THEN n \div 4 ELSE 0

\* Two layers live in the buffers, one from the start and one from the middle.
Half(n, c) == IF c = 1 THEN n \div 2 ELSE 0

\* Node i of layer buffer c is at these places of the output and of the flags.
SeedAt(c, i) == N * (NPL - 1) + Half(N, c) + i
FlagAt(c, i) == Half(N, c) + i

\* The layer buffer that is read in the current iteration; the other is written.
Prev == (depth(job.nitems) - layer) % 2

\* new leaf_t[n]: nothing in the buffers is initialised but the root.
IntervalStart ==
  /\ pc = "ready"
  /\ \E a \in Intervals(job.nitems) :
       LET n == nodes_in_interval(a.from, a.to)
           h == Half(n, depth(job.nitems) % 2)
       IN  /\ arg' = a
           /\ out' = [p \in Two |-> [i \in 0 .. (n * NPL - 1) |->
                       IF i = n * (NPL - 1) + h THEN key[p].root ELSE Junk]]
           /\ flag' = [p \in Two |-> [i \in 0 .. (n - 1) |->
                       IF i = h THEN get_lsb(key[p].root, 0) ELSE Junk]]
  /\ pc' = "layers" /\ layer' = 0 /\ pos' = 0
  /\ UNCHANGED <<genvars, nodes>>

from_node == arg.from \div NPL
nextbit == BitAt(job.nitems, from_node, layer)

\* How many nodes of the interval's part of the tree lie on layer l.
NodesOn(l) == CeilDiv(N, 2 ^ (depth(job.nitems) - l))

\* The children that the iteration for node pos computes: traverse2 for both,
\* or traverse_ for one at an edge of the interval.
Dirs ==
  IF nextbit = 1 /\ pos = 0 THEN {R}
  ELSE IF pos < NodesOn(layer) - 1 \/ 2 * pos - nextbit < NodesOn(layer + 1) - 1
  THEN {L, R} ELSE {L}

\* One iteration: the children of node pos are written over whatever is there.
TraverseNode ==
  /\ pc = "layers" /\ layer < depth(job.nitems) /\ pos < NodesOn(layer)
  /\ LET child(p, d) ==
           traverse_(key[p].prgkey,
                     [s |-> out[p][SeedAt(Prev, pos)], t |-> flag[p][FlagAt(Prev, pos)]],
                     d, key[p].cw[layer + 1])
         at(d) == 2 * pos - nextbit + d
     IN  /\ out' = [p \in Two |-> [i \in DOMAIN out[p] |->
                     IF \E d \in Dirs : i = SeedAt(1 - Prev, at(d))
                     THEN child(p, i - SeedAt(1 - Prev, at(0))).s ELSE out[p][i]]]
         /\ flag' = [p \in Two |-> [i \in DOMAIN flag[p] |->
                     IF \E d \in Dirs : i = FlagAt(1 - Prev, at(d))
                     THEN child(p, i - FlagAt(1 - Prev, at(0))).t ELSE flag[p][i]]]
  /\ pos' = pos + 1
  /\ UNCHANGED <<genvars, pc, nodes, arg, layer>>

\* Mutant of NextLayer: the loop runs once too often.
NextLayerOnceMore ==
  /\ pc = "layers" /\ layer <= depth(job.nitems) /\ pos = NodesOn(layer)
  /\ layer' = layer + 1 /\ pos' = 0
  /\ UNCHANGED <<genvars, pc, nodes, arg, out, flag>>

NextLayer ==
  /\ pc = "layers" /\ layer < depth(job.nitems) /\ pos = NodesOn(layer)
  /\ layer' = layer + 1 /\ pos' = 0
  /\ UNCHANGED <<genvars, pc, nodes, arg, out, flag>>

\* finalize, node by node: the words of node pos go to the front of the buffer,
\* the seeds still to be read lie behind them.
FinalizeNode ==
  /\ pc = "layers" /\ layer = depth(job.nitems) /\ pos < N
  /\ out' = [p \in Two |->
              LET w == Finalized(key[p].prgkey, key[p].finalizer,
                                 [s |-> out[p][SeedAt(0, pos)], t |-> flag[p][FlagAt(0, pos)]])
              IN  [i \in DOMAIN out[p] |->
                    IF i \div NPL = pos THEN w[i % NPL] ELSE out[p][i]]]
  /\ pos' = pos + 1
  /\ UNCHANGED <<genvars, pc, nodes, arg, layer, flag>>

IntervalFinish ==
  /\ pc = "layers" /\ layer = depth(job.nitems) /\ pos = N
  /\ pc' = "expanded"
  /\ UNCHANGED <<genvars, evalvars, nodes, layer>>

-----------------------------------------------------------------------------
Init ==
  /\ pc = "start"
  /\ \E y \in Layouts, n \in Sizes :
       job \in [lpn : {y.lpn}, npl : {y.npl}, prgkey : PrgKeys, nitems : {n},
               target : 0 .. n,
               val : IF y.lpn > 1 THEN {v \cap (0 .. (W \div y.lpn - 1)) : v \in Vals}
                     ELSE [0 .. (y.npl - 1) -> Vals]]
  /\ roots = [p \in Two |-> {}]
  /\ nodes = [p \in Two |-> [s |-> {}, t |-> FALSE]]
  /\ cws = <<>>
  /\ wire = [p \in Two |-> None]
  /\ key = [p \in Two |-> None]
  /\ arg = None
  /\ layer = 0 /\ pos = 0
  /\ out = [p \in Two |-> None]
  /\ flag = [p \in Two |-> None]

Gen == GenThrow \/ GenStart \/ GenLayer \/ GenFinish \/ GenTrap
Eval == EvalStart \/ EvalLayer \/ EvalFinish
EvalInterval ==
  IntervalStart \/ TraverseNode \/ NextLayer \/ FinalizeNode \/ IntervalFinish

Next == Gen \/ Receive \/ Eval \/ EvalInterval

Spec == Init /\ [][Next]_vars

-----------------------------------------------------------------------------
\* The directions of x agree with those of the target on the layers before l.
OnPath(x, l) ==
  \A i \in 0 .. (l - 1) : BitAt(job.nitems, x, i) = BitAt(job.nitems, job.target, i)

TypeOK ==
  /\ pc \in {"start", "thrown", "gen", "sent", "ready", "eval", "evaluated", "layers", "expanded"}
  /\ job.prgkey \in PrgKeys /\ job.nitems \in Sizes /\ job.target \in 0 .. job.nitems
  /\ roots \in [Two -> XWord]
  /\ nodes \in [Two -> [s : XWord, t : BOOLEAN]]
  /\ cws \in Seq(XWord) /\ Len(cws) <= depth(job.nitems)
  /\ layer \in 0 .. depth(job.nitems) /\ pos \in Nat

\* What makes a DPF: as eval descends, the parties' nodes have different
\* advice bits as long as the input follows the target and are the same node
\* from the layer on at which it leaves it.
PathInvariant ==
  /\ pc = "gen" => nodes[0].t # nodes[1].t
  /\ pc = "eval" => IF OnPath(arg.input, layer) THEN nodes[0].t # nodes[1].t
                                               ELSE nodes[0] = nodes[1]

\* eval gives shares of the value at the target and of zero elsewhere, for
\* every size: odd ones, powers of two, and those with no layer at all.
PointCorrect ==
  pc = "evaluated" =>
    leaf_xor(out[0], out[1]) = IF arg.input = job.target THEN job.val ELSE ZeroLeaf

\* eval, as a function: the reference for __evalinterval.
EvalNode(k, x) ==
  LET path[l \in 0 .. depth(k.nitems)] ==
        IF l = 0 THEN RootNode(k)
        ELSE traverse_(k.prgkey, path[l - 1], BitAt(k.nitems, x, l - 1), k.cw[l])
  IN  path[depth(k.nitems)]

EvalLeaf(k, x) == LeafOf(Finalized(k.prgkey, k.finalizer, EvalNode(k, x)), x)

\* Leaf x in the output of __evalinterval.
OutLeaf(p, x) ==
  LET i == x \div LPN - arg.from \div LPN
  IN  LeafOf([w \in WordsOfLeaf |-> out[p][i * NPL + w]], x)

\* __evalinterval, which computes in the memory of its output and overwrites
\* one layer with the next, gives in every place what eval gives there.
IntervalMatchesEval ==
  pc = "expanded" =>
    \A p \in Two : \A x \in arg.from .. arg.to : OutLeaf(p, x) = EvalLeaf(key[p], x)

\* The advice bits it leaves behind are shares of a unit vector over NODES:
\* with packed leaves the bit of the target is at target / leaves_per_node.
FlagsAreUnitVector ==
  pc = "expanded" /\ arg.from = 0 =>
    \A i \in 0 .. (N - 1) :
      (flag[0][i] # flag[1][i]) <=> (i = job.target \div LPN)
=============================================================================
