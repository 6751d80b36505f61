---------------------------- MODULE VectorProofs ----------------------------
(***************************************************************************)
(* Theorems about VectorWire, for every call, vector, length, key, draw of *)
(* P2, and size of the socket buffers and of the transfers.                *)
(***************************************************************************)
EXTENDS VectorWire, OperatorProofs

-----------------------------------------------------------------------------
(* The invariant.                                                          *)

\* How many vectors p sends, and the i-th of them.
K == IF call = "dot" THEN 2 ELSE 1
V(p, i) == Sends(p)[i]

\* p has started its writes, its reads.
Sent(p) == phase[p] >= (IF call = "locoram" /\ p = "P1" THEN 2 ELSE 1)
Asked(p) == phase[p] >= (IF call = "reconstruct" \/ (call = "locoram" /\ p = "P0") THEN 2 ELSE 1)

\* What P2 deals if it draws the seeds s.
Dealing(s) ==
  [p \in Parties |->
    [x |-> s[p].x, y |-> s[p].y,
     gamma |-> Times(fill_vector_with_prg(aes["P2"], s[p].x, len["P2"]),
                     fill_vector_with_prg(aes["P2"], s[Peer(p)].y, len["P2"]))]]

Given ==
  /\ call \in Calls /\ len \in [Roles -> Lens] /\ aes \in [Roles -> Keys]
  /\ st \in [Roles -> {"run", "done", "threw"}]
  /\ call = "dot" /\ st["P2"] = "run" => dealt = [p \in Parties |-> None]
  /\ call = "dot" /\ st["P2"] # "run" => \E s \in Draws : dealt = Dealing(s)
  /\ call # "dot" => st["P2"] # "run"

\* How far a party is with its plan.
Control ==
  /\ phase \in [Parties -> Nat] /\ whole \in BOOLEAN
  /\ \A p \in Parties :
       /\ phase[p] <= Len(Plan(p))
       /\ phase[p] > 0 => st["P2"] # "run"
       /\ st[p] # "run" => wq[p] = <<>> /\ rq[p] = <<>> /\ phase[p] = Len(Plan(p))

Types ==
  /\ stream \in [Parties -> Seq(Nat)] /\ \A p \in Parties : Len(stream[p]) <= Cap
  /\ DOMAIN wq = Parties /\ DOMAIN rq = Parties /\ DOMAIN vecs = Parties
  /\ out \in [Parties -> AWord \cup {None}]

\* Words that are still to be written, a read of data, a vector that was read.
Block(v) == v \in Seq(Nat) /\ v # <<>>
Data(i, need, got) == [id |-> i, length |-> FALSE, need |-> need, got |-> got]
Got(i, val) == [id |-> i, val |-> val]
Part(x, i, m) ==
  /\ x = Data(i, x.need, x.got) /\ x.got \in Seq(Nat)
  /\ x.need \in Nat \ {0} /\ x.need + Len(x.got) = m
Full(x, i, m) == x = Got(i, x.val) /\ x.val \in Seq(Nat) /\ Len(x.val) = m

\* q is the queue of the writes of p when h lengths have been written.
Writes(p, h, q) ==
  \/ h = 0 /\ ~Sent(p) /\ q = <<>>
  \/ h = 0 /\ Sent(p) /\ K = 1 /\ q = <<send(V(p, 1))>>
  \/ h = 0 /\ Sent(p) /\ K = 2 /\ q = <<send(V(p, 1)), send(V(p, 2))>>
  \/ h = 1 /\ Sent(p) /\ K = 2 /\ len[p] = 0 /\ q = <<send(V(p, 2))>>
  \/ h = 1 /\ Sent(p) /\ K = 2 /\ len[p] > 0 /\ q = <<send(V(p, 2)), <<V(p, 1)>>>>
  \/ h = K /\ Sent(p) /\ q = <<>>
  \/ h = K /\ Sent(p) /\ Len(q) = 1 /\ q = <<<<q[1][1]>>>> /\ Block(q[1][1])
  \/ /\ h = K /\ Sent(p) /\ Len(q) = 2 /\ q = <<<<q[1][1]>>, <<q[2][1]>>>>
     /\ Block(q[1][1]) /\ Block(q[2][1])

\* q is the queue of the reads of p and vs what it has received when it has
\* read g lengths; m is the length of the peer's vectors.
Reads(p, g, q, vs, m) ==
  \/ g = 0 /\ ~Asked(p) /\ q = <<>> /\ vs = <<>>
  \/ g = 0 /\ Asked(p) /\ K = 1 /\ q = <<recv_vector(1)>> /\ vs = <<>>
  \/ g = 0 /\ Asked(p) /\ K = 2 /\ q = <<recv_vector(1), recv_vector(2)>> /\ vs = <<>>
  \/ g = 1 /\ Asked(p) /\ K = 2 /\ m = 0 /\ q = <<recv_vector(2)>> /\ vs = <<Got(1, <<>>)>>
  \/ g = 1 /\ Asked(p) /\ K = 2 /\ m > 0 /\ q = <<recv_vector(2), Data(1, m, <<>>)>> /\ vs = <<>>
  \/ g = 1 /\ Asked(p) /\ K = 1 /\ Len(q) = 1 /\ q = <<q[1]>> /\ Part(q[1], 1, m) /\ vs = <<>>
  \/ g = 1 /\ Asked(p) /\ K = 1 /\ q = <<>> /\ Len(vs) = 1 /\ vs = <<vs[1]>> /\ Full(vs[1], 1, m)
  \/ /\ g = 2 /\ Asked(p) /\ K = 2
     /\ \E i, j \in {1, 2} :
          /\ i # j
          /\ \/ /\ Len(q) = 2 /\ q = <<q[1], q[2]>> /\ Part(q[1], i, m) /\ Part(q[2], j, m)
                /\ vs = <<>>
             \/ /\ Len(q) = 1 /\ q = <<q[1]>> /\ Part(q[1], i, m)
                /\ Len(vs) = 1 /\ vs = <<vs[1]>> /\ Full(vs[1], j, m)
             \/ /\ q = <<>> /\ Len(vs) = 2 /\ vs = <<vs[1], vs[2]>>
                /\ Full(vs[1], i, m) /\ Full(vs[2], j, m)

\* s is what is in flight when h lengths n have been written and g read.
Wire(h, g, s, n) ==
  /\ g <= h
  /\ g < K => Len(s) >= h - g /\ \A j \in 1 .. (h - g) : s[j] = n
  /\ h < K => Len(s) = h - g

Link(p) ==
  \E h, g \in 0 .. K :
    /\ Writes(p, h, wq[p]) /\ Reads(Peer(p), g, rq[Peer(p)], vecs[Peer(p)], len[p])
    /\ Wire(h, g, stream[Peer(p)], len[p])

LooseInv == Given /\ Control /\ Types /\ \A p \in Parties : Link(p)

-----------------------------------------------------------------------------
(* Sequences of one and two elements.                                      *)

\* Head, tail and elements of one or two things.
LEMMA Tuples ==
  ASSUME NEW a, NEW b, NEW c
  PROVE  /\ Head(<<a, b>>) = a /\ Tail(<<a, b>>) = <<b>> /\ Append(<<b>>, c) = <<b, c>>
         /\ Head(<<a>>) = a /\ Tail(<<a>>) = <<>> /\ Append(<<>>, c) = <<c>>
         /\ <<a>> # <<>> /\ <<a, b>> # <<>> /\ <<a>>[1] = a /\ <<a, b>>[1] = a /\ <<a, b>>[2] = b
         /\ Len(<<a>>) = 1 /\ Len(<<a, b>>) = 2
<1>1. Append(<<b>>, c) = <<b, c>>
  <2>1. PICK s, t : s = Append(<<b>>, c) /\ t = <<b, c>>
    OBVIOUS
  <2>2. IsSeq(<<b>>) /\ Len(<<b>>) = 1
    BY DEF IsSeq
  <2>3. IsSeq(s) /\ Len(s) = 2 /\ s[1] = b /\ s[2] = c
    BY <2>1, <2>2, AppendIsSeq
  <2>4. IsSeq(t) /\ Len(t) = 2 /\ t[1] = b /\ t[2] = c
    BY <2>1 DEF IsSeq
  <2>5. s = t
    BY <2>3, <2>4, SameSeq
  <2> QED
    BY <2>1, <2>5
<1>2. Head(<<a, b>>) = a /\ Tail(<<a, b>>) = <<b>>
  OBVIOUS
<1>3. Head(<<a>>) = a /\ Tail(<<a>>) = <<>> /\ Append(<<>>, c) = <<c>>
  OBVIOUS
<1>4. <<a>> # <<>> /\ <<a, b>> # <<>> /\ <<a>>[1] = a /\ <<a, b>>[1] = a /\ <<a, b>>[2] = b
  OBVIOUS
<1>5. Len(<<a>>) = 1 /\ Len(<<a, b>>) = 2
  OBVIOUS
<1> QED
  BY <1>1, <1>2, <1>3, <1>4, <1>5

\* What becomes of a queue of one or two operations.
LEMMA RequeueOne ==
  ASSUME NEW a, NEW c
  PROVE  Requeue(<<a>>, TRUE, c) = <<c>> /\ Requeue(<<a>>, FALSE, c) = <<>>
<1>1. Tail(<<a>>) = <<>> /\ Append(<<>>, c) = <<c>>
  BY Tuples
<1> QED
  BY <1>1, Zenon DEF Requeue

\* The same for a queue of two.
LEMMA RequeueTwo ==
  ASSUME NEW q, q = <<q[1], q[2]>>, NEW c
  PROVE  Requeue(q, TRUE, c) = <<q[2], c>> /\ Requeue(q, FALSE, c) = <<q[2]>>
<1>1. PICK a, b : a = q[1] /\ b = q[2] /\ q = <<a, b>>
  OBVIOUS
<1>2. Tail(q) = <<b>> /\ Append(<<b>>, c) = <<b, c>>
  BY <1>1, Tuples
<1> QED
  BY <1>1, <1>2, Zenon DEF Requeue

\* A part of a sequence, and two sequences one after the other.
LEMMA Piece ==
  ASSUME NEW S, NEW s \in Seq(S), NEW m \in Nat \ {0}, NEW n \in Nat, n <= Len(s)
  PROVE  /\ SubSeq(s, m, n) \in Seq(S)
         /\ Len(SubSeq(s, m, n)) = IF m <= n THEN n - m + 1 ELSE 0
         /\ \A i \in 1 .. (n - m + 1) : SubSeq(s, m, n)[i] = s[m + i - 1]
         /\ n < m => SubSeq(s, m, n) = <<>>
<1>1. \A i \in m .. n : s[i] \in S
  OBVIOUS
<1>2. /\ SubSeq(s, m, n) \in Seq(S)
      /\ Len(SubSeq(s, m, n)) = IF m <= n THEN n - m + 1 ELSE 0
      /\ \A i \in 1 .. (n - m + 1) : SubSeq(s, m, n)[i] = s[m + i - 1]
  BY <1>1, SubSeqProperties
<1> QED
  BY <1>2, SubSeqEmpty

\* A sequence cut in two.
CutIn(s, k, a, b) ==
  /\ a \in Seq(Nat) /\ Len(a) = k /\ \A i \in 1 .. k : a[i] = s[i]
  /\ b \in Seq(Nat) /\ Len(b) = Len(s) - k
  /\ \A i \in 1 .. (Len(s) - k) : b[i] = s[k + i]

\* SubSeq cuts a sequence in two.
LEMMA Cut ==
  ASSUME NEW s \in Seq(Nat), NEW k \in 1 .. Len(s)
  PROVE  CutIn(s, k, SubSeq(s, 1, k), SubSeq(s, k + 1, Len(s)))
<1>0. PICK a, b : a = SubSeq(s, 1, k) /\ b = SubSeq(s, k + 1, Len(s))
  OBVIOUS
<1>1. PICK l \in Nat : l = Len(s) /\ k \in Nat /\ 1 <= k /\ k <= l
  OBVIOUS
<1>2. /\ a \in Seq(Nat) /\ Len(a) = IF 1 <= k THEN k - 1 + 1 ELSE 0
      /\ \A i \in 1 .. (k - 1 + 1) : a[i] = s[1 + i - 1]
  BY <1>0, <1>1, Piece
<1>3. PICK m \in Nat \ {0} : m = k + 1
  BY <1>1
<1>4. b = SubSeq(s, m, l) /\ l <= Len(s)
  BY <1>0, <1>1, <1>3
<1>5. /\ SubSeq(s, m, l) \in Seq(Nat)
      /\ Len(SubSeq(s, m, l)) = IF m <= l THEN l - m + 1 ELSE 0
      /\ \A i \in 1 .. (l - m + 1) : SubSeq(s, m, l)[i] = s[m + i - 1]
  BY <1>4, Piece
<1>6. /\ b \in Seq(Nat) /\ Len(b) = IF m <= l THEN l - m + 1 ELSE 0
      /\ \A i \in 1 .. (l - m + 1) : b[i] = s[m + i - 1]
  BY <1>4, <1>5, Zenon
<1>7. Len(b) = l - k
  BY <1>1, <1>3, <1>6
<1>8. ASSUME NEW i \in 1 .. (l - k) PROVE b[i] = s[k + i]
  <2>1. i \in 1 .. (l - m + 1) /\ m + i - 1 = k + i
    BY <1>1, <1>3
  <2> QED
    BY <1>6, <2>1
<1>9. Len(a) = k
  BY <1>1, <1>2
<1>10. ASSUME NEW i \in 1 .. k PROVE a[i] = s[i]
  <2>1. i \in 1 .. (k - 1 + 1) /\ 1 + i - 1 = i
    BY <1>1
  <2> QED
    BY <1>2, <2>1
<1>11. CutIn(s, k, a, b)
  BY <1>1, <1>2, <1>6, <1>7, <1>8, <1>9, <1>10 DEF CutIn
<1> QED
  BY <1>0, <1>11

\* A concatenation has the elements of its two parts.
LEMMA Joining ==
  ASSUME NEW S, NEW s \in Seq(S), NEW t \in Seq(S)
  PROVE  /\ s \o t \in Seq(S) /\ Len(s \o t) = Len(s) + Len(t)
         /\ \A i \in 1 .. Len(s) : (s \o t)[i] = s[i]
         /\ \A i \in 1 .. Len(t) : (s \o t)[Len(s) + i] = t[i]
<1>1. /\ s \o t \in Seq(S) /\ Len(s \o t) = Len(s) + Len(t)
      /\ \A i \in 1 .. Len(s) + Len(t) : (s \o t)[i] = IF i <= Len(s) THEN s[i] ELSE t[i - Len(s)]
  BY ConcatProperties
<1>2. Len(s) \in Nat /\ Len(t) \in Nat
  OBVIOUS
<1>3. ASSUME NEW i \in 1 .. Len(t) PROVE (s \o t)[Len(s) + i] = t[i]
  BY <1>1, <1>2
<1> QED
  BY <1>1, <1>2, <1>3

\* The same for sequences of numbers.
LEMMA JoinNats ==
  ASSUME NEW s \in Seq(Nat), NEW t \in Seq(Nat), NEW u, u = s \o t
  PROVE  /\ u \in Seq(Nat) /\ Len(u) = Len(s) + Len(t)
         /\ \A i \in 1 .. Len(s) : u[i] = s[i]
         /\ \A i \in 1 .. Len(t) : u[Len(s) + i] = t[i]
<1>1. /\ s \o t \in Seq(Nat) /\ Len(s \o t) = Len(s) + Len(t)
      /\ \A i \in 1 .. Len(s) : (s \o t)[i] = s[i]
      /\ \A i \in 1 .. Len(t) : (s \o t)[Len(s) + i] = t[i]
  BY ONLY s \in Seq(Nat), t \in Seq(Nat), Joining
<1> QED
  BY <1>1, Zenon

\* Sequences with the same elements.
LEMMA Same ==
  ASSUME NEW S, NEW s \in Seq(S), NEW t \in Seq(S), Len(s) = Len(t),
         \A i \in 1 .. Len(s) : s[i] = t[i]
  PROVE  s = t
BY SeqEqual

\* A sequence is empty exactly if its length is zero.
LEMMA Empty ==
  /\ <<>> \in Seq(Nat) /\ Len(<<>>) = 0
  /\ \A s \in Seq(Nat) : s = <<>> <=> Len(s) = 0
OBVIOUS

\* Words are numbers.
LEMMA Wider ==
  ASSUME NEW S, NEW T, S \subseteq T, NEW s \in Seq(S)
  PROVE  s \in Seq(T)
<1>1. Len(s) \in Nat /\ s \in [1 .. Len(s) -> S]
  OBVIOUS
<1>2. s \in [1 .. Len(s) -> T]
  BY <1>1
<1> QED
  BY <1>1, <1>2, SeqDef

\* There are two parties, each the peer of the other.
LEMMA Peers ==
  ASSUME NEW p \in Parties
  PROVE  Peer(p) \in Parties /\ Peer(Peer(p)) = p /\ Peer(p) # p /\ p \in Roles
         /\ (\A q \in Parties : q = p \/ q = Peer(p)) /\ "P2" \in Roles /\ p # "P2"
BY DEF Parties, Peer, Roles

-----------------------------------------------------------------------------
(* The vectors.                                                            *)

\* Residues are words.
LEMMA Words1 ==
  /\ \A a \in Int : Wrap(a) \in AWord /\ Wrap(a) \in Nat
  /\ AWord \subseteq Nat /\ Modulus \in Nat \ {0} /\ 0 \in AWord
<1>1. Modulus \in Nat \ {0}
  BY WordSize
<1>2. AWord \subseteq Nat /\ 0 \in AWord
  BY <1>1 DEF AWord
<1>3. \A a \in Int : a % Modulus \in 0 .. (Modulus - 1)
  BY <1>1, DivMod
<1> QED
  BY <1>1, <1>2, <1>3 DEF Wrap, AWord

\* A vector of n words.
IsVec(v, n) == v \in Seq(AWord) /\ Len(v) = n

\* A vector of n words is a sequence of numbers of length n.
LEMMA VecNat ==
  ASSUME NEW v, NEW n, IsVec(v, n)
  PROVE  v \in Seq(Nat) /\ Len(v) = n
<1>1. AWord \subseteq Nat
  BY Words1
<1> QED
  BY <1>1, Wider DEF IsVec

\* The sum of two vectors, element by element.
LEMMA PlusVec ==
  ASSUME NEW n \in Nat, NEW a \in Seq(Nat), NEW b \in Seq(Nat), Len(a) = n, Len(b) = n
  PROVE  IsVec(Plus(a, b), n) /\ \A i \in 1 .. n : Plus(a, b)[i] = Wrap(a[i] + b[i])
<1>1. DOMAIN a = 1 .. n
  OBVIOUS
<1>2. ASSUME NEW i \in 1 .. n PROVE a[i] + b[i] \in Int
  <2>1. a[i] \in Nat /\ b[i] \in Nat
    OBVIOUS
  <2> QED
    BY <2>1
<1>3. \A i \in 1 .. n : Wrap(a[i] + b[i]) \in AWord
  BY <1>2, Words1
<1> QED
  BY <1>1, <1>3 DEF Plus, IsVec

\* What PRG makes of a seed.
LEMMA PrgVec ==
  ASSUME NEW k \in Keys, NEW s, NEW n \in Nat,
         Prg[k][s] \in Seq(AWord \X AWord), n <= 2 * Len(Prg[k][s])
  PROVE  IsVec(fill_vector_with_prg(k, s, n), n)
<1>1. PICK b \in Seq(AWord \X AWord) : b = Prg[k][s] /\ Len(b) \in Nat
  OBVIOUS
<1>2. ASSUME NEW i \in 1 .. n PROVE b[(i + 1) \div 2][2 - (i % 2)] \in AWord
  <2>1. (i + 1) \div 2 \in 1 .. Len(b)
    BY <1>1
  <2>2. i % 2 \in {0, 1}
    OBVIOUS
  <2>3. b[(i + 1) \div 2] \in AWord \X AWord
    BY <1>1, <2>1
  <2> QED
    BY <2>2, <2>3
<1> QED
  BY <1>1, <1>2 DEF fill_vector_with_prg, IsVec

\* The sum in Times exists and is what its definition says.
LEMMA TimesSums ==
  ASSUME NEW n \in Nat, NEW a \in Seq(Nat), NEW b \in Seq(Nat), Len(a) = n, Len(b) = n
  PROVE  \E f : /\ f[0] = 0 /\ \A i \in 1 .. n : f[i] = Wrap(f[i - 1] + a[i] * b[i])
                /\ \A i \in 0 .. n : f[i] \in AWord
                /\ Times(a, b) = f[n]
<1> DEFINE Is(g, k) == g = [i \in 0 .. k |-> IF i = 0 THEN 0 ELSE Wrap(g[i - 1] + a[i] * b[i])]
           T == {k \in Nat : \E g : Is(g, k)}
<1>1. 0 \in T
  <2>1. PICK g : g = [i \in 0 .. 0 |-> 0]
    OBVIOUS
  <2>2. Is(g, 0)
    BY <2>1
  <2> QED
    BY <2>2
<1>2. ASSUME NEW k \in Nat, k \in T PROVE k + 1 \in T
  <2>1. PICK g : Is(g, k)
    BY <1>2
  <2>2. PICK h : h = [i \in 0 .. (k + 1) |-> IF i <= k THEN g[i]
                                             ELSE Wrap(g[k] + a[k + 1] * b[k + 1])]
    OBVIOUS
  <2>3. \A i \in 0 .. k : h[i] = g[i] /\ g[i] = IF i = 0 THEN 0 ELSE Wrap(g[i - 1] + a[i] * b[i])
    BY <2>1, <2>2
  <2>4. ASSUME NEW i \in 0 .. (k + 1)
        PROVE  h[i] = IF i = 0 THEN 0 ELSE Wrap(h[i - 1] + a[i] * b[i])
    <3>1. CASE i = 0
      BY <2>3, <3>1
    <3>2. CASE i \in 1 .. k
      <4>1. i - 1 \in 0 .. k /\ i \in 0 .. k /\ i # 0
        BY <3>2
      <4> QED
        BY <2>3, <4>1
    <3>3. CASE i = k + 1
      <4>1. i - 1 = k /\ k \in 0 .. k /\ i # 0 /\ ~(i <= k)
        BY <3>3
      <4>2. h[i] = Wrap(g[k] + a[k + 1] * b[k + 1]) /\ h[k] = g[k]
        BY <2>2, <2>3, <3>3, <4>1
      <4> QED
        BY <3>3, <4>1, <4>2
    <3> QED
      BY <3>1, <3>2, <3>3
  <2>5. Is(h, k + 1)
    <3>1. h = [i \in 0 .. (k + 1) |-> h[i]]
      BY <2>2
    <3> QED
      BY <2>4, <3>1
  <2> HIDE DEF Is
  <2> QED
    BY <2>5
<1>3. \E g : Is(g, n)
  <2> HIDE DEF T
  <2>1. Nat \subseteq T
    BY <1>1, <1>2, Induction
  <2> QED
    BY <2>1 DEF T
<1>4. PICK f : Is(f, n) /\ Times(a, b) = f[n]
  <2>1. Times(a, b) = (CHOOSE g : Is(g, n))[n]
    BY DEF Times
  <2>2. Is(CHOOSE g : Is(g, n), n)
    BY <1>3
  <2> QED
    BY <2>1, <2>2
<1>5. f[0] = 0
  BY <1>4
<1>6. ASSUME NEW i \in 1 .. n PROVE f[i] = Wrap(f[i - 1] + a[i] * b[i])
  BY <1>4
<1> HIDE DEF Is, T
<1> DEFINE U == {k \in Nat : k <= n => f[k] \in AWord}
<1>7. 0 \in U
  BY <1>5, Words1
<1>8. ASSUME NEW k \in Nat, k \in U PROVE k + 1 \in U
  <2>1. SUFFICES ASSUME k + 1 <= n PROVE f[k + 1] \in AWord
    OBVIOUS
  <2>2. k + 1 \in 1 .. n /\ (k + 1) - 1 = k /\ k <= n
    BY <2>1
  <2>3. PICK c, d, w : c = a[k + 1] /\ d = b[k + 1] /\ w = f[k]
    OBVIOUS
  <2>4. w \in AWord
    BY <1>8, <2>2, <2>3
  <2>5. AWord \subseteq Nat
    BY Words1
  <2>6. c \in Nat /\ d \in Nat /\ w \in Nat
    BY <2>2, <2>3, <2>4, <2>5
  <2>7. c * d \in Nat
    BY <2>6
  <2>8. w + c * d \in Int
    BY <2>6, <2>7
  <2>9. Wrap(w + c * d) \in AWord
    BY <2>8, Words1
  <2>10. f[k + 1] = Wrap(w + c * d)
    BY <1>6, <2>2, <2>3
  <2> QED
    BY <2>9, <2>10
<1>9. \A i \in 0 .. n : f[i] \in AWord
  <2> HIDE DEF U
  <2>1. Nat \subseteq U
    BY <1>7, <1>8, Induction
  <2> QED
    BY <2>1 DEF U
<1> QED
  BY <1>4, <1>5, <1>6, <1>9

\* The parameters of the call.
LEMMA Params ==
  ASSUME Given, NEW p \in Parties
  PROVE  /\ len[p] \in Nat /\ len["P2"] \in Nat /\ aes[p] \in Keys /\ aes["P2"] \in Keys
         /\ call \in {"dot", "reconstruct", "locoram"}
         /\ IsVec(X(p), len[p]) /\ IsVec(Y(p), len[p])
<1>1. /\ len[p] \in Lens /\ len["P2"] \in Lens /\ aes[p] \in Keys /\ aes["P2"] \in Keys
  BY Peers DEF Given
<1>2. /\ len[p] \in Nat /\ len["P2"] \in Nat /\ call \in {"dot", "reconstruct", "locoram"}
      /\ XIn[p] \in Seq(AWord) /\ len[p] <= Len(XIn[p])
      /\ YIn[p] \in Seq(AWord) /\ len[p] <= Len(YIn[p])
  BY <1>1, VectorAssumption DEF Given
<1>3. ASSUME NEW v \in Seq(AWord), NEW n \in Nat, n <= Len(v) PROVE IsVec(SubSeq(v, 1, n), n)
  <2>1. SubSeq(v, 1, n) \in Seq(AWord) /\ Len(SubSeq(v, 1, n)) = IF 1 <= n THEN n - 1 + 1 ELSE 0
    BY <1>3, Piece
  <2> QED
    BY <2>1 DEF IsVec
<1> QED
  BY <1>1, <1>2, <1>3 DEF X, Y

\* The seeds that P2 has dealt, and what becomes of them.
LEMMA Seeds ==
  ASSUME Given, call = "dot", NEW s \in Draws, NEW p \in Parties, NEW k \in Keys,
         NEW n \in Lens
  PROVE  /\ IsVec(fill_vector_with_prg(k, s[p].x, n), n)
         /\ IsVec(fill_vector_with_prg(k, s[p].y, n), n)
<1>1. /\ Prg[k][s[p].x] \in Seq(AWord \X AWord) /\ n <= 2 * Len(Prg[k][s[p].x])
      /\ Prg[k][s[p].y] \in Seq(AWord \X AWord) /\ n <= 2 * Len(Prg[k][s[p].y])
      /\ n \in Nat
  BY VectorAssumption
<1> QED
  BY <1>1, PrgVec

\* What p sends, once P2 has dealt.
LEMMA SendsVec ==
  ASSUME Given, NEW p \in Parties, st["P2"] # "run"
  PROVE  /\ K \in {1, 2} /\ (K = 2 <=> call = "dot")
         /\ \A i \in 1 .. K : IsVec(V(p, i), len[p])
         /\ K = 1 => Sends(p) = <<V(p, 1)>>
         /\ K = 2 => Sends(p) = <<V(p, 1), V(p, 2)>>
<1>1. K \in {1, 2} /\ (K = 2 <=> call = "dot")
  BY DEF K
<1>2. CASE call = "dot"
  <2>1. PICK s \in Draws : dealt = Dealing(s)
    BY <1>2 DEF Given
  <2>2. dealt[p].x = s[p].x /\ dealt[p].y = s[p].y
    BY <2>1 DEF Dealing
  <2>3. len[p] \in Lens /\ aes[p] \in Keys /\ len[p] \in Nat
    BY Peers, Params DEF Given
  <2>4. IsVec(Blind(p, dealt[p].x), len[p]) /\ IsVec(Blind(p, dealt[p].y), len[p])
    BY <1>2, <2>2, <2>3, Seeds DEF Blind
  <2>5. PICK a, b : a = Plus(X(p), Blind(p, dealt[p].x)) /\ b = Plus(Y(p), Blind(p, dealt[p].y))
    OBVIOUS
  <2>6. IsVec(a, len[p]) /\ IsVec(b, len[p])
    BY <2>3, <2>4, <2>5, Params, PlusVec, VecNat
  <2>7. Sends(p) = <<a, b>>
    BY <1>2, <2>5 DEF Sends
  <2>8. V(p, 1) = a /\ V(p, 2) = b
    BY <2>7 DEF V
  <2> QED
    BY <1>1, <1>2, <2>6, <2>7, <2>8
<1>3. CASE call # "dot"
  <2>1. Sends(p) = <<X(p)>>
    BY <1>3 DEF Sends
  <2>2. V(p, 1) = X(p)
    BY <2>1 DEF V
  <2> QED
    BY <1>1, <1>3, <2>1, <2>2, Params
<1> QED
  BY <1>2, <1>3

-----------------------------------------------------------------------------
(* One transfer of a write.                                                *)

\* The queue q after a transfer of k words.
AfterWrite(q, k) ==
  LET ops == Head(q)
      op == Head(ops)
      left == IF k = Len(op) THEN Tail(ops) ELSE <<SubSeq(op, k + 1, Len(op))>> \o Tail(ops)
  IN  Requeue(q, left # <<>>, left)

\* It, spelt out: for the last operation of a coroutine, and for one before it.
LEMMA WriteLast ==
  ASSUME NEW op, Block(op), NEW k \in 1 .. Len(op), NEW rest, rest = SubSeq(op, k + 1, Len(op))
  PROVE  AfterWrite(<<<<op>>>>, k) = IF k = Len(op) THEN <<>> ELSE <<<<rest>>>>
<1>1. PICK ops, q, e : ops = <<op>> /\ q = <<ops>> /\ e = <<rest>>
  OBVIOUS
<1>2. Head(q) = ops /\ Head(ops) = op /\ Tail(ops) = <<>> /\ e # <<>>
  BY <1>1, Tuples
<1>3. e \o <<>> = e
  <2>1. e \in Seq({rest})
    BY <1>1
  <2> QED
    BY <2>1, ConcatEmptySeq
<1>4. Requeue(q, TRUE, e) = <<e>> /\ Requeue(q, FALSE, <<>>) = <<>>
  BY <1>1, RequeueOne
<1>5. AfterWrite(q, k) = IF k = Len(op) THEN Requeue(q, FALSE, <<>>) ELSE Requeue(q, TRUE, e)
  BY <1>1, <1>2, <1>3 DEF AfterWrite
<1> QED
  BY <1>1, <1>4, <1>5

\* A transfer of the last block of the first of two writes.
LEMMA WriteLastOfTwo ==
  ASSUME NEW op, Block(op), NEW k \in 1 .. Len(op), NEW rest, rest = SubSeq(op, k + 1, Len(op)),
         NEW b
  PROVE  AfterWrite(<<<<op>>, b>>, k) = IF k = Len(op) THEN <<b>> ELSE <<b, <<rest>>>>
<1>1. PICK ops, q, e : ops = <<op>> /\ q = <<ops, b>> /\ e = <<rest>>
  OBVIOUS
<1>2. Head(q) = ops /\ Head(ops) = op /\ Tail(ops) = <<>> /\ e # <<>>
  BY <1>1, Tuples
<1>3. e \o <<>> = e
  <2>1. e \in Seq({rest})
    BY <1>1
  <2> QED
    BY <2>1, ConcatEmptySeq
<1>4. Requeue(q, TRUE, e) = <<b, e>> /\ Requeue(q, FALSE, <<>>) = <<b>>
  <2>1. q[1] = ops /\ q[2] = b /\ q = <<q[1], q[2]>>
    BY <1>1
  <2> QED
    BY <2>1, RequeueTwo
<1>5. AfterWrite(q, k) = IF k = Len(op) THEN Requeue(q, FALSE, <<>>) ELSE Requeue(q, TRUE, e)
  BY <1>1, <1>2, <1>3 DEF AfterWrite
<1> QED
  BY <1>1, <1>4, <1>5

\* The last block, written whole, ends its write.
LEMMA WriteAll ==
  ASSUME NEW op, Block(op), NEW b
  PROVE  AfterWrite(<<<<op>>>>, Len(op)) = <<>> /\ AfterWrite(<<<<op>>, b>>, Len(op)) = <<b>>
<1>1. op \in Seq(Nat) /\ Len(op) \in Nat /\ Len(op) # 0
  BY Empty DEF Block
<1>0. PICK k \in 1 .. Len(op) : k = Len(op)
  BY <1>1
<1>2. PICK rest : k = Len(op) /\ rest = SubSeq(op, k + 1, Len(op))
  BY <1>0
<1>3. AfterWrite(<<<<op>>>>, k) = <<>>
  BY <1>2, WriteLast
<1>4. AfterWrite(<<<<op>>, b>>, k) = <<b>>
  BY <1>2, WriteLastOfTwo
<1> QED
  BY <1>2, <1>3, <1>4

\* A whole first block leaves the second to write.
LEMMA WriteFirst ==
  ASSUME NEW op, NEW d
  PROVE  AfterWrite(<<<<op, d>>>>, Len(op)) = <<<<d>>>>
<1>1. PICK ops, q, e : ops = <<op, d>> /\ q = <<ops>> /\ e = <<d>>
  OBVIOUS
<1>2. Head(q) = ops /\ Head(ops) = op /\ Tail(ops) = e /\ e # <<>>
  BY <1>1, Tuples
<1>3. Requeue(q, TRUE, e) = <<e>>
  BY <1>1, RequeueOne
<1>4. AfterWrite(q, Len(op)) = Requeue(q, TRUE, e)
  BY <1>2 DEF AfterWrite
<1> QED
  BY <1>1, <1>3, <1>4

\* A whole first block of one of two writes: its second block comes last.
LEMMA WriteFirstOfTwo ==
  ASSUME NEW op, NEW d, NEW b
  PROVE  AfterWrite(<<<<op, d>>, b>>, Len(op)) = <<b, <<d>>>>
<1>1. PICK ops, q, e : ops = <<op, d>> /\ q = <<ops, b>> /\ e = <<d>>
  OBVIOUS
<1>2. Head(q) = ops /\ Head(ops) = op /\ Tail(ops) = e /\ e # <<>>
  BY <1>1, Tuples
<1>3. Requeue(q, TRUE, e) = <<b, e>>
  <2>1. q[1] = ops /\ q[2] = b /\ q = <<q[1], q[2]>>
    BY <1>1
  <2> QED
    BY <2>1, RequeueTwo
<1>4. AfterWrite(q, Len(op)) = Requeue(q, TRUE, e)
  BY <1>2 DEF AfterWrite
<1> QED
  BY <1>1, <1>3, <1>4

\* The operations of a send.
LEMMA SendOps ==
  ASSUME NEW n \in Nat, NEW v, IsVec(v, n)
  PROVE  /\ n = 0 => send(v) = <<<<n>>>> /\ v = <<>>
         /\ n > 0 => send(v) = <<<<n>>, v>> /\ Block(v)
         /\ Block(<<n>>) /\ Len(<<n>>) = 1 /\ <<n>>[1] = n
<1>1. v \in Seq(Nat) /\ Len(v) = n
  BY VecNat
<1>2. n = 0 <=> v = <<>>
  BY <1>1, Empty
<1>3. Block(<<n>>) /\ Len(<<n>>) = 1 /\ <<n>>[1] = n
  BY DEF Block
<1> QED
  BY <1>1, <1>2, <1>3 DEF send, Block

\* What is left of a block is one.
LEMMA RestBlock ==
  ASSUME NEW op, Block(op), NEW k \in 1 .. Len(op), k # Len(op)
  PROVE  Block(SubSeq(op, k + 1, Len(op)))
<1>1. Len(op) \in Nat /\ k + 1 \in Nat \ {0} /\ k + 1 <= Len(op) /\ op \in Seq(Nat)
  BY DEF Block
<1>2. SubSeq(op, k + 1, Len(op)) \in Seq(Nat)
      /\ Len(SubSeq(op, k + 1, Len(op))) = Len(op) - (k + 1) + 1
  BY <1>1, Piece
<1>3. PICK t, n : t = SubSeq(op, k + 1, Len(op)) /\ n = Len(op)
  OBVIOUS
<1>4. n \in Nat /\ k \in Nat /\ k < n
  BY <1>1, <1>3
<1>5. t \in Seq(Nat) /\ Len(t) = n - (k + 1) + 1
  BY <1>2, <1>3
<1>6. t \in Seq(Nat) /\ Len(t) # 0
  BY <1>4, <1>5
<1>7. Block(t)
  BY <1>6, Empty DEF Block
<1> QED
  BY <1>3, <1>7

\* A length is written in one transfer.
LEMMA LengthLast ==
  ASSUME NEW n \in Nat, NEW b
  PROVE  AfterWrite(<<<<<<n>>>>>>, 1) = <<>> /\ AfterWrite(<<<<<<n>>>>, b>>, 1) = <<b>>
<1>1. PICK op : op = <<n>>
  OBVIOUS
<1>2. Block(op) /\ Len(op) = 1 /\ 1 \in 1 .. Len(op)
  BY <1>1 DEF Block
<1>3. AfterWrite(<<<<op>>>>, 1) = <<>>
  BY <1>2, WriteLast
<1>4. AfterWrite(<<<<op>>, b>>, 1) = <<b>>
  BY <1>2, WriteLastOfTwo
<1> QED
  BY <1>1, <1>3, <1>4

\* The length is written: the data are left.
LEMMA LengthFirst ==
  ASSUME NEW n \in Nat, NEW d
  PROVE  AfterWrite(<<<<<<n>>, d>>>>, 1) = <<<<d>>>>
<1>0. Len(<<n>>) = 1
  OBVIOUS
<1>1. PICK op : op = <<n>> /\ Len(op) = 1
  BY <1>0
<1>2. AfterWrite(<<<<op, d>>>>, Len(op)) = <<<<d>>>>
  BY WriteFirst
<1> QED
  BY <1>1, <1>2

\* One of two lengths is written: its data come after the other write.
LEMMA LengthFirstOfTwo ==
  ASSUME NEW n \in Nat, NEW d, NEW b
  PROVE  AfterWrite(<<<<<<n>>, d>>, b>>, 1) = <<b, <<d>>>>
<1>0. Len(<<n>>) = 1
  OBVIOUS
<1>1. PICK op : op = <<n>> /\ Len(op) = 1
  BY <1>0
<1>2. AfterWrite(<<<<op, d>>, b>>, Len(op)) = <<b, <<d>>>>
  BY WriteFirstOfTwo
<1> QED
  BY <1>1, <1>2

\* The first operation, and the queue after a transfer.
LEMMA WriteNext ==
  ASSUME Given, NEW p \in Parties, st["P2"] # "run", NEW h \in 0 .. K, NEW q, Writes(p, h, q),
         q # <<>>
  PROVE  /\ Sent(p) /\ Block(Head(Head(q)))
         /\ h < K => Head(Head(q)) = <<len[p]>> /\ Writes(p, h + 1, AfterWrite(q, 1))
         /\ h = K => \A k \in 1 .. Len(Head(Head(q))) : Writes(p, h, AfterWrite(q, k))
<1>1. /\ K \in {1, 2} /\ len[p] \in Nat
      /\ IsVec(V(p, 1), len[p]) /\ (K = 2 => IsVec(V(p, 2), len[p]))
  BY SendsVec, Params
<1>2. PICK n \in Nat : n = len[p]
  BY <1>1
<1>3. PICK a, b : a = V(p, 1) /\ b = V(p, 2)
  OBVIOUS
<1>4. /\ n = 0 => send(a) = <<<<n>>>>
      /\ n > 0 => send(a) = <<<<n>>, a>> /\ Block(a)
      /\ Block(<<n>>) /\ Len(<<n>>) = 1 /\ <<n>>[1] = n
  BY <1>1, <1>2, <1>3, SendOps
<1>5. K = 2 => /\ n = 0 => send(b) = <<<<n>>>>
               /\ n > 0 => send(b) = <<<<n>>, b>> /\ Block(b)
  BY <1>1, <1>2, <1>3, SendOps
<1>6. CASE h = 0 /\ Sent(p) /\ K = 1 /\ q = <<send(a)>>
  <2>1. CASE n = 0
    <3>1. q = <<<<<<n>>>>>> /\ Head(Head(q)) = <<n>>
      BY <1>4, <1>6, <2>1, Tuples
    <3>2. AfterWrite(q, 1) = <<>>
      BY <1>4, <3>1, LengthLast
    <3> QED
      BY <1>2, <1>4, <1>6, <3>1, <3>2 DEF Writes
  <2>2. CASE n > 0
    <3>1. q = <<<<<<n>>, a>>>> /\ Head(Head(q)) = <<n>>
      BY <1>4, <1>6, <2>2, Tuples
    <3>2. PICK t : t = AfterWrite(q, 1)
      OBVIOUS
    <3>3. t = <<<<a>>>> /\ Block(a)
      BY <1>4, <2>2, <3>1, <3>2, LengthFirst
    <3>4. Len(t) = 1 /\ t[1][1] = a
      BY <3>3
    <3>5. Writes(p, 1, t)
      BY <1>6, <3>3, <3>4 DEF Writes
    <3> QED
      BY <1>2, <1>4, <1>6, <3>1, <3>2, <3>5
  <2> QED
    BY <2>1, <2>2
<1>7. CASE h = 0 /\ Sent(p) /\ K = 2 /\ q = <<send(a), send(b)>>
  <2>1. CASE n = 0
    <3>1. q = <<<<<<n>>>>, send(b)>> /\ Head(Head(q)) = <<n>>
      BY <1>4, <1>7, <2>1, Tuples
    <3>2. AfterWrite(q, 1) = <<send(b)>>
      BY <1>4, <3>1, LengthLast
    <3> QED
      BY <1>2, <1>3, <1>4, <1>7, <2>1, <3>1, <3>2 DEF Writes
  <2>2. CASE n > 0
    <3>1. q = <<<<<<n>>, a>>, send(b)>> /\ Head(Head(q)) = <<n>>
      BY <1>4, <1>7, <2>2, Tuples
    <3>2. AfterWrite(<<<<<<n>>, a>>, send(b)>>, 1) = <<send(b), <<a>>>>
      BY LengthFirstOfTwo
    <3>3. AfterWrite(q, 1) = <<send(b), <<a>>>>
      BY <3>1, <3>2
    <3> QED
      BY <1>2, <1>3, <1>4, <1>7, <2>2, <3>1, <3>3 DEF Writes
  <2> QED
    BY <2>1, <2>2
<1>8. CASE h = 1 /\ Sent(p) /\ K = 2 /\ n = 0 /\ q = <<send(b)>>
  <2>1. q = <<<<<<n>>>>>> /\ Head(Head(q)) = <<n>>
    BY <1>5, <1>8, Tuples
  <2>2. AfterWrite(q, 1) = <<>>
    BY <1>4, <2>1, LengthLast
  <2> QED
    BY <1>2, <1>4, <1>8, <2>1, <2>2 DEF Writes
<1>9. CASE h = 1 /\ Sent(p) /\ K = 2 /\ n > 0 /\ q = <<send(b), <<a>>>>
  <2>1. q = <<<<<<n>>, b>>, <<a>>>> /\ Head(Head(q)) = <<n>>
    BY <1>5, <1>9, Tuples
  <2>2. PICK t : t = AfterWrite(q, 1)
    OBVIOUS
  <2>3. t = <<<<a>>, <<b>>>> /\ Block(a) /\ Block(b)
    <3>1. PICK c : c = <<a>>
      OBVIOUS
    <3>2. AfterWrite(<<<<<<n>>, b>>, c>>, 1) = <<c, <<b>>>>
      BY LengthFirstOfTwo
    <3> QED
      BY <1>4, <1>5, <1>9, <2>1, <2>2, <3>1, <3>2
  <2>4. Len(t) = 2 /\ t[1][1] = a /\ t[2][1] = b
    BY <2>3
  <2>5. Writes(p, 2, t)
    BY <1>9, <2>3, <2>4 DEF Writes
  <2> QED
    BY <1>2, <1>4, <1>9, <2>1, <2>2, <2>5
<1>10. CASE h = K /\ Sent(p) /\ Len(q) = 1 /\ q = <<<<q[1][1]>>>> /\ Block(q[1][1])
  <2>1. PICK op : op = q[1][1]
    OBVIOUS
  <2>2. q = <<<<op>>>> /\ Block(op) /\ Head(Head(q)) = op
    BY <1>10, <2>1, Tuples
  <2>3. ASSUME NEW k \in 1 .. Len(op) PROVE Writes(p, h, AfterWrite(q, k))
    <3>1. PICK t, d : t = AfterWrite(q, k) /\ d = SubSeq(op, k + 1, Len(op))
      OBVIOUS
    <3>2. t = IF k = Len(op) THEN <<>> ELSE <<<<d>>>>
      BY <2>2, <3>1, WriteLast
    <3>3. CASE k = Len(op)
      BY <1>10, <3>1, <3>2, <3>3 DEF Writes
    <3>4. CASE k # Len(op)
      <4>1. Block(d) /\ t = <<<<d>>>>
        BY <2>2, <3>1, <3>2, <3>4, RestBlock
      <4>2. Len(t) = 1 /\ t[1][1] = d
        BY <4>1
      <4> QED
        BY <1>10, <3>1, <4>1, <4>2 DEF Writes
    <3> QED
      BY <3>3, <3>4
  <2> QED
    BY <1>10, <2>2, <2>3
<1>11. CASE /\ h = K /\ Sent(p) /\ Len(q) = 2 /\ q = <<<<q[1][1]>>, <<q[2][1]>>>>
            /\ Block(q[1][1]) /\ Block(q[2][1])
  <2>1. PICK op, c : op = q[1][1] /\ c = q[2][1]
    OBVIOUS
  <2>2. q = <<<<op>>, <<c>>>> /\ Block(op) /\ Block(c) /\ Head(Head(q)) = op
    BY <1>11, <2>1, Tuples
  <2>3. ASSUME NEW k \in 1 .. Len(op) PROVE Writes(p, h, AfterWrite(q, k))
    <3>1. PICK t, d : t = AfterWrite(q, k) /\ d = SubSeq(op, k + 1, Len(op))
      OBVIOUS
    <3>2. t = IF k = Len(op) THEN <<<<c>>>> ELSE <<<<c>>, <<d>>>>
      BY <2>2, <3>1, WriteLastOfTwo, SMTT(60)
    <3>3. CASE k = Len(op)
      <4>1. t = <<<<c>>>> /\ Len(t) = 1 /\ t[1][1] = c
        BY <3>2, <3>3
      <4> QED
        BY <1>11, <2>2, <3>1, <4>1 DEF Writes
    <3>4. CASE k # Len(op)
      <4>1. Block(d) /\ t = <<<<c>>, <<d>>>>
        BY <2>2, <3>1, <3>2, <3>4, RestBlock
      <4>2. Len(t) = 2 /\ t[1][1] = c /\ t[2][1] = d
        BY <4>1
      <4> QED
        BY <1>11, <2>2, <3>1, <4>1, <4>2 DEF Writes
    <3> QED
      BY <3>3, <3>4
  <2> QED
    BY <1>11, <2>2, <2>3
<1> QED
  BY <1>2, <1>3, <1>6, <1>7, <1>8, <1>9, <1>10, <1>11 DEF Writes

-----------------------------------------------------------------------------
(* One transfer of a read.                                                 *)

\* The queue q and the vectors vs after a transfer of the words ws.
AfterRead(q, ws) ==
  LET a == Advanced(Head(q), ws) IN Requeue(q, a.need > 0, a)
NowHas(q, vs, ws) ==
  LET a == Advanced(Head(q), ws)
  IN  IF a.need > 0 THEN vs ELSE Append(vs, [id |-> a.id, val |-> a.got])

\* What a transfer makes of a read: of a length, of data.
LEMMA LengthRead ==
  ASSUME NEW i, NEW ws \in Seq(Nat), ws # <<>>
  PROVE  Advanced(recv_vector(i), ws) = Data(i, ws[1], <<>>)
<1>1. PICK x, n, e : x = recv_vector(i) /\ n = ws[1] /\ e = <<>>
  OBVIOUS
<1>2. Head(ws) = n
  BY <1>1
<1>3. x = [id |-> i, length |-> TRUE, need |-> 1, got |-> e]
  BY <1>1 DEF recv_vector
<1>4. Advanced(x, ws) = [x EXCEPT !.length = FALSE, !.need = n]
  BY <1>2, <1>3 DEF Advanced
<1>5. PICK y : y = [x EXCEPT !.length = FALSE]
  OBVIOUS
<1>6. y = [id |-> i, length |-> FALSE, need |-> 1, got |-> e]
  BY <1>3, <1>5
<1>7. [y EXCEPT !.need = n] = [id |-> i, length |-> FALSE, need |-> n, got |-> e]
  <2>1. n \in Nat
    BY <1>1
  <2>2. PICK f : f = FALSE
    OBVIOUS
  <2>3. y = [id |-> i, length |-> f, need |-> 1, got |-> e]
    BY <1>6, <2>2
  <2>4. [y EXCEPT !.need = n] = [id |-> i, length |-> f, need |-> n, got |-> e]
    BY <2>1, <2>3
  <2> QED
    BY <2>2, <2>4
<1> QED
  BY <1>1, <1>4, <1>5, <1>7 DEF Data

\* A read that has got words of its data is still a part, or full.
LEMMA DataRead ==
  ASSUME NEW m \in Nat, NEW i, NEW x, Part(x, i, m), NEW ws \in Seq(Nat), ws # <<>>,
         Len(ws) <= x.need, NEW a, a = Advanced(x, ws)
  PROVE  /\ a = Data(i, x.need - Len(ws), x.got \o ws)
         /\ a.need > 0 => Part(a, i, m)
         /\ ~(a.need > 0) => Full(Got(a.id, a.got), i, m) /\ a.id = i
<1>1. PICK need, got : need = x.need /\ got = x.got
  OBVIOUS
<1>2. x = Data(i, need, got) /\ got \in Seq(Nat) /\ need \in Nat \ {0} /\ need + Len(got) = m
  BY <1>1 DEF Part
<1>3. a = Data(i, need - Len(ws), got \o ws)
  BY <1>2 DEF Advanced, Data
<1>4. got \o ws \in Seq(Nat) /\ Len(got \o ws) = Len(got) + Len(ws) /\ Len(ws) \in Nat /\ Len(got) \in Nat
  BY <1>2, Joining
<1>5. a.need = need - Len(ws) /\ a.got = got \o ws /\ a.id = i
  BY <1>3 DEF Data
<1>6. need - Len(ws) \in Nat /\ (need - Len(ws)) + Len(got \o ws) = m
  BY <1>1, <1>2, <1>4
<1>7. ASSUME a.need > 0 PROVE Part(a, i, m)
  <2>1. a = Data(i, a.need, a.got)
    BY <1>3, <1>5
  <2>2. a.need \in Nat \ {0} /\ a.need + Len(a.got) = m
    BY <1>5, <1>6, <1>7
  <2> QED
    BY <1>4, <1>5, <2>1, <2>2 DEF Part
<1>8. ASSUME ~(a.need > 0) PROVE Full(Got(a.id, a.got), i, m)
  <2>1. need - Len(ws) = 0
    BY <1>5, <1>6, <1>8
  <2>2. PICK f : f = Got(a.id, a.got)
    OBVIOUS
  <2>3. f.val = a.got /\ f = Got(i, f.val)
    BY <1>5, <2>2 DEF Got
  <2>4. Len(a.got) = m
    BY <1>4, <1>5, <1>6, <2>1
  <2> QED
    BY <1>4, <1>5, <2>2, <2>3, <2>4 DEF Full
<1> QED
  BY <1>1, <1>3, <1>5, <1>7, <1>8

\* How many words the first read waits for.
LEMMA ReadHead ==
  ASSUME Given, NEW p \in Parties, NEW m \in Nat, NEW g \in 0 .. K, NEW q, NEW vs,
         Reads(p, g, q, vs, m), q # <<>>
  PROVE  /\ Asked(p) /\ Head(q).need \in Nat \ {0} /\ (g < K => Head(q).need = 1)
<1>1. K \in {1, 2}
  BY DEF K
<1>2. \A i : recv_vector(i).need = 1
  BY DEF recv_vector
<1>3. \A x, i : Part(x, i, m) => x.need \in Nat \ {0}
  BY DEF Part
<1>4. ASSUME NEW a, NEW b PROVE Head(<<a>>) = a /\ Head(<<a, b>>) = a
  BY Tuples
<1> QED
  BY <1>1, <1>2, <1>3, <1>4 DEF Reads

\* The read goes on, or the vector is complete.
LEMMA ReadShapes ==
  ASSUME NEW q, NEW vs, NEW ws, NEW a, a = Advanced(Head(q), ws)
  PROVE  /\ a.need > 0 => NowHas(q, vs, ws) = vs
         /\ ~(a.need > 0) => NowHas(q, vs, ws) = Append(vs, Got(a.id, a.got))
         /\ Len(q) = 1 /\ q = <<q[1]>> /\ a.need > 0 => AfterRead(q, ws) = <<a>>
         /\ Len(q) = 1 /\ q = <<q[1]>> /\ ~(a.need > 0) => AfterRead(q, ws) = <<>>
         /\ Len(q) = 2 /\ q = <<q[1], q[2]>> /\ a.need > 0 => AfterRead(q, ws) = <<q[2], a>>
         /\ Len(q) = 2 /\ q = <<q[1], q[2]>> /\ ~(a.need > 0) => AfterRead(q, ws) = <<q[2]>>
<1>1. /\ a.need > 0 => AfterRead(q, ws) = Requeue(q, TRUE, a)
      /\ ~(a.need > 0) => AfterRead(q, ws) = Requeue(q, FALSE, a)
  BY DEF AfterRead, Requeue
<1>2. q = <<q[1]>> => Requeue(q, TRUE, a) = <<a>> /\ Requeue(q, FALSE, a) = <<>>
  <2>1. PICK b : b = q[1]
    OBVIOUS
  <2>2. Requeue(<<b>>, TRUE, a) = <<a>> /\ Requeue(<<b>>, FALSE, a) = <<>>
    BY RequeueOne
  <2> QED
    BY <2>1, <2>2
<1>3. q = <<q[1], q[2]>> => Requeue(q, TRUE, a) = <<q[2], a>> /\ Requeue(q, FALSE, a) = <<q[2]>>
  BY RequeueTwo
<1>4. /\ a.need > 0 => NowHas(q, vs, ws) = vs
      /\ ~(a.need > 0) => NowHas(q, vs, ws) = Append(vs, Got(a.id, a.got))
  BY DEF NowHas, Got
<1> QED
  BY <1>1, <1>2, <1>3, <1>4

\* The read that follows a length.
LEMMA Fresh ==
  ASSUME NEW m \in Nat, NEW i
  PROVE  /\ Data(i, m, <<>>).need = m /\ Data(i, m, <<>>).id = i /\ Data(i, m, <<>>).got = <<>>
         /\ m > 0 => Part(Data(i, m, <<>>), i, m)
         /\ m = 0 => Full(Got(i, <<>>), i, m)
<1>1. PICK e : e = <<>>
  OBVIOUS
<1>2. e \in Seq(Nat) /\ Len(e) = 0
  BY <1>1, Empty
<1>3. Data(i, m, e).need = m /\ Data(i, m, e).id = i /\ Data(i, m, e).got = e
  BY DEF Data
<1>4. m > 0 => Part(Data(i, m, e), i, m)
  BY <1>2, <1>3 DEF Part
<1>5. Got(i, e).val = e
  BY DEF Got
<1>6. m = 0 => Full(Got(i, e), i, m)
  BY <1>2, <1>5 DEF Full
<1> QED
  BY <1>1, <1>3, <1>4, <1>6

\* A transfer takes the reads of a party from one of the forms of Reads to another.
LEMMA ReadNext ==
  ASSUME Given, NEW p \in Parties, NEW m \in Nat, NEW g \in 0 .. K, NEW q, NEW vs,
         Reads(p, g, q, vs, m), q # <<>>,
         NEW ws \in Seq(Nat), ws # <<>>, Len(ws) <= Head(q).need, g < K => ws[1] = m
  PROVE  Reads(p, IF g < K THEN g + 1 ELSE g, AfterRead(q, ws), NowHas(q, vs, ws), m)
<1>1. K \in {1, 2}
  BY DEF K
<1>2. PICK a, t, us, e, n : /\ a = Advanced(Head(q), ws) /\ t = AfterRead(q, ws)
                            /\ us = NowHas(q, vs, ws) /\ e = <<>> /\ n = m
  OBVIOUS
<1>3. /\ a.need > 0 => us = vs
      /\ ~(a.need > 0) => us = Append(vs, Got(a.id, a.got))
      /\ Len(q) = 1 /\ q = <<q[1]>> /\ a.need > 0 => t = <<a>>
      /\ Len(q) = 1 /\ q = <<q[1]>> /\ ~(a.need > 0) => t = <<>>
      /\ Len(q) = 2 /\ q = <<q[1], q[2]>> /\ a.need > 0 => t = <<q[2], a>>
      /\ Len(q) = 2 /\ q = <<q[1], q[2]>> /\ ~(a.need > 0) => t = <<q[2]>>
  BY <1>2, ReadShapes
<1>4. ASSUME NEW i, Head(q) = recv_vector(i), ws[1] = m
      PROVE  /\ a = Data(i, m, e) /\ a.need = m /\ a.id = i /\ a.got = e
             /\ m > 0 => Part(a, i, m)
             /\ m = 0 => Full(Got(i, e), i, m)
  BY <1>2, <1>4, LengthRead, Fresh
<1>5. CASE g = 0 /\ Asked(p) /\ K = 1 /\ q = <<recv_vector(1)>> /\ vs = <<>>
  <2>1. Len(q) = 1 /\ q = <<q[1]>> /\ Head(q) = recv_vector(1) /\ ws[1] = m
    BY <1>5, Tuples
  <2>2. a.need = m /\ a.id = 1 /\ a.got = e /\ (m > 0 => Part(a, 1, m)) /\ (m = 0 => Full(Got(1, e), 1, m))
    BY <1>4, <2>1
  <2>3. CASE m > 0
    <3>1. t = <<a>> /\ us = <<>> /\ Part(a, 1, m) /\ Len(t) = 1 /\ t[1] = a
      BY <1>3, <1>5, <2>1, <2>2, <2>3
    <3> QED
      BY <1>2, <1>5, <3>1 DEF Reads
  <2>4. CASE m = 0
    <3>1. t = <<>> /\ us = <<Got(1, e)>> /\ Full(Got(1, e), 1, m)
      BY <1>3, <1>5, <2>1, <2>2, <2>4, Tuples
    <3>2. Len(us) = 1 /\ us[1] = Got(1, e)
      BY <3>1
    <3> QED
      BY <1>2, <1>5, <3>1, <3>2 DEF Reads
  <2> QED
    BY <2>3, <2>4
<1>6. CASE g = 0 /\ Asked(p) /\ K = 2 /\ q = <<recv_vector(1), recv_vector(2)>> /\ vs = <<>>
  <2>1. /\ Len(q) = 2 /\ q = <<q[1], q[2]>> /\ q[2] = recv_vector(2)
        /\ Head(q) = recv_vector(1) /\ ws[1] = m
    BY <1>6, Tuples
  <2>2. a = Data(1, m, e) /\ a.need = m /\ a.id = 1 /\ a.got = e
    BY <1>4, <2>1
  <2>3. CASE m > 0
    <3>1. t = <<recv_vector(2), Data(1, m, e)>> /\ us = <<>>
      BY <1>3, <1>6, <2>1, <2>2, <2>3
    <3> QED
      BY <1>2, <1>6, <2>3, <3>1 DEF Reads
  <2>4. CASE m = 0
    <3>1. t = <<recv_vector(2)>> /\ us = <<Got(1, e)>>
      BY <1>3, <1>6, <2>1, <2>2, <2>4, Tuples
    <3> QED
      BY <1>2, <1>6, <2>4, <3>1 DEF Reads
  <2> QED
    BY <2>3, <2>4
<1>7. CASE g = 1 /\ Asked(p) /\ K = 2 /\ m = 0 /\ q = <<recv_vector(2)>> /\ vs = <<Got(1, e)>>
  <2>1. Len(q) = 1 /\ q = <<q[1]>> /\ Head(q) = recv_vector(2) /\ ws[1] = m
    BY <1>7, Tuples
  <2>2. a.need = m /\ a.id = 2 /\ a.got = e /\ Full(Got(2, e), 2, m)
    BY <1>4, <1>7, <2>1
  <2>3. Full(Got(1, e), 1, m)
    BY <1>2, <1>7, Fresh
  <2>4. PICK b, c : b = Got(1, e) /\ c = Got(2, e)
    OBVIOUS
  <2>5. t = <<>> /\ us = Append(<<b>>, c)
    BY <1>3, <1>7, <2>1, <2>2, <2>4
  <2>6. us = <<b, c>>
    BY <2>5, Tuples
  <2>7. Len(us) = 2 /\ us[1] = b /\ us[2] = c
    BY <2>6
  <2>8. t = <<>> /\ Len(us) = 2 /\ us = <<us[1], us[2]>> /\ Full(us[1], 1, m) /\ Full(us[2], 2, m)
    BY <2>2, <2>3, <2>4, <2>5, <2>6, <2>7
  <2> QED
    BY <1>2, <1>7, <2>8 DEF Reads
<1>8. CASE g = 1 /\ Asked(p) /\ K = 2 /\ m > 0 /\ q = <<recv_vector(2), Data(1, m, e)>> /\ vs = <<>>
  <2>1. /\ Len(q) = 2 /\ q = <<q[1], q[2]>> /\ q[2] = Data(1, m, e)
        /\ Head(q) = recv_vector(2) /\ ws[1] = m
    BY <1>8, Tuples
  <2>2. a.need = m /\ Part(a, 2, m)
    BY <1>4, <1>8, <2>1
  <2>3. PICK b : b = q[2] /\ Part(b, 1, m)
    BY <1>2, <1>8, <2>1, Fresh
  <2>4. t = <<b, a>> /\ us = <<>>
    BY <1>3, <1>8, <2>1, <2>2, <2>3
  <2>5. Len(t) = 2 /\ t[1] = b /\ t[2] = a
    BY <2>4
  <2>6. Len(t) = 2 /\ t = <<t[1], t[2]>> /\ Part(t[1], 1, m) /\ Part(t[2], 2, m) /\ us = <<>>
    BY <2>2, <2>3, <2>4, <2>5
  <2> QED
    BY <1>2, <1>8, <2>6 DEF Reads
<1>9. ASSUME NEW i, Head(q) = q[1], Part(q[1], i, m)
      PROVE  /\ a.need > 0 => Part(a, i, m)
             /\ ~(a.need > 0) => Full(Got(a.id, a.got), i, m)
  BY <1>2, <1>9, DataRead
<1>10. CASE g = 1 /\ Asked(p) /\ K = 1 /\ Len(q) = 1 /\ q = <<q[1]>> /\ Part(q[1], 1, m) /\ vs = <<>>
  <2>1. Head(q) = q[1]
    BY <1>10
  <2>2. CASE a.need > 0
    <3>1. t = <<a>> /\ us = <<>> /\ Part(a, 1, m) /\ Len(t) = 1 /\ t[1] = a
      BY <1>3, <1>9, <1>10, <2>1, <2>2
    <3> QED
      BY <1>2, <1>10, <3>1 DEF Reads
  <2>3. CASE ~(a.need > 0)
    <3>1. PICK f : f = Got(a.id, a.got) /\ Full(f, 1, m)
      BY <1>9, <1>10, <2>1, <2>3
    <3>2. t = <<>> /\ us = Append(<<>>, f)
      BY <1>3, <1>10, <2>3, <3>1
    <3>3. us = <<f>>
      BY <3>2, Tuples
    <3>4. Len(us) = 1 /\ us[1] = f
      BY <3>3
    <3> QED
      BY <1>2, <1>10, <3>1, <3>2, <3>3, <3>4 DEF Reads
  <2> QED
    BY <2>2, <2>3
<1>11. ASSUME NEW i \in {1, 2}, NEW j \in {1, 2}, i # j, g = 2, Asked(p), K = 2,
              Len(q) = 2, q = <<q[1], q[2]>>, Part(q[1], i, m), Part(q[2], j, m), vs = <<>>
       PROVE  Reads(p, g, t, us, m)
  <2>1. Head(q) = q[1]
    BY <1>11
  <2>2. PICK b : b = q[2] /\ Part(b, j, m)
    BY <1>11
  <2>3. CASE a.need > 0
    <3>1. t = <<b, a>> /\ us = <<>> /\ Part(a, i, m)
      BY <1>3, <1>9, <1>11, <2>1, <2>2, <2>3
    <3>2. Len(t) = 2 /\ t[1] = b /\ t[2] = a
      BY <3>1
    <3>3. Len(t) = 2 /\ t = <<t[1], t[2]>> /\ Part(t[1], j, m) /\ Part(t[2], i, m) /\ us = <<>>
      BY <2>2, <3>1, <3>2
    <3> QED
      BY <1>11, <3>3 DEF Reads
  <2>4. CASE ~(a.need > 0)
    <3>1. PICK f : f = Got(a.id, a.got) /\ Full(f, i, m)
      BY <1>9, <1>11, <2>1, <2>4
    <3>2. t = <<b>> /\ us = Append(<<>>, f)
      BY <1>3, <1>11, <2>2, <2>4, <3>1
    <3>3. us = <<f>>
      BY <3>2, Tuples
    <3>4. Len(us) = 1 /\ us[1] = f /\ Len(t) = 1 /\ t[1] = b
      BY <3>2, <3>3
    <3>5. /\ Len(t) = 1 /\ t = <<t[1]>> /\ Part(t[1], j, m)
          /\ Len(us) = 1 /\ us = <<us[1]>> /\ Full(us[1], i, m)
      BY <2>2, <3>1, <3>2, <3>3, <3>4
    <3> QED
      BY <1>11, <3>5 DEF Reads
  <2> QED
    BY <2>3, <2>4
<1>12. ASSUME NEW i \in {1, 2}, NEW j \in {1, 2}, i # j, g = 2, Asked(p), K = 2,
              Len(q) = 1, q = <<q[1]>>, Part(q[1], i, m),
              Len(vs) = 1, vs = <<vs[1]>>, Full(vs[1], j, m)
       PROVE  Reads(p, g, t, us, m)
  <2>1. Head(q) = q[1]
    BY <1>12
  <2>2. PICK b : b = vs[1] /\ Full(b, j, m)
    BY <1>12
  <2>3. CASE a.need > 0
    <3>1. t = <<a>> /\ us = vs /\ Part(a, i, m)
      BY <1>3, <1>9, <1>12, <2>1, <2>3
    <3>2. Len(t) = 1 /\ t = <<t[1]>> /\ Part(t[1], i, m)
      BY <3>1
    <3> QED
      BY <1>12, <3>1, <3>2 DEF Reads
  <2>4. CASE ~(a.need > 0)
    <3>1. PICK f : f = Got(a.id, a.got) /\ Full(f, i, m)
      BY <1>9, <1>12, <2>1, <2>4
    <3>2. t = <<>> /\ us = Append(<<b>>, f)
      BY <1>3, <1>12, <2>2, <2>4, <3>1
    <3>3. us = <<b, f>>
      BY <3>2, Tuples
    <3>4. Len(us) = 2 /\ us[1] = b /\ us[2] = f
      BY <3>3
    <3>5. Len(us) = 2 /\ us = <<us[1], us[2]>> /\ Full(us[1], j, m) /\ Full(us[2], i, m)
      BY <2>2, <3>1, <3>3, <3>4
    <3> QED
      BY <1>12, <3>2, <3>5 DEF Reads
  <2> QED
    BY <2>3, <2>4
<1>13. CASE /\ g = 2 /\ Asked(p) /\ K = 2
            /\ \E i, j \in {1, 2} :
                 /\ i # j
                 /\ \/ /\ Len(q) = 2 /\ q = <<q[1], q[2]>> /\ Part(q[1], i, m) /\ Part(q[2], j, m)
                       /\ vs = <<>>
                    \/ /\ Len(q) = 1 /\ q = <<q[1]>> /\ Part(q[1], i, m)
                       /\ Len(vs) = 1 /\ vs = <<vs[1]>> /\ Full(vs[1], j, m)
  <2>1. Reads(p, g, t, us, m)
    BY <1>11, <1>12, <1>13
  <2> QED
    BY <1>2, <1>13, <2>1
<1> QED
  BY <1>2, <1>5, <1>6, <1>7, <1>8, <1>10, <1>13 DEF Reads

-----------------------------------------------------------------------------
(* The lengths are right however the transfers are cut up.                 *)

\* Before anything was started.
LEMMA LooseInit == Init => LooseInv
<1> SUFFICES ASSUME Init PROVE LooseInv
  OBVIOUS
<1>1. "P2" \in Roles /\ call \in {"dot", "reconstruct", "locoram"}
  BY VectorAssumption DEF Init, Roles
<1>2. Given
  BY <1>1 DEF Init, Given
<1>3. \A p \in Parties : Len(Plan(p)) \in Nat
  BY <1>1 DEF Plan
<1>4. Control
  BY <1>3, Peers DEF Init, Control
<1>5. Types
  <2>1. \A p \in Parties : stream[p] = <<>>
    BY DEF Init
  <2>2. Cap \in Nat
    BY VectorAssumption
  <2>3. stream \in [Parties -> Seq(Nat)]
    BY Empty DEF Init
  <2> QED
    BY <2>1, <2>2, <2>3, Empty DEF Init, Types
<1>6. ASSUME NEW p \in Parties PROVE Link(p)
  <2>1. \A r \in Parties : ~Sent(r) /\ ~Asked(r)
    BY DEF Init, Sent, Asked
  <2>2. /\ wq[p] = <<>> /\ rq[Peer(p)] = <<>> /\ vecs[Peer(p)] = <<>> /\ stream[Peer(p)] = <<>>
    BY Peers DEF Init
  <2>3. Writes(p, 0, wq[p]) /\ Reads(Peer(p), 0, rq[Peer(p)], vecs[Peer(p)], len[p])
    BY <2>1, <2>2, Peers DEF Writes, Reads
  <2>4. K \in {1, 2} /\ 0 \in 0 .. K
    BY DEF K
  <2>5. Wire(0, 0, stream[Peer(p)], len[p])
    BY <2>2, <2>4, Empty DEF Wire
  <2> QED
    BY <2>3, <2>4, <2>5 DEF Link
<1> QED
  BY <1>2, <1>4, <1>5, <1>6 DEF LooseInv

\* What a step leaves alone: p's writes and its peer's reads.
LEMMA LinkStays ==
  ASSUME NEW p \in Parties, Link(p), call' = call, len' = len, aes' = aes,
         Sent(p) => dealt' = dealt,
         Sent(p)' <=> Sent(p), Asked(Peer(p))' <=> Asked(Peer(p)),
         wq'[p] = wq[p], rq'[Peer(p)] = rq[Peer(p)], vecs'[Peer(p)] = vecs[Peer(p)],
         stream'[Peer(p)] = stream[Peer(p)]
  PROVE  Link(p)'
<1>1. K' = K
  BY DEF K
<1>2. PICK h \in 0 .. K, g \in 0 .. K :
        /\ Writes(p, h, wq[p]) /\ Reads(Peer(p), g, rq[Peer(p)], vecs[Peer(p)], len[p])
        /\ Wire(h, g, stream[Peer(p)], len[p])
  BY DEF Link
<1>3. PICK q, rs, vs, s, n : /\ q = wq[p] /\ rs = rq[Peer(p)] /\ vs = vecs[Peer(p)]
                             /\ s = stream[Peer(p)] /\ n = len[p]
  OBVIOUS
<1>4. Writes(p, h, q)'
  <2>1. CASE Sent(p)
    <3>1. \A i : V(p, i)' = V(p, i)
      BY <2>1 DEF V, Sends, X, Y, Blind
    <3> QED
      BY <1>1, <1>2, <1>3, <2>1, <3>1 DEF Writes
  <2>2. CASE ~Sent(p)
    BY <1>2, <1>3, <2>2 DEF Writes
  <2> QED
    BY <2>1, <2>2
<1>5. Reads(Peer(p), g, rs, vs, n)'
  BY <1>1, <1>2, <1>3 DEF Reads
<1>6. Wire(h, g, s, n)'
  BY <1>1, <1>2, <1>3 DEF Wire
<1>7. Writes(p, h, wq[p])' /\ Reads(Peer(p), g, rq[Peer(p)], vecs[Peer(p)], len[p])'
      /\ Wire(h, g, stream[Peer(p)], len[p])'
  BY <1>3, <1>4, <1>5, <1>6 DEF Writes, Reads, Wire
<1> QED
  BY <1>1, <1>2, <1>7 DEF Link

\* The same, for each end of a connection.
LEMMA WritesStays ==
  ASSUME NEW p \in Parties, NEW h, NEW q, Writes(p, h, q), call' = call, len' = len, aes' = aes,
         dealt' = dealt, Sent(p)' <=> Sent(p)
  PROVE  Writes(p, h, q)'
<1>1. K' = K /\ \A i : V(p, i)' = V(p, i)
  BY DEF K, V, Sends, X, Y, Blind
<1> QED
  BY <1>1 DEF Writes

\* Reads depends on the call and on whether the reads have started, only.
LEMMA ReadsStays ==
  ASSUME NEW p \in Parties, NEW g, NEW q, NEW vs, NEW m, Reads(p, g, q, vs, m), call' = call,
         Asked(p)' <=> Asked(p)
  PROVE  Reads(p, g, q, vs, m)'
<1>1. K' = K
  BY DEF K
<1> QED
  BY <1>1 DEF Reads

\* P2 deals before the parties start.
LEMMA LooseDeal == LooseInv /\ Deal => LooseInv'
<1> SUFFICES ASSUME LooseInv, Deal PROVE LooseInv'
  OBVIOUS
<1>1. /\ Given /\ Control /\ Types /\ \A p \in Parties : Link(p)
      /\ call = "dot" /\ st["P2"] = "run" /\ st' = [st EXCEPT !["P2"] = "done"]
      /\ UNCHANGED <<call, len, aes, phase, stream, wq, rq, vecs, out, whole>>
  BY DEF LooseInv, Deal
<1>2. PICK s \in Draws : dealt' = Dealing(s)
  BY DEF Deal, Dealing
<1>3. Dealing(s)' = Dealing(s)
  BY <1>1 DEF Dealing
<1>4. /\ st' \in [Roles -> {"run", "done", "threw"}] /\ st'["P2"] = "done"
      /\ \A p \in Parties : st'[p] = st[p]
  BY <1>1, Peers DEF Given, Roles
<1>5. Given'
  BY <1>1, <1>2, <1>3, <1>4 DEF Given
<1>6. Control'
  BY <1>1, <1>4 DEF Control, Plan
<1>7. Types'
  BY <1>1 DEF Types
<1>8. ASSUME NEW p \in Parties PROVE Link(p)'
  <2>1. phase[p] = 0
    BY <1>1 DEF Control
  <2>2. ~Sent(p) /\ (Sent(p)' <=> Sent(p)) /\ (Asked(Peer(p))' <=> Asked(Peer(p)))
    BY <1>1, <2>1 DEF Sent, Asked
  <2> QED
    BY <1>1, <2>2, LinkStays
<1> QED
  BY <1>5, <1>6, <1>7, <1>8 DEF LooseInv

\* Which phase of the plan writes, and which reads.
LEMMA PlanStep ==
  ASSUME Given, Control, NEW p \in Parties, phase[p] < Len(Plan(p)), call' = call,
         phase' = [phase EXCEPT ![p] = @ + 1], NEW now, now = Plan(p)[phase[p] + 1]
  PROVE  /\ "write" \in now => ~Sent(p) /\ Sent(p)'
         /\ "write" \notin now => (Sent(p)' <=> Sent(p))
         /\ "read" \in now => ~Asked(p) /\ Asked(p)'
         /\ "read" \notin now => (Asked(p)' <=> Asked(p))
         /\ Sent(Peer(p))' <=> Sent(Peer(p))
         /\ Asked(Peer(p))' <=> Asked(Peer(p))
         /\ phase'[p] \in Nat /\ phase'[p] > 0 /\ phase'[p] <= Len(Plan(p))
         /\ phase'[Peer(p)] = phase[Peer(p)]
<1>1. PICK k \in Nat : k = phase[p] /\ phase'[p] = k + 1
  BY DEF Control
<1>2. phase'[Peer(p)] = phase[Peer(p)]
  BY Peers DEF Control
<1>3. call \in {"dot", "reconstruct", "locoram"} /\ p \in {"P0", "P1"}
  BY Params DEF Parties
<1>4. CASE call = "dot"
  <2>1. Plan(p) = <<{"write", "read"}>>
    BY <1>4 DEF Plan
  <2>2. k = 0 /\ now = {"write", "read"}
    BY <1>1, <2>1
  <2> QED
    BY <1>1, <1>2, <1>4, <2>1, <2>2 DEF Sent, Asked
<1>5. CASE call = "locoram" /\ p = "P1"
  <2>1. Plan(p) = <<{"read"}, {"write"}>>
    BY <1>5 DEF Plan
  <2>2. (k = 0 /\ now = {"read"}) \/ (k = 1 /\ now = {"write"})
    BY <1>1, <2>1
  <2>3. Len(Plan(p)) = 2
    BY <2>1
  <2> QED
    BY <1>1, <1>2, <1>5, <2>2, <2>3 DEF Sent, Asked
<1>6. CASE call # "dot" /\ ~(call = "locoram" /\ p = "P1")
  <2>1. Plan(p) = <<{"write"}, {"read"}>>
    BY <1>6 DEF Plan
  <2>2. (k = 0 /\ now = {"write"}) \/ (k = 1 /\ now = {"read"})
    BY <1>1, <2>1
  <2>3. Len(Plan(p)) = 2
    BY <2>1
  <2> QED
    BY <1>1, <1>2, <1>3, <1>6, <2>2, <2>3 DEF Sent, Asked
<1> QED
  BY <1>4, <1>5, <1>6

\* The queues with which a phase starts.
LEMMA Started ==
  ASSUME Given, NEW p \in Parties, st["P2"] # "run"
  PROVE  /\ K = 1 => /\ [i \in DOMAIN Sends(p) |-> send(Sends(p)[i])] = <<send(V(p, 1))>>
                     /\ [i \in DOMAIN Sends(p) |-> recv_vector(i)] = <<recv_vector(1)>>
         /\ K = 2 => /\ [i \in DOMAIN Sends(p) |-> send(Sends(p)[i])]
                          = <<send(V(p, 1)), send(V(p, 2))>>
                     /\ [i \in DOMAIN Sends(p) |-> recv_vector(i)]
                          = <<recv_vector(1), recv_vector(2)>>
<1>1. PICK v : v = Sends(p)
  OBVIOUS
<1>2. V(p, 1) = v[1] /\ V(p, 2) = v[2]
  BY <1>1 DEF V
<1>3. (K = 1 => v = <<v[1]>>) /\ (K = 2 => v = <<v[1], v[2]>>)
  BY <1>1, <1>2, SendsVec
<1>4. (K = 1 => DOMAIN v = 1 .. 1) /\ (K = 2 => DOMAIN v = 1 .. 2)
  BY <1>3
<1>5. CASE K = 1
  <2>1. [i \in DOMAIN v |-> send(v[i])] = <<send(v[1])>>
    BY <1>4, <1>5
  <2>2. [i \in DOMAIN v |-> recv_vector(i)] = <<recv_vector(1)>>
    BY <1>4, <1>5
  <2> QED
    BY <1>1, <1>2, <1>5, <2>1, <2>2
<1>6. CASE K = 2
  <2>1. [i \in DOMAIN v |-> send(v[i])] = <<send(v[1]), send(v[2])>>
    BY <1>4, <1>6
  <2>2. [i \in DOMAIN v |-> recv_vector(i)] = <<recv_vector(1), recv_vector(2)>>
    BY <1>4, <1>6
  <2> QED
    BY <1>1, <1>2, <1>6, <2>1, <2>2
<1> QED
  BY <1>5, <1>6

\* A party starts the transfers of its next phase.
LEMMA LooseProceed ==
  ASSUME LooseInv, NEW p \in Parties, Proceed(p)
  PROVE  LooseInv'
<1>1. /\ Given /\ Control /\ Types /\ \A q \in Parties : Link(q)
      /\ st[p] = "run" /\ wq[p] = <<>> /\ rq[p] = <<>> /\ phase[p] < Len(Plan(p))
      /\ call = "dot" => dealt[p] # None
      /\ phase' = [phase EXCEPT ![p] = @ + 1]
      /\ UNCHANGED <<call, len, aes, st, dealt, stream, vecs, out, whole>>
  BY DEF LooseInv, Proceed, Idle
<1>2. PICK now, us, qs, ws, rs :
        /\ now = Plan(p)[phase[p] + 1]
        /\ us = [i \in DOMAIN Sends(p) |-> send(Sends(p)[i])]
        /\ qs = [i \in DOMAIN Sends(p) |-> recv_vector(i)]
        /\ ws = IF "write" \in now THEN us ELSE <<>>
        /\ rs = IF "read" \in now THEN qs ELSE <<>>
  OBVIOUS
<1>3. wq' = [wq EXCEPT ![p] = ws] /\ rq' = [rq EXCEPT ![p] = rs]
  BY <1>2, Zenon DEF Proceed
<1>4. PICK o \in Parties : o = Peer(p) /\ p = Peer(o) /\ o # p
  BY Peers
<1>5. wq'[p] = ws /\ rq'[p] = rs /\ wq'[o] = wq[o] /\ rq'[o] = rq[o]
  BY <1>1, <1>3, <1>4 DEF Types
<1>6. st["P2"] # "run" /\ st' = st
  BY <1>1 DEF Given
<1>7. /\ "write" \in now => ~Sent(p) /\ Sent(p)'
      /\ "write" \notin now => (Sent(p)' <=> Sent(p))
      /\ "read" \in now => ~Asked(p) /\ Asked(p)'
      /\ "read" \notin now => (Asked(p)' <=> Asked(p))
      /\ Sent(o)' <=> Sent(o)
      /\ Asked(o)' <=> Asked(o)
      /\ phase'[p] \in Nat /\ phase'[p] > 0 /\ phase'[p] <= Len(Plan(p)) /\ phase'[o] = phase[o]
  BY <1>1, <1>2, <1>4, PlanStep, ZenonT(60)
<1>8. /\ K = 1 => /\ "write" \in now => ws = <<send(V(p, 1))>>
                  /\ "read" \in now => rs = <<recv_vector(1)>>
      /\ K = 2 => /\ "write" \in now => ws = <<send(V(p, 1)), send(V(p, 2))>>
                  /\ "read" \in now => rs = <<recv_vector(1), recv_vector(2)>>
  <2>1. /\ K = 1 => us = <<send(V(p, 1))>> /\ qs = <<recv_vector(1)>>
        /\ K = 2 => us = <<send(V(p, 1)), send(V(p, 2))>> /\ qs = <<recv_vector(1), recv_vector(2)>>
    BY <1>1, <1>2, <1>6, Started, Zenon
  <2> QED
    BY <1>2, <2>1, Zenon
<1>9. K' = K /\ K \in {1, 2} /\ \A i : V(p, i)' = V(p, i)
  BY <1>1 DEF K, V, Sends, X, Y, Blind
<1>10. Link(p)'
  <2>1. PICK h \in 0 .. K, g \in 0 .. K :
          /\ Writes(p, h, <<>>) /\ Reads(o, g, rq[o], vecs[o], len[p])
          /\ Wire(h, g, stream[o], len[p])
    BY <1>1, <1>4 DEF Link
  <2>2. Writes(p, h, ws)'
    <3>1. CASE "write" \in now
      <4>1. h = 0
        BY <1>7, <2>1, <3>1 DEF Writes
      <4> QED
        BY <1>7, <1>8, <1>9, <3>1, <4>1 DEF Writes
    <3>2. CASE "write" \notin now
      <4>1. ws = <<>>
        BY <1>2, <3>2
      <4>2. Writes(p, h, ws)
        BY <2>1, <4>1
      <4> QED
        BY <1>1, <1>7, <3>2, <4>2, WritesStays
    <3> QED
      BY <3>1, <3>2
  <2>3. PICK q, vs, n, s : q = rq[o] /\ vs = vecs[o] /\ n = len[p] /\ s = stream[o]
    OBVIOUS
  <2>4. Reads(o, g, q, vs, n)' /\ Wire(h, g, s, n)'
    BY <1>1, <1>7, <1>9, <2>1, <2>3, ReadsStays DEF Wire
  <2>5. wq'[p] = ws /\ rq'[o] = q /\ vecs'[o] = vs /\ len'[p] = n /\ stream'[o] = s
    BY <1>1, <1>5, <2>3
  <2> QED
    BY <1>4, <1>9, <2>2, <2>4, <2>5 DEF Link, Writes, Reads, Wire
<1>11. Link(o)'
  <2>1. PICK h \in 0 .. K, g \in 0 .. K :
          /\ Writes(o, h, wq[o]) /\ Reads(p, g, <<>>, vecs[p], len[o])
          /\ Wire(h, g, stream[p], len[o])
    BY <1>1, <1>4 DEF Link
  <2>2. PICK q, vs, n, s : q = wq[o] /\ vs = vecs[p] /\ n = len[o] /\ s = stream[p]
    OBVIOUS
  <2>3. Reads(p, g, rs, vs, n)'
    <3>1. CASE "read" \in now
      <4>1. g = 0 /\ vs = <<>>
        BY <1>7, <2>1, <2>2, <3>1 DEF Reads
      <4> QED
        BY <1>7, <1>8, <1>9, <3>1, <4>1 DEF Reads
    <3>2. CASE "read" \notin now
      <4>1. rs = <<>>
        BY <1>2, <3>2
      <4>2. Reads(p, g, rs, vs, n)
        BY <2>1, <2>2, <4>1
      <4> QED
        BY <1>1, <1>7, <3>2, <4>2, ReadsStays
    <3> QED
      BY <3>1, <3>2
  <2>4. Writes(o, h, q)' /\ Wire(h, g, s, n)'
    BY <1>1, <1>7, <1>9, <2>1, <2>2, WritesStays DEF Wire
  <2>5. wq'[o] = q /\ rq'[p] = rs /\ vecs'[p] = vs /\ len'[o] = n /\ stream'[p] = s
    BY <1>1, <1>5, <2>2
  <2> QED
    BY <1>4, <1>9, <2>3, <2>4, <2>5, SMTT(60) DEF Link, Writes, Reads, Wire
<1>12. Given'
  <2>1. \A s : Dealing(s)' = Dealing(s)
    BY <1>1 DEF Dealing
  <2> QED
    BY <1>1, <2>1 DEF Given
<1>13. Control'
  <2>1. \A q \in Parties : Plan(q)' = Plan(q)
    BY <1>1 DEF Plan
  <2>2. phase' \in [Parties -> Nat]
    BY <1>1, <1>7 DEF Control
  <2>3. \A q \in Parties : q = p \/ q = o
    BY <1>4, Peers
  <2> QED
    BY <1>1, <1>5, <1>6, <1>7, <2>1, <2>2, <2>3 DEF Control
<1>14. Types'
  BY <1>1, <1>3 DEF Types
<1>15. \A q \in Parties : q = p \/ q = o
  BY <1>4, Peers
<1> QED
  BY <1>10, <1>11, <1>12, <1>13, <1>14, <1>15 DEF LooseInv

\* More words in flight, and fewer.
LEMMA WireGrows ==
  ASSUME NEW h \in 0 .. K, NEW g \in 0 .. K, NEW s \in Seq(Nat), NEW t \in Seq(Nat), NEW n \in Nat,
         Wire(h, g, s, n)
  PROVE  /\ h < K /\ Len(t) = 1 /\ t[1] = n => Wire(h + 1, g, s \o t, n)
         /\ h = K => Wire(h, g, s \o t, n)
<1>1. K \in {1, 2} /\ h \in Nat /\ g \in Nat /\ g <= h /\ Len(s) \in Nat /\ Len(t) \in Nat
  BY DEF K, Wire
<1>2. PICK u : u = s \o t
  OBVIOUS
<1>3. /\ Len(u) = Len(s) + Len(t)
      /\ \A i \in 1 .. Len(s) : u[i] = s[i]
      /\ \A i \in 1 .. Len(t) : u[Len(s) + i] = t[i]
  BY ONLY <1>2, s \in Seq(Nat), t \in Seq(Nat), JoinNats
<1>4. ASSUME h < K, Len(t) = 1, t[1] = n PROVE Wire(h + 1, g, u, n)
  <2>1. g < K /\ Len(s) = h - g /\ Len(u) = h + 1 - g
    BY <1>1, <1>3, <1>4 DEF Wire
  <2>2. \A j \in 1 .. (h - g) : u[j] = n
    BY <1>1, <1>3, <2>1 DEF Wire
  <2>3. u[h - g + 1] = n
    BY <1>3, <1>4, <2>1
  <2>4. ASSUME NEW j \in 1 .. (h + 1 - g) PROVE u[j] = n
    <3>1. j \in 1 .. (h - g) \/ j = h - g + 1
      BY <1>1
    <3> QED
      BY <2>2, <2>3, <3>1
  <2> QED
    BY <1>1, <1>4, <2>1, <2>4 DEF Wire
<1>5. ASSUME h = K PROVE Wire(h, g, u, n)
  <2>1. g < K => Len(s) >= h - g /\ \A j \in 1 .. (h - g) : s[j] = n
    BY DEF Wire
  <2>2. Len(u) >= Len(s)
    BY <1>1, <1>3
  <2>3. ASSUME g < K, NEW j \in 1 .. (h - g) PROVE u[j] = n
    <3>1. j \in 1 .. Len(s)
      BY <1>1, <2>1, <2>3
    <3> QED
      BY <1>3, <2>1, <2>3, <3>1
  <2>4. g < K => Len(u) >= h - g
    BY <1>1, <1>3, <2>1
  <2> QED
    BY <1>1, <1>5, <2>3, <2>4 DEF Wire
<1> QED
  BY <1>2, <1>4, <1>5

\* A read takes a length off the wire, or data once the lengths are read.
LEMMA WireShrinks ==
  ASSUME NEW h \in 0 .. K, NEW g \in 0 .. K, NEW s \in Seq(Nat), NEW n \in Nat,
         NEW k \in 1 .. Len(s), Wire(h, g, s, n), NEW ws, NEW rest, CutIn(s, k, ws, rest)
  PROVE  /\ rest \in Seq(Nat) /\ Len(rest) = Len(s) - k
         /\ ws \in Seq(Nat) /\ Len(ws) = k /\ ws # <<>>
         /\ g < K /\ k = 1 => g + 1 \in 0 .. K /\ ws[1] = n /\ Wire(h, g + 1, rest, n)
         /\ g = K => Wire(h, g, rest, n)
<1>1. K \in {1, 2} /\ h \in Nat /\ g \in Nat /\ g <= h /\ Len(s) \in Nat /\ k \in Nat \ {0} /\ k <= Len(s)
  BY DEF K, Wire
<1>2. PICK l \in Nat : l = Len(s)
  BY <1>1
<1>3. rest \in Seq(Nat) /\ ws \in Seq(Nat)
  BY DEF CutIn
<1>4. Len(rest) = l - k /\ \A i \in 1 .. (l - k) : rest[i] = s[k + i]
  BY <1>2 DEF CutIn
<1>5. Len(ws) = k /\ \A i \in 1 .. k : ws[i] = s[i]
  BY DEF CutIn
<1>6. Len(ws) = k /\ ws[1] = s[1] /\ ws # <<>>
  <2>1. 1 \in 1 .. k /\ k # 0
    BY <1>1
  <2> QED
    BY <1>3, <1>5, <2>1, Empty
<1>7. ASSUME g < K, k = 1 PROVE g + 1 \in 0 .. K /\ ws[1] = n /\ Wire(h, g + 1, rest, n)
  <2>1. /\ l >= h - g /\ (\A j \in 1 .. (h - g) : s[j] = n) /\ (h < K => l = h - g)
    BY <1>2, <1>7 DEF Wire
  <2>2. g < h
    BY <1>1, <1>2, <1>7, <2>1
  <2>3. ws[1] = n
    BY <1>1, <1>6, <2>1, <2>2
  <2>4. \A j \in 1 .. (h - (g + 1)) : rest[j] = n
    BY <1>1, <1>2, <1>4, <1>7, <2>1
  <2>5. Len(rest) >= h - (g + 1) /\ (h < K => Len(rest) = h - (g + 1)) /\ g + 1 <= h
    BY <1>1, <1>2, <1>4, <1>7, <2>1, <2>2
  <2> QED
    BY <1>1, <1>7, <2>3, <2>4, <2>5 DEF Wire
<1>8. ASSUME g = K PROVE Wire(h, g, rest, n)
  <2>1. h = K
    BY <1>1, <1>8
  <2> QED
    BY <1>1, <1>8, <2>1 DEF Wire
<1> QED
  BY <1>2, <1>3, <1>4, <1>5, <1>6, <1>7, <1>8

\* What a step leaves of the call as it was dealt.
LEMMA GivenStays ==
  ASSUME Given, UNCHANGED <<call, len, aes, dealt>>, NEW r \in Parties,
         st' = st \/ (st[r] = "run" /\ \E e \in {"done", "threw"} : st' = [st EXCEPT ![r] = e])
  PROVE  Given' /\ st'["P2"] = st["P2"] /\ \A q \in Parties : Plan(q)' = Plan(q)
<1>1. \A s : Dealing(s)' = Dealing(s)
  BY DEF Dealing
<1>2. st' \in [Roles -> {"run", "done", "threw"}] /\ st'["P2"] = st["P2"]
  BY Peers DEF Given
<1>3. \A q \in Parties : Plan(q)' = Plan(q)
  BY DEF Plan
<1> QED
  BY <1>1, <1>2, <1>3 DEF Given

\* A step of p that neither deals nor starts a phase, seen by its peer's link.
LEMMA Untouched ==
  ASSUME NEW p \in Parties, Link(p), UNCHANGED <<call, len, aes, phase, dealt>>,
         wq'[p] = wq[p], rq'[Peer(p)] = rq[Peer(p)], vecs'[Peer(p)] = vecs[Peer(p)],
         stream'[Peer(p)] = stream[Peer(p)]
  PROVE  Link(p)'
<1>1. (Sent(p)' <=> Sent(p)) /\ (Asked(Peer(p))' <=> Asked(Peer(p)))
  BY DEF Sent, Asked
<1> QED
  BY <1>1, LinkStays

\* What a transfer may move at most.
LEMMA FewestOf ==
  ASSUME NEW a \in Nat, NEW b \in Nat, NEW c \in Nat, NEW k \in 1 .. Fewest(Fewest(a, b), c)
  PROVE  k \in 1 .. a /\ k <= b /\ k <= c
BY DEF Fewest

\* What Write does.
LEMMA WriteStep ==
  ASSUME LooseInv, NEW p \in Parties, Write(p)
  PROVE  \E k \in Nat, op \in Seq(Nat) :
           /\ wq[p] # <<>> /\ op = Head(Head(wq[p])) /\ Block(op) /\ k \in 1 .. Len(op)
           /\ k + Len(stream[Peer(p)]) <= Cap /\ st["P2"] # "run"
           /\ stream' = [stream EXCEPT ![Peer(p)] = @ \o SubSeq(op, 1, k)]
           /\ wq' = [wq EXCEPT ![p] = AfterWrite(@, k)]
           /\ whole' = (whole /\ k = Len(op))
           /\ UNCHANGED <<call, len, aes, st, phase, dealt, rq, vecs, out>>
<1>1. /\ Given /\ Control /\ Types /\ Link(p) /\ wq[p] # <<>>
      /\ UNCHANGED <<call, len, aes, st, phase, dealt, rq, vecs, out>>
  BY DEF LooseInv, Write
<1>2. PICK op : op = Head(Head(wq[p]))
  OBVIOUS
<1>3. PICK k \in 1 .. Fewest(Fewest(Len(op), Chunk), Cap - Len(stream[Peer(p)])) :
        /\ stream' = [stream EXCEPT ![Peer(p)] = @ \o SubSeq(op, 1, k)]
        /\ wq' = [wq EXCEPT ![p] = AfterWrite(@, k)]
        /\ whole' = (whole /\ k = Len(op))
  BY <1>2, Zenon DEF Write, AfterWrite
<1>4. PICK h \in 0 .. K : Writes(p, h, wq[p])
  BY <1>1 DEF Link
<1>5. Sent(p)
  BY <1>1, <1>4 DEF Writes
<1>6. phase[p] > 0 /\ st["P2"] # "run"
  BY <1>1, <1>5 DEF Sent, Control
<1>7. Block(op) /\ op \in Seq(Nat) /\ Len(op) \in Nat
  <2>1. Block(op)
    BY <1>1, <1>2, <1>4, <1>6, WriteNext
  <2> QED
    BY <2>1 DEF Block
<1>8. PICK f \in Nat : f = Cap - Len(stream[Peer(p)])
  <2>1. stream[Peer(p)] \in Seq(Nat) /\ Len(stream[Peer(p)]) <= Cap
    BY <1>1, Peers DEF Types
  <2>2. Len(stream[Peer(p)]) \in Nat
    BY <2>1
  <2>3. Cap \in Nat
    BY VectorAssumption
  <2>4. PICK l \in Nat, c \in Nat : l = Len(stream[Peer(p)]) /\ c = Cap /\ l <= c
    BY <2>1, <2>2, <2>3, Zenon
  <2>5. c - l \in Nat
    BY <2>4
  <2> QED
    BY <2>4, <2>5, Zenon
<1>9. Chunk \in Nat /\ Cap \in Nat
  BY VectorAssumption
<1>10. k \in 1 .. Len(op) /\ k <= f /\ k \in Nat
  <2>1. k \in 1 .. Fewest(Fewest(Len(op), Chunk), f)
    BY <1>3, <1>8, Zenon
  <2>2. k \in 1 .. Len(op) /\ k <= f
    BY <1>7, <1>8, <1>9, <2>1, FewestOf, Zenon
  <2> QED
    BY <1>7, <2>2
<1>11. Len(stream[Peer(p)]) \in Nat
  BY <1>1, Peers DEF Types
<1>12. k + Len(stream[Peer(p)]) <= Cap
  BY <1>8, <1>9, <1>10, <1>11
<1> QED
  BY <1>1, <1>2, <1>3, <1>6, <1>7, <1>10, <1>12

\* A transfer of a write keeps LooseInv.
LEMMA LooseWrite ==
  ASSUME LooseInv, NEW p \in Parties, Write(p)
  PROVE  LooseInv'
<1>1. Given /\ Control /\ Types /\ \A q \in Parties : Link(q)
  BY DEF LooseInv
<1>2. PICK k \in Nat, op \in Seq(Nat) :
           /\ wq[p] # <<>> /\ op = Head(Head(wq[p])) /\ Block(op) /\ k \in 1 .. Len(op)
           /\ k + Len(stream[Peer(p)]) <= Cap /\ st["P2"] # "run"
           /\ stream' = [stream EXCEPT ![Peer(p)] = @ \o SubSeq(op, 1, k)]
           /\ wq' = [wq EXCEPT ![p] = AfterWrite(@, k)]
           /\ whole' = (whole /\ k = Len(op))
           /\ UNCHANGED <<call, len, aes, st, phase, dealt, rq, vecs, out>>
  BY WriteStep
<1>3. PICK o \in Parties : o = Peer(p) /\ p = Peer(o) /\ o # p
  BY Peers
<1>4. PICK q, ws, s, t, n, r, vs :
           /\ q = wq[p] /\ ws = AfterWrite(q, k) /\ s = stream[o] /\ t = SubSeq(op, 1, k)
           /\ n = len[p] /\ r = rq[o] /\ vs = vecs[o]
  OBVIOUS
<1>5. /\ wq' = [wq EXCEPT ![p] = ws] /\ stream' = [stream EXCEPT ![o] = s \o t]
  BY <1>2, <1>3, <1>4
<1>6. op \in Seq(Nat) /\ s \in Seq(Nat) /\ n \in Nat
  BY <1>1, <1>2, <1>4, Params DEF Block, Types
<1>7. t \in Seq(Nat) /\ Len(t) = k /\ \A i \in 1 .. k : t[i] = op[i]
  <2>1. CutIn(op, k, t, SubSeq(op, k + 1, Len(op)))
    BY <1>2, <1>4, <1>6, Cut
  <2> QED
    BY <2>1 DEF CutIn
<1>8. wq'[p] = ws /\ wq'[o] = wq[o] /\ stream'[o] = s \o t /\ stream'[p] = stream[p]
  BY <1>1, <1>3, <1>5 DEF Types
<1>9. PICK h \in 0 .. K, g \in 0 .. K : Writes(p, h, q) /\ Reads(o, g, r, vs, n) /\ Wire(h, g, s, n)
  BY <1>1, <1>3, <1>4 DEF Link
<1>10. /\ Block(op) /\ (h < K => op = <<n>> /\ Writes(p, h + 1, AfterWrite(q, 1)))
       /\ h = K => \A j \in 1 .. Len(op) : Writes(p, h, AfterWrite(q, j))
  BY <1>1, <1>2, <1>4, <1>9, WriteNext
<1>11. PICK h2 \in 0 .. K : Writes(p, h2, ws) /\ Wire(h2, g, s \o t, n)
  <2>1. K \in {1, 2}
    BY DEF K
  <2>2. CASE h < K
    <3>1. op = <<n>>
      BY <1>10, <2>2
    <3>2. Len(op) = 1 /\ op[1] = n
      BY <3>1
    <3>3. k = 1 /\ t[1] = n /\ Len(t) = 1
      <4>1. k \in 1 .. Len(op)
        BY <1>2
      <4>2. k = 1
        BY <3>2, <4>1
      <4> QED
        BY <1>7, <3>2, <4>2
    <3>4. Writes(p, h + 1, ws) /\ h + 1 \in 0 .. K
      BY <1>4, <1>10, <2>1, <2>2, <3>3
    <3>5. Wire(h + 1, g, s \o t, n)
      BY <1>6, <1>7, <1>9, <2>2, <3>3, WireGrows
    <3> QED
      BY <3>4, <3>5
  <2>3. CASE h = K
    <3>1. Writes(p, h, ws)
      BY <1>2, <1>4, <1>10, <2>3
    <3>2. Wire(h, g, s \o t, n)
      BY <1>6, <1>7, <1>9, <2>3, WireGrows
    <3> QED
      BY <3>1, <3>2
  <2> QED
    BY <2>1, <2>2, <2>3
<1>12. Link(p)'
  <2>1. K' = K /\ (Sent(p)' <=> Sent(p)) /\ (Asked(o)' <=> Asked(o))
    BY <1>2 DEF K, Sent, Asked
  <2>2. Writes(p, h2, ws)'
    BY <1>2, <1>11, <2>1, WritesStays
  <2>3. Reads(o, g, r, vs, n)'
    BY <1>2, <1>9, <2>1, ReadsStays
  <2>4. PICK u : u = s \o t
    OBVIOUS
  <2>5. Wire(h2, g, u, n)'
    BY <1>11, <2>1, <2>4 DEF Wire
  <2>6. wq'[p] = ws /\ rq'[o] = r /\ vecs'[o] = vs /\ len'[p] = n /\ stream'[o] = u
    BY <1>2, <1>4, <1>8, <2>4
  <2>7. Writes(p, h2, wq[p])'
    BY <2>2, <2>6 DEF Writes
  <2>8. Reads(Peer(p), g, rq[Peer(p)], vecs[Peer(p)], len[p])'
    BY <1>3, <2>3, <2>6 DEF Reads
  <2>9. Wire(h2, g, stream[Peer(p)], len[p])'
    BY <1>3, <2>5, <2>6 DEF Wire
  <2>10. h2 \in 0 .. K' /\ g \in 0 .. K'
    BY <2>1
  <2> QED
    BY <2>7, <2>8, <2>9, <2>10, Zenon DEF Link
<1>13. Link(o)'
  BY <1>1, <1>2, <1>3, <1>8, Untouched
<1>14. Given' /\ st' = st /\ \A x \in Parties : Plan(x)' = Plan(x)
  BY <1>1, <1>2, GivenStays
<1>15. \A x \in Parties : x = p \/ x = o
  BY <1>3, Peers
<1>16. Control'
  <2>1. st[p] = "run"
    BY <1>1, <1>2 DEF Control
  <2>2. whole' \in BOOLEAN
    BY <1>2
  <2> QED
    BY <1>1, <1>2, <1>8, <1>14, <1>15, <2>1, <2>2 DEF Control
<1>17. Types'
  <2>1. PICK u : u = s \o t
    OBVIOUS
  <2>2. u \in Seq(Nat) /\ Len(u) = Len(s) + k
    BY <1>6, <1>7, <2>1, JoinNats
  <2>3. Len(u) <= Cap
    <3>1. k + Len(s) <= Cap
      BY <1>2, <1>3, <1>4, Zenon
    <3>2. Len(s) \in Nat /\ Cap \in Nat
      BY <1>6, VectorAssumption
    <3> QED
      BY <2>2, <3>1, <3>2
  <2>4. stream' = [stream EXCEPT ![o] = u]
    BY <1>5, <2>1
  <2>5. stream' \in [Parties -> Seq(Nat)] /\ \A x \in Parties : Len(stream'[x]) <= Cap
    BY <1>1, <2>2, <2>3, <2>4 DEF Types
  <2>6. DOMAIN wq' = Parties
    BY <1>1, <1>5 DEF Types
  <2> QED
    BY <1>1, <1>2, <2>5, <2>6 DEF Types
<1> QED
  BY <1>12, <1>13, <1>14, <1>15, <1>16, <1>17 DEF LooseInv

\* What Read does.
LEMMA ReadStep ==
  ASSUME LooseInv, NEW p \in Parties, Read(p)
  PROVE  \E k \in Nat, ws \in Seq(Nat) :
           /\ rq[p] # <<>> /\ k \in 1 .. Head(rq[p]).need /\ k \in 1 .. Len(stream[p])
           /\ ws = SubSeq(stream[p], 1, k)
           /\ stream' = [stream EXCEPT ![p] = SubSeq(@, k + 1, Len(@))]
           /\ rq' = [rq EXCEPT ![p] = AfterRead(@, ws)]
           /\ DOMAIN vecs' = Parties
           /\ \A x \in Parties : vecs'[x] = IF x = p THEN NowHas(rq[p], vecs[p], ws) ELSE vecs[x]
           /\ whole' = (whole /\ k = Head(rq[p]).need)
           /\ UNCHANGED <<call, len, aes, st, phase, dealt, wq, out>>
<1>1. /\ Given /\ Control /\ Types /\ rq[p] # <<>>
      /\ UNCHANGED <<call, len, aes, st, phase, dealt, wq, out>>
  BY DEF LooseInv, Read
<1>2. PICK k \in 1 .. Fewest(Fewest(Head(rq[p]).need, Chunk), Len(stream[p])) :
        /\ stream' = [stream EXCEPT ![p] = SubSeq(@, k + 1, Len(@))]
        /\ LET a == Advanced(Head(rq[p]), SubSeq(stream[p], 1, k))
           IN  /\ rq' = [rq EXCEPT ![p] = Requeue(@, a.need > 0, a)]
               /\ vecs' = IF a.need > 0 THEN vecs
                          ELSE [vecs EXCEPT ![p] = Append(@, [id |-> a.id, val |-> a.got])]
        /\ whole' = (whole /\ k = Head(rq[p]).need)
  BY Zenon DEF Read
<1>3. PICK ws : ws = SubSeq(stream[p], 1, k)
  OBVIOUS
<1>4. rq' = [rq EXCEPT ![p] = AfterRead(@, ws)]
  BY <1>2, <1>3, Zenon DEF AfterRead
<1>5. /\ DOMAIN vecs' = Parties
      /\ \A x \in Parties : vecs'[x] = IF x = p THEN NowHas(rq[p], vecs[p], ws) ELSE vecs[x]
  <2>1. PICK a, more : a = Advanced(Head(rq[p]), ws) /\ more = (a.need > 0)
    OBVIOUS
  <2>2. NowHas(rq[p], vecs[p], ws)
          = IF more THEN vecs[p] ELSE Append(vecs[p], [id |-> a.id, val |-> a.got])
    BY <2>1, Zenon DEF NowHas
  <2>3. vecs' = IF more THEN vecs
                ELSE [vecs EXCEPT ![p] = Append(@, [id |-> a.id, val |-> a.got])]
    BY <1>2, <1>3, <2>1, Zenon
  <2>4. CASE more
    <3>1. NowHas(rq[p], vecs[p], ws) = vecs[p] /\ vecs' = vecs
      BY <2>2, <2>3, <2>4
    <3> QED
      BY <1>1, <3>1 DEF Types
  <2>5. CASE ~more
    <3>1. PICK us : us = Append(vecs[p], [id |-> a.id, val |-> a.got])
      OBVIOUS
    <3>2. NowHas(rq[p], vecs[p], ws) = us /\ vecs' = [vecs EXCEPT ![p] = us]
      BY <2>2, <2>3, <2>5, <3>1, Zenon
    <3> QED
      BY <1>1, <3>2 DEF Types
  <2> QED
    BY <2>4, <2>5
<1>6. Head(rq[p]).need \in Nat
  <2>1. PICK o \in Parties : p = Peer(o) /\ Link(o)
    BY Peers DEF LooseInv
  <2>2. len[o] \in Nat
    BY <1>1, Params
  <2> QED
    BY <1>1, <2>1, <2>2, ReadHead DEF Link
<1>7. Len(stream[p]) \in Nat
  BY <1>1 DEF Types
<1>8. Chunk \in Nat
  BY VectorAssumption
<1>9. k \in 1 .. Head(rq[p]).need /\ k <= Len(stream[p]) /\ k \in Nat
  BY <1>2, <1>6, <1>7, <1>8, FewestOf
<1>10. k \in 1 .. Len(stream[p])
  BY <1>6, <1>7, <1>9
<1>11. ws \in Seq(Nat)
  <2>1. stream[p] \in Seq(Nat)
    BY <1>1 DEF Types
  <2>2. Len(stream[p]) \in Nat
    BY <2>1
  <2>3. \A i \in 1 .. k : i \in 1 .. Len(stream[p])
    BY <1>9, <1>10, <2>2
  <2> QED
    BY <1>3, <1>9, <2>1, <2>3
<1>12. whole' = (whole /\ k = Head(rq[p]).need)
  BY <1>2
<1>13. stream' = [stream EXCEPT ![p] = SubSeq(@, k + 1, Len(@))]
  BY <1>2
<1>14. WITNESS k \in Nat, ws \in Seq(Nat)
<1> QED
  BY <1>1, <1>3, <1>4, <1>5, <1>9, <1>10, <1>12, <1>13

\* A transfer of a read keeps LooseInv.
LEMMA LooseRead ==
  ASSUME LooseInv, NEW p \in Parties, Read(p)
  PROVE  LooseInv'
<1>1. Given /\ Control /\ Types /\ \A q \in Parties : Link(q)
  BY DEF LooseInv
<1>2. PICK k \in Nat, ws \in Seq(Nat) :
           /\ rq[p] # <<>> /\ k \in 1 .. Head(rq[p]).need /\ k \in 1 .. Len(stream[p])
           /\ ws = SubSeq(stream[p], 1, k)
           /\ stream' = [stream EXCEPT ![p] = SubSeq(@, k + 1, Len(@))]
           /\ rq' = [rq EXCEPT ![p] = AfterRead(@, ws)]
           /\ DOMAIN vecs' = Parties
           /\ \A x \in Parties : vecs'[x] = IF x = p THEN NowHas(rq[p], vecs[p], ws) ELSE vecs[x]
           /\ whole' = (whole /\ k = Head(rq[p]).need)
           /\ UNCHANGED <<call, len, aes, st, phase, dealt, wq, out>>
  BY ReadStep
<1>3. PICK o \in Parties : o = Peer(p) /\ p = Peer(o) /\ o # p
  BY Peers
<1>4. PICK q, vs, s, rest, n, r, us, w :
           /\ q = rq[p] /\ vs = vecs[p] /\ s = stream[p] /\ rest = SubSeq(s, k + 1, Len(s))
           /\ n = len[o] /\ r = AfterRead(q, ws) /\ us = NowHas(q, vs, ws) /\ w = wq[o]
  OBVIOUS
<1>5. /\ rq' = [rq EXCEPT ![p] = r] /\ stream' = [stream EXCEPT ![p] = rest]
  BY <1>2, <1>4, Zenon
<1>6. s \in Seq(Nat) /\ n \in Nat
  BY <1>1, <1>4, Params DEF Types
<1>7. CutIn(s, k, ws, rest)
  BY <1>2, <1>4, <1>6, Cut
<1>8. /\ rq'[p] = r /\ rq'[o] = rq[o] /\ stream'[p] = rest /\ stream'[o] = stream[o]
      /\ vecs'[p] = us /\ vecs'[o] = vecs[o]
  BY <1>1, <1>2, <1>3, <1>4, <1>5 DEF Types
<1>9. PICK h \in 0 .. K, g \in 0 .. K : Writes(o, h, w) /\ Reads(p, g, q, vs, n) /\ Wire(h, g, s, n)
  BY <1>1, <1>3, <1>4 DEF Link
<1>10. Head(q).need \in Nat \ {0} /\ (g < K => Head(q).need = 1)
  BY <1>1, <1>2, <1>4, <1>6, <1>9, ReadHead
<1>11. k \in 1 .. Head(q).need /\ k \in 1 .. Len(s) /\ (g < K => k = 1)
  BY <1>2, <1>4, <1>10
<1>12. /\ rest \in Seq(Nat) /\ Len(rest) = Len(s) - k
       /\ ws \in Seq(Nat) /\ Len(ws) = k /\ ws # <<>>
       /\ g < K => g + 1 \in 0 .. K /\ ws[1] = n /\ Wire(h, g + 1, rest, n)
       /\ g = K => Wire(h, g, rest, n)
  BY <1>6, <1>7, <1>9, <1>11, WireShrinks
<1>13. PICK g2 \in 0 .. K : Reads(p, g2, r, us, n) /\ Wire(h, g2, rest, n)
  <2>1. K \in {1, 2}
    BY DEF K
  <2>2. Reads(p, IF g < K THEN g + 1 ELSE g, r, us, n)
    <3>1. Len(ws) <= Head(q).need
      BY <1>10, <1>11, <1>12
    <3>2. q # <<>> /\ (g < K => ws[1] = n)
      BY <1>2, <1>4, <1>12
    <3>3. Reads(p, IF g < K THEN g + 1 ELSE g, AfterRead(q, ws), NowHas(q, vs, ws), n)
      BY <1>1, <1>6, <1>9, <1>12, <3>1, <3>2, ReadNext
    <3> QED
      BY <1>4, <3>3
  <2>3. CASE g < K
    BY <1>12, <2>2, <2>3
  <2>4. CASE g = K
    <3>1. ~(g < K)
      BY <2>1, <2>4
    <3> QED
      BY <1>12, <2>2, <2>4, <3>1
  <2> QED
    BY <2>1, <2>3, <2>4
<1>14. Link(o)'
  <2>1. K' = K /\ (Sent(o)' <=> Sent(o)) /\ (Asked(p)' <=> Asked(p))
    BY <1>2 DEF K, Sent, Asked
  <2>2. Writes(o, h, w)'
    BY <1>2, <1>9, <2>1, WritesStays
  <2>3. Reads(p, g2, r, us, n)'
    BY <1>2, <1>13, <2>1, ReadsStays
  <2>4. Wire(h, g2, rest, n)'
    BY <1>13, <2>1 DEF Wire
  <2>5. wq'[o] = w /\ rq'[p] = r /\ vecs'[p] = us /\ len'[o] = n /\ stream'[p] = rest
    BY <1>2, <1>4, <1>8
  <2>6. Writes(o, h, wq[o])'
    BY <2>2, <2>5 DEF Writes
  <2>7. Reads(Peer(o), g2, rq[Peer(o)], vecs[Peer(o)], len[o])'
    BY <1>3, <2>3, <2>5 DEF Reads
  <2>8. Wire(h, g2, stream[Peer(o)], len[o])'
    BY <1>3, <2>4, <2>5 DEF Wire
  <2>9. h \in 0 .. K' /\ g2 \in 0 .. K'
    BY <2>1
  <2> QED
    BY <2>6, <2>7, <2>8, <2>9, Zenon DEF Link
<1>15. Link(p)'
  BY <1>1, <1>2, <1>3, <1>8, Untouched
<1>16. Given' /\ st' = st /\ \A x \in Parties : Plan(x)' = Plan(x)
  BY <1>1, <1>2, GivenStays
<1>17. \A x \in Parties : x = p \/ x = o
  BY <1>3, Peers
<1>18. Control'
  <2>1. st[p] = "run"
    BY <1>1, <1>2 DEF Control
  <2>2. whole' \in BOOLEAN
    BY <1>2
  <2> QED
    BY <1>1, <1>2, <1>8, <1>16, <1>17, <2>1, <2>2 DEF Control
<1>19. Types'
  <2>1. Len(rest) <= Cap
    <3>1. Len(s) <= Cap /\ Len(s) \in Nat /\ Cap \in Nat
      BY <1>1, <1>4, <1>6, VectorAssumption DEF Types
    <3> QED
      BY <1>12, <3>1
  <2>2. stream' \in [Parties -> Seq(Nat)] /\ \A x \in Parties : Len(stream'[x]) <= Cap
    BY <1>1, <1>5, <1>12, <2>1 DEF Types
  <2>3. DOMAIN rq' = Parties /\ DOMAIN vecs' = Parties
    BY <1>1, <1>2, <1>5 DEF Types
  <2> QED
    BY <1>1, <1>2, <2>2, <2>3 DEF Types
<1> QED
  BY <1>14, <1>15, <1>16, <1>17, <1>18, <1>19 DEF LooseInv

\* When a dot product has been read: one vector for each coroutine.
LEMMA AllRead ==
  ASSUME LooseInv, NEW p \in Parties, call = "dot", rq[p] = <<>>, phase[p] = Len(Plan(p))
  PROVE  /\ Received(p, 1) \in Seq(Nat) /\ Len(Received(p, 1)) = len[Peer(p)]
         /\ Received(p, 2) \in Seq(Nat) /\ Len(Received(p, 2)) = len[Peer(p)]
         /\ Got(1, Received(p, 1)) \in Range(vecs[p]) /\ Got(2, Received(p, 2)) \in Range(vecs[p])
         /\ DOMAIN vecs[p] = 1 .. 2
<1>1. PICK o \in Parties : p = Peer(o) /\ o = Peer(p) /\ Link(o)
  BY Peers DEF LooseInv
<1>2. PICK vs, m, g : vs = vecs[p] /\ m = len[o] /\ Reads(p, g, <<>>, vs, m)
  BY <1>1 DEF Link
<1>3. Len(Plan(p)) = 1 /\ Asked(p) /\ K = 2
  BY DEF Plan, Asked, K
<1>4. PICK i \in {1, 2}, j \in {1, 2} :
        /\ i # j /\ Len(vs) = 2 /\ vs = <<vs[1], vs[2]>> /\ Full(vs[1], i, m) /\ Full(vs[2], j, m)
  BY <1>2, <1>3 DEF Reads
<1>5. PICK a, b : a = vs[1] /\ b = vs[2]
  OBVIOUS
<1>6. vs = <<a, b>> /\ Full(a, i, m) /\ Full(b, j, m)
  BY <1>4, <1>5
<1>7. Range(vs) = {a, b} /\ DOMAIN vs = 1 .. 2
  BY <1>6 DEF Range
<1>8. ASSUME NEW x, NEW k, Full(x, k, m)
      PROVE  x = Got(k, x.val) /\ x.id = k /\ x.val \in Seq(Nat) /\ Len(x.val) = m
  BY <1>8 DEF Full, Got
<1>9. a.id = i /\ b.id = j
  BY <1>6, <1>8
<1>10. ASSUME NEW k \in {1, 2}
       PROVE  /\ Received(p, k) \in Seq(Nat) /\ Len(Received(p, k)) = m
              /\ Got(k, Received(p, k)) \in {a, b}
  <2>1. PICK c : c = CHOOSE v \in {a, b} : v.id = k
    OBVIOUS
  <2>2. c \in {a, b} /\ c.id = k
    BY <1>4, <1>9, <2>1
  <2>3. Full(c, k, m)
    BY <1>6, <1>9, <2>2
  <2>4. Received(p, k) = c.val
    BY <1>2, <1>7, <2>1 DEF Received
  <2> QED
    BY <1>8, <2>2, <2>3, <2>4
<1> QED
  BY <1>1, <1>2, <1>7, <1>10

\* The seeds and the gamma that a party has.
LEMMA Shares ==
  ASSUME Given, NEW p \in Parties, call = "dot", st["P2"] # "run"
  PROVE  /\ IsVec(Blind(p, dealt[p].x), len[p]) /\ IsVec(Blind(p, dealt[p].y), len[p])
         /\ dealt[p].gamma \in Nat
<1>1. PICK s \in Draws : dealt = Dealing(s)
  BY DEF Given
<1>2. PICK o \in Parties : o = Peer(p)
  BY Peers
<1>3. PICK a, b : /\ a = fill_vector_with_prg(aes["P2"], s[p].x, len["P2"])
                  /\ b = fill_vector_with_prg(aes["P2"], s[o].y, len["P2"])
  OBVIOUS
<1>4. dealt[p].x = s[p].x /\ dealt[p].y = s[p].y /\ dealt[p].gamma = Times(a, b)
  BY <1>1, <1>2, <1>3 DEF Dealing
<1>5. len["P2"] \in Lens /\ aes["P2"] \in Keys /\ len[p] \in Lens /\ aes[p] \in Keys /\ len["P2"] \in Nat
  BY Peers, Params DEF Given
<1>6. IsVec(a, len["P2"]) /\ IsVec(b, len["P2"])
  BY <1>3, <1>5, Seeds
<1>7. a \in Seq(Nat) /\ b \in Seq(Nat) /\ Len(a) = len["P2"] /\ Len(b) = len["P2"]
  BY <1>6, VecNat
<1>8. Times(a, b) \in AWord
  <2>1. PICK n \in Nat : n = len["P2"]
    BY <1>5
  <2>2. PICK f : (\A i \in 0 .. n : f[i] \in AWord) /\ Times(a, b) = f[n]
    BY <1>7, <2>1, TimesSums, SMTT(60)
  <2> QED
    BY <2>2
<1>9. AWord \subseteq Nat
  BY Words1
<1>10. IsVec(Blind(p, dealt[p].x), len[p]) /\ IsVec(Blind(p, dealt[p].y), len[p])
  BY <1>4, <1>5, Seeds DEF Blind
<1> QED
  BY <1>4, <1>8, <1>9, <1>10

\* A product of vectors is a word.
LEMMA TimesWord ==
  ASSUME NEW n \in Nat, NEW a \in Seq(Nat), NEW b \in Seq(Nat), Len(a) = n, Len(b) = n
  PROVE  Times(a, b) \in AWord /\ Times(a, b) \in Nat
<1>1. PICK f : (\A i \in 0 .. n : f[i] \in AWord) /\ Times(a, b) = f[n]
  BY TimesSums
<1>2. Times(a, b) \in AWord
  BY <1>1
<1>3. AWord \subseteq Nat
  BY Words1
<1> QED
  BY <1>2, <1>3

\* The share of a dot product is a word.
LEMMA zWord ==
  ASSUME Given, NEW p \in Parties, call = "dot", st["P2"] # "run",
         NEW a \in Seq(Nat), a = Received(p, 1), Len(a) = len[p],
         NEW b \in Seq(Nat), b = Received(p, 2), Len(b) = len[p]
  PROVE  z(p) \in AWord
<1>1. PICK n, x, y, u, c :
        /\ n \in Nat /\ n = len[p] /\ x = X(p) /\ y = Y(p) /\ u = Blind(p, dealt[p].y) /\ c = dealt[p].gamma
  BY Params
<1>2. IsVec(x, n) /\ IsVec(y, n) /\ IsVec(u, n) /\ c \in Nat
  BY <1>1, Params, Shares
<1>3. x \in Seq(Nat) /\ y \in Seq(Nat) /\ u \in Seq(Nat) /\ Len(x) = n /\ Len(y) = n /\ Len(u) = n
  BY <1>2, VecNat
<1>4. IsVec(Plus(y, b), n)
  BY <1>1, <1>3, PlusVec
<1>5. Plus(y, b) \in Seq(Nat) /\ Len(Plus(y, b)) = n
  BY <1>4, VecNat
<1>6. PICK d, e : d = Times(x, Plus(y, b)) /\ e = Times(u, a)
  OBVIOUS
<1>7. d \in Nat /\ e \in Nat
  BY <1>1, <1>3, <1>5, <1>6, TimesWord
<1>8. z(p) = Wrap(d - e + c)
  BY <1>1, <1>6 DEF z
<1>9. d - e + c \in Int
  BY <1>2, <1>7
<1> QED
  BY <1>8, <1>9, Words1

\* The end of a call keeps LooseInv.
LEMMA LooseFinish ==
  ASSUME LooseInv, NEW p \in Parties, Finish(p)
  PROVE  LooseInv'
<1>1. /\ Given /\ Control /\ Types /\ \A q \in Parties : Link(q)
      /\ st[p] = "run" /\ wq[p] = <<>> /\ rq[p] = <<>> /\ phase[p] = Len(Plan(p))
      /\ UNCHANGED <<call, len, aes, phase, dealt, stream, wq, rq, vecs, whole>>
  BY DEF LooseInv, Finish, Idle
<1>2. PICK e \in {"done", "threw"} : st' = [st EXCEPT ![p] = e]
  BY DEF Finish
<1>3. Given' /\ st'["P2"] = st["P2"] /\ \A q \in Parties : Plan(q)' = Plan(q)
  BY <1>1, <1>2, GivenStays
<1>4. phase[p] > 0 /\ st["P2"] # "run"
  <2>1. Len(Plan(p)) \in {1, 2}
    BY DEF Plan
  <2> QED
    BY <1>1, <2>1 DEF Control
<1>5. Control'
  <2>1. \A q \in Parties : q # p => st'[q] = st[q]
    BY <1>1, <1>2 DEF Given
  <2> QED
    BY <1>1, <1>3, <2>1 DEF Control
<1>6. ASSUME NEW q \in Parties PROVE Link(q)'
  BY <1>1, Untouched
<1>7. out' \in [Parties -> AWord \cup {None}]
  <2>1. CASE out' = out
    BY <1>1, <2>1 DEF Types
  <2>2. CASE out' # out
    <3>1. call = "dot" /\ out' = [out EXCEPT ![p] = z(p)]
          /\ \A i \in DOMAIN vecs[p] : Len(vecs[p][i].val) = len[p]
      BY <2>2 DEF Finish
    <3>2. PICK a, b : a = Received(p, 1) /\ b = Received(p, 2)
      OBVIOUS
    <3>3. a \in Seq(Nat) /\ b \in Seq(Nat) /\ Got(1, a) \in Range(vecs[p]) /\ Got(2, b) \in Range(vecs[p])
      BY <1>1, <3>1, <3>2, AllRead
    <3>4. \A k, v : Got(k, v) \in Range(vecs[p]) => Len(v) = len[p]
      BY <3>1 DEF Range, Got
    <3>5. Len(a) = len[p] /\ Len(b) = len[p]
      BY <3>3, <3>4
    <3>6. z(p) \in AWord
      BY <1>1, <1>4, <3>1, <3>2, <3>3, <3>5, zWord
    <3> QED
      BY <1>1, <3>1, <3>6 DEF Types
  <2> QED
    BY <2>1, <2>2
<1>8. Types'
  BY <1>1, <1>7 DEF Types
<1> QED
  BY <1>3, <1>5, <1>6, <1>8 DEF LooseInv

\* Every step keeps LooseInv.
LEMMA LooseStep == LooseInv /\ [Next]_vars => LooseInv'
<1> SUFFICES ASSUME LooseInv, [Next]_vars PROVE LooseInv'
  OBVIOUS
<1>1. CASE Deal
  BY <1>1, LooseDeal
<1>2. CASE \E p \in Parties : PartyStep(p)
  BY <1>2, LooseProceed, LooseWrite, LooseRead, LooseFinish DEF PartyStep
<1>3. CASE UNCHANGED vars
  <2>1. /\ UNCHANGED <<call, len, aes, phase, dealt, stream, wq, rq, vecs, whole>>
        /\ st' = st /\ out' = out
    BY <1>3 DEF vars
  <2>2. Given /\ Control /\ Types /\ \A p \in Parties : Link(p)
    BY DEF LooseInv
  <2>3. "P0" \in Parties
    BY DEF Parties
  <2>4. Given' /\ \A q \in Parties : Plan(q)' = Plan(q)
    BY <2>1, <2>2, <2>3, GivenStays
  <2>5. ASSUME NEW p \in Parties PROVE Link(p)'
    BY <2>1, <2>2, Untouched
  <2>6. Control'
    BY <2>1, <2>2, <2>4 DEF Control
  <2>7. Types'
    BY <2>1, <2>2 DEF Types
  <2> QED
    BY <2>4, <2>5, <2>6, <2>7 DEF LooseInv
<1> QED
  BY <1>1, <1>2, <1>3 DEF Next

\* LooseInv is an invariant.
LEMMA LooseAlways == Spec => []LooseInv
BY LooseInit, LooseStep, PTL DEF Spec

\* What the reads of a party say of their vectors.
LEMMA ReadsSay ==
  ASSUME NEW p \in Parties, NEW g, NEW q, NEW vs, NEW m \in Nat, Reads(p, g, q, vs, m)
  PROVE  /\ \A i \in DOMAIN q : q[i].need > 0
         /\ \A i \in DOMAIN vs : Len(vs[i].val) = m
<1>1. \A i : recv_vector(i).need = 1
  BY DEF recv_vector
<1>2. /\ \A x, i : Part(x, i, m) => x.need > 0
      /\ \A x, i : Full(x, i, m) => Len(x.val) = m
  BY DEF Part, Full
<1>3. \A i : Data(i, m, <<>>).need = m
  BY DEF Data
<1>4. \A i : Len(Got(i, <<>>).val) = 0
  <2>1. PICK e : e = <<>> /\ Len(e) = 0
    BY Empty
  <2>2. \A i : Got(i, e).val = e
    BY DEF Got
  <2> QED
    BY <2>1, <2>2
<1>5. ASSUME NEW s, s = <<>> PROVE DOMAIN s = {}
  BY <1>5
<1>6. ASSUME NEW s, s = <<s[1]>> PROVE DOMAIN s = {1}
  <2>1. PICK a : a = s[1]
    OBVIOUS
  <2>2. s = <<a>>
    BY <1>6, <2>1
  <2> QED
    BY <2>2
<1>7. ASSUME NEW s, s = <<s[1], s[2]>> PROVE DOMAIN s = {1, 2}
  <2>1. PICK a, b : a = s[1] /\ b = s[2]
    OBVIOUS
  <2>2. s = <<a, b>>
    BY <1>7, <2>1
  <2> QED
    BY <2>2
<1>8. \A i \in DOMAIN q : q[i].need > 0
  <2>1. CASE q = <<>>
    BY <1>5, <2>1
  <2>2. CASE \E i : q = <<recv_vector(i)>>
    BY <1>1, <2>2
  <2>3. CASE q = <<recv_vector(1), recv_vector(2)>>
    BY <1>1, <2>3
  <2>4. CASE m > 0 /\ q = <<recv_vector(2), Data(1, m, <<>>)>>
    <3>1. PICK a, b : a = recv_vector(2) /\ b = Data(1, m, <<>>)
      OBVIOUS
    <3>2. a.need = 1 /\ b.need = m /\ q = <<a, b>>
      BY <1>1, <1>3, <2>4, <3>1
    <3> QED
      BY <2>4, <3>2
  <2>5. CASE q = <<q[1]>> /\ \E i : Part(q[1], i, m)
    BY <1>2, <1>6, <2>5
  <2>6. CASE q = <<q[1], q[2]>> /\ \E i, j : Part(q[1], i, m) /\ Part(q[2], j, m)
    BY <1>2, <1>7, <2>6
  <2> QED
    BY <2>1, <2>2, <2>3, <2>4, <2>5, <2>6 DEF Reads
<1>9. \A i \in DOMAIN vs : Len(vs[i].val) = m
  <2>1. CASE vs = <<>>
    BY <1>5, <2>1
  <2>2. CASE m = 0 /\ vs = <<Got(1, <<>>)>>
    <3>1. PICK a : a = Got(1, <<>>)
      OBVIOUS
    <3>2. Len(a.val) = 0 /\ vs = <<a>>
      BY <1>4, <2>2, <3>1
    <3> QED
      BY <2>2, <3>2
  <2>3. CASE vs = <<vs[1]>> /\ \E i : Full(vs[1], i, m)
    BY <1>2, <1>6, <2>3
  <2>4. CASE vs = <<vs[1], vs[2]>> /\ \E i, j : Full(vs[1], i, m) /\ Full(vs[2], j, m)
    BY <1>2, <1>7, <2>4
  <2> QED
    BY <2>1, <2>2, <2>3, <2>4 DEF Reads
<1> QED
  BY <1>8, <1>9

\* Every state is well typed: the plans are kept, no direction holds more words
\* than its buffers, no read waits for nothing, and the results are words.
THEOREM VectorTypeCorrect == Spec => []TypeOK
<1>1. ASSUME LooseInv PROVE TypeOK
  <2>1. Given /\ Control /\ Types
    BY <1>1 DEF LooseInv
  <2>2. ASSUME NEW p \in Parties PROVE \A i \in DOMAIN rq[p] : rq[p][i].need > 0
    <3>1. PICK o \in Parties : p = Peer(o) /\ Link(o) /\ len[o] \in Nat
      BY <1>1, <2>1, Peers, Params DEF LooseInv
    <3> QED
      BY <3>1, ReadsSay DEF Link
  <2>3. \A p \in Parties : Len(Plan(p)) \in Nat
    BY DEF Plan
  <2> QED
    BY <2>1, <2>2, <2>3 DEF TypeOK, Given, Control, Types
<1> QED
  BY <1>1, LooseAlways, PTL

\* Two coroutines that share a socket never take each other's lengths: whatever
\* the buffers hold and however the transfers are cut up, each vector that is
\* read has the length with which it was sent (NetPeer::send and recv_vector).
THEOREM LengthsCorrect == Spec => []LengthsRight
<1>1. ASSUME LooseInv PROVE LengthsRight
  <2>1. ASSUME NEW p \in Parties PROVE \A i \in DOMAIN vecs[p] : Len(vecs[p][i].val) = len[Peer(p)]
    <3>1. PICK o \in Parties : p = Peer(o) /\ o = Peer(p) /\ Link(o) /\ len[o] \in Nat
      BY <1>1, Peers, Params DEF LooseInv
    <3> QED
      BY <3>1, ReadsSay DEF Link
  <2> QED
    BY <2>1 DEF LengthsRight
<1> QED
  BY <1>1, LooseAlways, PTL

-----------------------------------------------------------------------------
(* The vectors arrive intact when no transfer was cut up, or none shares   *)
(* its socket.                                                             *)

\* The i-th word that a party writes, of the vectors a and b of length n: the
\* lengths go first, and then the data.
Text(i, n, a, b) == IF i <= K THEN n ELSE IF i <= K + n THEN a[i - K] ELSE b[i - K - n]

\* t is what is left of a, from its w-th word.
Rest(t, w, n, a) ==
  /\ t \in Seq(Nat) /\ Len(t) = n + 1 - w
  /\ \A i \in 1 .. (n + 1 - w) : t[i] = a[w - 1 + i]

\* q is the queue of the writes of p when w words have been written.
Wrote(p, w, q, n, a, b) ==
  \/ w = 0 /\ ~Sent(p) /\ q = <<>>
  \/ w = 0 /\ Sent(p) /\ K = 1 /\ q = <<send(a)>>
  \/ w = 0 /\ Sent(p) /\ K = 2 /\ q = <<send(a), send(b)>>
  \/ w = 1 /\ Sent(p) /\ K = 2 /\ n = 0 /\ q = <<send(b)>>
  \/ w = 1 /\ Sent(p) /\ K = 2 /\ n > 0 /\ q = <<send(b), <<a>>>>
  \/ w = 2 /\ Sent(p) /\ K = 2 /\ n > 0 /\ q = <<<<a>>, <<b>>>>
  \/ w = 2 + n /\ Sent(p) /\ K = 2 /\ n > 0 /\ q = <<<<b>>>>
  \/ w = 2 + n + n /\ Sent(p) /\ K = 2 /\ q = <<>>
  \/ /\ w \in 1 .. n /\ Sent(p) /\ K = 1
     /\ Len(q) = 1 /\ q = <<<<q[1][1]>>>> /\ Rest(q[1][1], w, n, a)
  \/ w = n + 1 /\ Sent(p) /\ K = 1 /\ q = <<>>

\* x is the read of a when r words, the length first, have been read.
Begun(x, r, n, a) ==
  /\ Part(x, 1, n) /\ Len(x.got) = r - 1
  /\ \A i \in 1 .. (r - 1) : x.got[i] = a[i]

\* q is the queue of the reads of p and vs what it has received when r words
\* have been read.
HasRead(p, r, q, vs, n, a, b) ==
  \/ r = 0 /\ ~Asked(p) /\ q = <<>> /\ vs = <<>>
  \/ r = 0 /\ Asked(p) /\ K = 1 /\ q = <<recv_vector(1)>> /\ vs = <<>>
  \/ r = 0 /\ Asked(p) /\ K = 2 /\ q = <<recv_vector(1), recv_vector(2)>> /\ vs = <<>>
  \/ r = 1 /\ Asked(p) /\ K = 2 /\ n = 0 /\ q = <<recv_vector(2)>> /\ vs = <<Got(1, a)>>
  \/ r = 1 /\ Asked(p) /\ K = 2 /\ n > 0 /\ q = <<recv_vector(2), Data(1, n, <<>>)>> /\ vs = <<>>
  \/ r = 2 /\ Asked(p) /\ K = 2 /\ n > 0 /\ q = <<Data(1, n, <<>>), Data(2, n, <<>>)>> /\ vs = <<>>
  \/ r = 2 + n /\ Asked(p) /\ K = 2 /\ n > 0 /\ q = <<Data(2, n, <<>>)>> /\ vs = <<Got(1, a)>>
  \/ r = 2 + n + n /\ Asked(p) /\ K = 2 /\ q = <<>> /\ vs = <<Got(1, a), Got(2, b)>>
  \/ r \in 1 .. n /\ Asked(p) /\ K = 1 /\ Len(q) = 1 /\ q = <<q[1]>> /\ Begun(q[1], r, n, a) /\ vs = <<>>
  \/ r = n + 1 /\ Asked(p) /\ K = 1 /\ q = <<>> /\ vs = <<Got(1, a)>>

\* s is what has been written and not yet read.
Flow(w, r, s, n, a, b) ==
  /\ r <= w /\ Len(s) = w - r
  /\ \A j \in 1 .. (w - r) : s[j] = Text(r + j, n, a, b)

Chain(p) ==
  \E w, r \in Nat :
    /\ Wrote(p, w, wq[p], len[p], V(p, 1), V(p, 2))
    /\ HasRead(Peer(p), r, rq[Peer(p)], vecs[Peer(p)], len[p], V(p, 1), V(p, 2))
    /\ Flow(w, r, stream[Peer(p)], len[p], V(p, 1), V(p, 2))

OrderInv == whole \/ call # "dot" => \A p \in Parties : Chain(p)

\* A transfer of a write, when nothing is cut up or there is one vector.
FirstOp(q, op) == q # <<>> /\ op = Head(Head(q))
Spells(t, k, w, n, a, b) == \A i \in 1 .. k : t[i] = Text(w + i, n, a, b)

\* A transfer of a write continues the text where the last one stopped.
LEMMA WroteNext ==
  ASSUME NEW p \in Parties, NEW n \in Nat, NEW a, NEW b, IsVec(a, n), K = 2 => IsVec(b, n),
         NEW w \in Nat, NEW q, Wrote(p, w, q, n, a, b),
         NEW op, FirstOp(q, op), NEW k \in 1 .. Len(op), K = 2 => k = Len(op)
  PROVE  Wrote(p, w + k, AfterWrite(q, k), n, a, b) /\ Spells(op, k, w, n, a, b)
<1> USE DEF Spells
<1>0. q # <<>> /\ op = Head(Head(q))
  BY DEF FirstOp
<1>1. K \in {1, 2}
  BY DEF K
<1>2. PICK t : t = AfterWrite(q, k)
  OBVIOUS
<1>3. /\ n = 0 => send(a) = <<<<n>>>>
      /\ n > 0 => send(a) = <<<<n>>, a>> /\ Block(a)
      /\ Block(<<n>>) /\ Len(<<n>>) = 1 /\ <<n>>[1] = n
  BY SendOps
<1>4. K = 2 => /\ n = 0 => send(b) = <<<<n>>>>
               /\ n > 0 => send(b) = <<<<n>>, b>> /\ Block(b)
  BY SendOps
<1>5. a \in Seq(Nat) /\ Len(a) = n /\ (K = 2 => b \in Seq(Nat) /\ Len(b) = n)
  BY VecNat
<1>6. ASSUME op = <<n>>, w < K PROVE k = 1 /\ w + k = w + 1 /\ \A i \in 1 .. k : op[i] = Text(w + i, n, a, b)
  <2>0. Len(op) = 1 /\ op[1] = n
    BY <1>6
  <2>4. k \in 1 .. 1
    BY <2>0, Zenon
  <2>1. k = 1 /\ op[1] = n
    BY <2>0, <2>4
  <2>2. Text(w + 1, n, a, b) = n
    BY <1>1, <1>6 DEF Text
  <2>3. \A i \in 1 .. 1 : i = 1
    OBVIOUS
  <2> QED
    BY <2>1, <2>2, <2>3
<1>7. CASE w = 0 /\ Sent(p) /\ K = 1 /\ q = <<send(a)>>
  <2>1. CASE n = 0
    <3>1. q = <<<<<<n>>>>>> /\ op = <<n>>
      BY <1>0, <1>3, <1>7, <2>1, Tuples
    <3>2. k = 1
      BY <1>6, <1>7, <3>1
    <3>3. AfterWrite(q, 1) = <<>>
      BY <3>1, LengthLast
    <3>4. t = <<>> /\ w + k = n + 1
      BY <1>2, <1>7, <2>1, <3>2, <3>3
    <3> QED
      BY <1>2, <1>6, <1>7, <2>1, <3>1, <3>4 DEF Wrote
  <2>2. CASE n > 0
    <3>1. q = <<<<<<n>>, a>>>> /\ op = <<n>>
      BY <1>0, <1>3, <1>7, <2>2, Tuples
    <3>2. k = 1
      BY <1>6, <1>7, <3>1
    <3>3. t = <<<<a>>>>
      BY <1>2, <3>1, <3>2, LengthFirst
    <3>4. Len(t) = 1 /\ t[1][1] = a
      BY <3>3
    <3>5. Rest(a, 1, n, a) /\ 1 \in 1 .. n
      BY <1>5, <2>2 DEF Rest
    <3>6. Wrote(p, 1, t, n, a, b)
      BY <1>7, <3>3, <3>4, <3>5 DEF Wrote
    <3> QED
      BY <1>2, <1>6, <1>7, <3>1, <3>2, <3>6
  <2> QED
    BY <2>1, <2>2
<1>8. CASE w = 0 /\ Sent(p) /\ K = 2 /\ q = <<send(a), send(b)>>
  <2>1. CASE n = 0
    <3>1. q = <<<<<<n>>>>, send(b)>> /\ op = <<n>>
      BY <1>0, <1>3, <1>8, <2>1, Tuples
    <3>2. k = 1 /\ t = <<send(b)>>
      BY <1>2, <1>6, <1>8, <3>1, LengthLast
    <3> QED
      BY <1>2, <1>6, <1>8, <2>1, <3>1, <3>2 DEF Wrote
  <2>2. CASE n > 0
    <3>1. q = <<<<<<n>>, a>>, send(b)>> /\ op = <<n>>
      BY <1>0, <1>3, <1>8, <2>2, Tuples
    <3>2. k = 1
      BY <1>6, <1>8, <3>1
    <3>3. AfterWrite(<<<<<<n>>, a>>, send(b)>>, 1) = <<send(b), <<a>>>>
      BY LengthFirstOfTwo
    <3>4. t = <<send(b), <<a>>>>
      BY <1>2, <3>1, <3>2, <3>3
    <3> QED
      BY <1>2, <1>6, <1>8, <2>2, <3>1, <3>2, <3>4 DEF Wrote
  <2> QED
    BY <2>1, <2>2
<1>9. CASE w = 1 /\ Sent(p) /\ K = 2 /\ n = 0 /\ q = <<send(b)>>
  <2>1. q = <<<<<<n>>>>>> /\ op = <<n>>
    BY <1>0, <1>4, <1>9, Tuples
  <2>2. k = 1
    BY <1>6, <1>9, <2>1
  <2>3. AfterWrite(q, 1) = <<>>
    BY <2>1, LengthLast
  <2>4. t = <<>> /\ w + k = 2 + n + n
    BY <1>2, <1>9, <2>2, <2>3
  <2> QED
    BY <1>2, <1>6, <1>9, <2>1, <2>4 DEF Wrote
<1>10. CASE w = 1 /\ Sent(p) /\ K = 2 /\ n > 0 /\ q = <<send(b), <<a>>>>
  <2>1. q = <<<<<<n>>, b>>, <<a>>>> /\ op = <<n>>
    BY <1>0, <1>4, <1>10, Tuples
  <2>2. k = 1
    BY <1>6, <1>10, <2>1
  <2>3. PICK c : c = <<a>>
    OBVIOUS
  <2>4. AfterWrite(<<<<<<n>>, b>>, c>>, 1) = <<c, <<b>>>>
    BY LengthFirstOfTwo
  <2>5. t = <<<<a>>, <<b>>>> /\ 1 + 1 = 2
    BY <1>2, <2>1, <2>2, <2>3, <2>4
  <2>6. Wrote(p, 2, t, n, a, b)
    BY <1>10, <2>5 DEF Wrote
  <2> QED
    BY <1>2, <1>6, <1>10, <2>1, <2>2, <2>5, <2>6
<1>11. CASE w = 2 /\ Sent(p) /\ K = 2 /\ n > 0 /\ q = <<<<a>>, <<b>>>>
  <2>1. op = a /\ k = n /\ Block(a)
    BY <1>0, <1>3, <1>5, <1>11, Tuples
  <2>2. PICK c : c = <<b>>
    OBVIOUS
  <2>3. AfterWrite(<<<<a>>, c>>, Len(a)) = <<c>>
    BY <2>1, WriteAll
  <2>4. t = <<<<b>>>>
    BY <1>2, <1>5, <1>11, <2>1, <2>2, <2>3
  <2>5. ASSUME NEW i \in 1 .. k PROVE op[i] = Text(w + i, n, a, b)
    BY <1>11, <2>1 DEF Text
  <2>6. Wrote(p, 2 + n, t, n, a, b)
    BY <1>11, <2>4 DEF Wrote
  <2> QED
    BY <1>2, <1>11, <2>1, <2>5, <2>6
<1>12. CASE w = 2 + n /\ Sent(p) /\ K = 2 /\ n > 0 /\ q = <<<<b>>>>
  <2>1. op = b /\ k = n /\ Block(b)
    BY <1>0, <1>4, <1>5, <1>12, Tuples
  <2>3. AfterWrite(<<<<b>>>>, Len(b)) = <<>>
    BY <2>1, WriteAll
  <2>4. t = <<>>
    BY <1>2, <1>5, <1>12, <2>1, <2>3
  <2>5. ASSUME NEW i \in 1 .. k PROVE op[i] = Text(w + i, n, a, b)
    BY <1>12, <2>1 DEF Text
  <2>6. Wrote(p, 2 + n + n, t, n, a, b)
    BY <1>12, <2>4 DEF Wrote
  <2> QED
    BY <1>2, <1>12, <2>1, <2>5, <2>6
<1>13. CASE /\ w \in 1 .. n /\ Sent(p) /\ K = 1
            /\ Len(q) = 1 /\ q = <<<<q[1][1]>>>> /\ Rest(q[1][1], w, n, a)
  <2>1. q = <<<<op>>>> /\ op \in Seq(Nat) /\ Len(op) = n + 1 - w /\ \A i \in 1 .. (n + 1 - w) : op[i] = a[w - 1 + i]
    <3>1. PICK c : c = q[1][1]
      OBVIOUS
    <3>2. q = <<<<c>>>> /\ Head(Head(q)) = c
      BY <1>13, <3>1, Tuples
    <3>3. op = c /\ Rest(op, w, n, a)
      BY <1>0, <1>13, <3>1, <3>2
    <3> QED
      BY <3>2, <3>3 DEF Rest
  <2>2. Block(op)
    <3>1. Len(op) # 0
      BY <1>13, <2>1
    <3> QED
      BY <2>1, <3>1, Empty DEF Block
  <2>3. PICK d, c : d = SubSeq(op, k + 1, Len(op)) /\ c = SubSeq(op, 1, k)
    OBVIOUS
  <2>4. t = IF k = Len(op) THEN <<>> ELSE <<<<d>>>>
    <3>1. AfterWrite(<<<<op>>>>, k) = IF k = Len(op) THEN <<>> ELSE <<<<d>>>>
      BY <2>2, <2>3, WriteLast, Zenon
    <3> QED
      BY <1>2, <2>1, <3>1, Zenon
  <2>5. ASSUME NEW i \in 1 .. k PROVE op[i] = Text(w + i, n, a, b)
    <3>1. i \in 1 .. (n + 1 - w) /\ w + i - 1 = w - 1 + i /\ ~(w + i <= 1) /\ w + i <= 1 + n
      BY <1>13, <2>1
    <3> QED
      BY <1>13, <2>1, <3>1 DEF Text
  <2>6. CASE k = Len(op)
    <3>1. t = <<>> /\ w + k = n + 1
      BY <1>13, <2>1, <2>4, <2>6
    <3> QED
      BY <1>2, <1>13, <2>5, <3>1 DEF Wrote
  <2>7. CASE k # Len(op)
    <3>1. t = <<<<d>>>> /\ w + k \in 1 .. n
      BY <1>13, <2>1, <2>4, <2>7
    <3>2. d \in Seq(Nat) /\ Len(d) = Len(op) - k /\ \A i \in 1 .. (Len(op) - k) : d[i] = op[k + i]
      <4>1. CutIn(op, k, c, d)
        BY <2>1, <2>3, Cut
      <4> QED
        BY <4>1 DEF CutIn
    <3>3. PICK v \in Nat : v = w + k
      BY <3>1
    <3>4. Len(d) = n + 1 - v
      BY <1>13, <2>1, <3>2, <3>3
    <3>5. Rest(d, v, n, a)
      <4>1. ASSUME NEW i \in 1 .. (n + 1 - v) PROVE d[i] = a[v - 1 + i]
        <5>1. /\ i \in 1 .. (Len(op) - k) /\ k + i \in 1 .. (n + 1 - w)
              /\ w - 1 + (k + i) = v - 1 + i
          BY <1>13, <2>1, <3>3
        <5> QED
          BY <2>1, <3>2, <5>1
      <4> QED
        BY <3>2, <3>4, <4>1 DEF Rest
    <3>6. Len(t) = 1 /\ t[1][1] = d
      BY <3>1
    <3>7. Wrote(p, v, t, n, a, b)
      BY <1>13, <3>1, <3>3, <3>5, <3>6 DEF Wrote
    <3> QED
      BY <1>2, <2>5, <3>3, <3>7
  <2> QED
    BY <2>6, <2>7
<1> QED
  BY <1>0, <1>7, <1>8, <1>9, <1>10, <1>11, <1>12, <1>13 DEF Wrote

\* A vector that is read in one transfer.
LEMMA AllAtOnce ==
  ASSUME NEW i, NEW v \in Seq(Nat), v # <<>>
  PROVE  Advanced(Data(i, Len(v), <<>>), v) = Data(i, 0, v)
<1>1. PICK n \in Nat : n = Len(v) /\ n > 0
  BY Empty
<1>2. PICK e, x, c : e = <<>> /\ x = Data(i, n, e) /\ c = Advanced(x, v)
  OBVIOUS
<1>3. Part(x, i, n) /\ x.need = n /\ x.got = e
  BY <1>1, <1>2, Fresh
<1>4. Len(v) <= x.need
  BY <1>1, <1>3
<1>5. c = Data(i, x.need - Len(v), x.got \o v)
  BY <1>2, <1>3, <1>4, DataRead
<1>6. e \o v = v
  BY <1>2, ConcatEmptySeq
<1>7. x.need - Len(v) = 0
  BY <1>1, <1>3
<1>8. c = Data(i, 0, v)
  BY <1>3, <1>5, <1>6, <1>7, Zenon
<1> QED
  BY <1>1, <1>2, <1>8, Zenon

\* A transfer of a read, when nothing is cut up or there is one vector.
LEMMA HasReadNext ==
  ASSUME NEW p \in Parties, NEW n \in Nat, NEW a, NEW b, IsVec(a, n), K = 2 => IsVec(b, n),
         NEW r \in Nat, NEW q, NEW vs, HasRead(p, r, q, vs, n, a, b), q # <<>>,
         NEW ws \in Seq(Nat), ws # <<>>, NEW k \in Nat, k = Len(ws), k <= Head(q).need,
         K = 2 => k = Head(q).need, \A i \in 1 .. k : ws[i] = Text(r + i, n, a, b)
  PROVE  HasRead(p, r + k, AfterRead(q, ws), NowHas(q, vs, ws), n, a, b)
<1>1. K \in {1, 2}
  BY DEF K
<1>2. PICK c, t, us, e : /\ c = Advanced(Head(q), ws) /\ t = AfterRead(q, ws)
                         /\ us = NowHas(q, vs, ws) /\ e = <<>>
  OBVIOUS
<1>3. /\ c.need > 0 => us = vs
      /\ ~(c.need > 0) => us = Append(vs, Got(c.id, c.got))
      /\ Len(q) = 1 /\ q = <<q[1]>> /\ c.need > 0 => t = <<c>>
      /\ Len(q) = 1 /\ q = <<q[1]>> /\ ~(c.need > 0) => t = <<>>
      /\ Len(q) = 2 /\ q = <<q[1], q[2]>> /\ c.need > 0 => t = <<q[2], c>>
      /\ Len(q) = 2 /\ q = <<q[1], q[2]>> /\ ~(c.need > 0) => t = <<q[2]>>
  BY <1>2, ReadShapes
<1>4. a \in Seq(Nat) /\ Len(a) = n /\ (K = 2 => b \in Seq(Nat) /\ Len(b) = n) /\ (n = 0 => a = e)
      /\ (n = 0 /\ K = 2 => b = e)
  BY <1>2, VecNat, Empty
<1>5. k > 0
  BY Empty
<1>6. ASSUME NEW i, Head(q) = recv_vector(i), r < K
      PROVE  /\ k = 1 /\ c = Data(i, n, e) /\ c.need = n /\ c.id = i /\ c.got = e
             /\ n > 0 => Part(c, i, n)
  <2>1. recv_vector(i).need = 1
    BY DEF recv_vector
  <2>2. k = 1
    BY <1>5, <1>6, <2>1
  <2>3. Text(r + 1, n, a, b) = n
    BY <1>1, <1>6 DEF Text
  <2>4. ws[1] = n
    BY <2>2, <2>3
  <2>5. c = Data(i, n, e)
    BY <1>2, <1>6, <2>4, LengthRead
  <2> QED
    BY <1>2, <2>2, <2>5, Fresh
<1>7. CASE r = 0 /\ Asked(p) /\ K = 1 /\ q = <<recv_vector(1)>> /\ vs = <<>>
  <2>1. Len(q) = 1 /\ q = <<q[1]>> /\ Head(q) = recv_vector(1) /\ r < K
    BY <1>7, Tuples
  <2>2. k = 1 /\ c.need = n /\ c.id = 1 /\ c.got = e /\ (n > 0 => Part(c, 1, n))
    BY <1>6, <2>1
  <2>3. CASE n > 0
    <3>1. t = <<c>> /\ us = <<>> /\ Len(t) = 1 /\ t[1] = c
      BY <1>3, <1>7, <2>1, <2>2, <2>3
    <3>2. Begun(c, 1, n, a)
      BY <1>2, <2>2, <2>3, Empty DEF Begun
    <3>3. 1 \in 1 .. n /\ r + k = 1
      BY <1>7, <2>2, <2>3
    <3>4. HasRead(p, 1, t, us, n, a, b)
      BY <1>7, <3>1, <3>2, <3>3 DEF HasRead
    <3> QED
      BY <1>2, <3>3, <3>4
  <2>4. CASE n = 0
    <3>1. t = <<>> /\ us = <<Got(1, a)>>
      BY <1>3, <1>4, <1>7, <2>1, <2>2, <2>4, Tuples
    <3>2. r + k = n + 1
      BY <1>7, <2>2, <2>4
    <3> QED
      BY <1>2, <1>7, <3>1, <3>2 DEF HasRead
  <2> QED
    BY <2>3, <2>4
<1>8. CASE r = 0 /\ Asked(p) /\ K = 2 /\ q = <<recv_vector(1), recv_vector(2)>> /\ vs = <<>>
  <2>1. /\ Len(q) = 2 /\ q = <<q[1], q[2]>> /\ q[2] = recv_vector(2)
        /\ Head(q) = recv_vector(1) /\ r < K
    BY <1>8, Tuples
  <2>2. k = 1 /\ c = Data(1, n, e) /\ c.need = n /\ c.id = 1 /\ c.got = e
    BY <1>6, <2>1
  <2>3. r + k = 1
    BY <1>8, <2>2
  <2>4. CASE n > 0
    <3>1. t = <<recv_vector(2), Data(1, n, e)>> /\ us = <<>>
      BY <1>3, <1>8, <2>1, <2>2, <2>4
    <3> QED
      BY <1>2, <1>8, <2>3, <2>4, <3>1 DEF HasRead
  <2>5. CASE n = 0
    <3>1. t = <<recv_vector(2)>> /\ us = <<Got(1, a)>>
      BY <1>3, <1>4, <1>8, <2>1, <2>2, <2>5, Tuples
    <3> QED
      BY <1>2, <1>8, <2>3, <2>5, <3>1 DEF HasRead
  <2> QED
    BY <2>4, <2>5
<1>9. CASE r = 1 /\ Asked(p) /\ K = 2 /\ n = 0 /\ q = <<recv_vector(2)>> /\ vs = <<Got(1, a)>>
  <2>1. Len(q) = 1 /\ q = <<q[1]>> /\ Head(q) = recv_vector(2) /\ r < K
    BY <1>9, Tuples
  <2>2. k = 1 /\ c.need = n /\ c.id = 2 /\ c.got = e
    BY <1>6, <2>1
  <2>3. PICK f, g : f = Got(1, a) /\ g = Got(2, b)
    OBVIOUS
  <2>4. t = <<>> /\ us = Append(<<f>>, g)
    BY <1>3, <1>4, <1>9, <2>1, <2>2, <2>3
  <2>5. us = <<f, g>>
    BY <2>4, Tuples
  <2>6. r + k = 2 + n + n
    BY <1>9, <2>2
  <2> QED
    BY <1>2, <1>9, <2>3, <2>4, <2>5, <2>6 DEF HasRead
<1>10. CASE r = 1 /\ Asked(p) /\ K = 2 /\ n > 0 /\ q = <<recv_vector(2), Data(1, n, e)>> /\ vs = <<>>
  <2>1. /\ Len(q) = 2 /\ q = <<q[1], q[2]>> /\ q[2] = Data(1, n, e)
        /\ Head(q) = recv_vector(2) /\ r < K
    BY <1>10, Tuples
  <2>2. k = 1 /\ c = Data(2, n, e) /\ c.need = n
    BY <1>6, <2>1
  <2>3. t = <<Data(1, n, e), Data(2, n, e)>> /\ us = <<>>
    BY <1>3, <1>10, <2>1, <2>2
  <2>4. r + k = 2
    BY <1>10, <2>2
  <2> QED
    BY <1>2, <1>10, <2>3, <2>4 DEF HasRead
<1>11. CASE r = 2 /\ Asked(p) /\ K = 2 /\ n > 0 /\ q = <<Data(1, n, e), Data(2, n, e)>> /\ vs = <<>>
  <2>1. /\ Len(q) = 2 /\ q = <<q[1], q[2]>> /\ q[2] = Data(2, n, e) /\ Head(q) = Data(1, n, e)
    BY <1>11, Tuples
  <2>2. k = n
    BY <1>2, <1>11, <2>1, Fresh
  <2>3. ASSUME NEW j \in 1 .. n PROVE ws[j] = a[j]
    <3>1. ws[j] = Text(2 + j, n, a, b)
      BY <1>11, <2>2
    <3>2. Text(2 + j, n, a, b) = a[j]
      BY <1>11 DEF Text
    <3> QED
      BY <3>1, <3>2
  <2>4. ~(c.need > 0) /\ Got(c.id, c.got) = Got(1, a)
    <3>1. c = Advanced(Data(1, n, <<>>), ws) /\ Len(ws) = n /\ n > 0
      BY <1>2, <1>11, <2>1, <2>2, Zenon
    <3>2. a \in Seq(Nat) /\ Len(a) = n
      BY <1>4, <1>11
    <3>3. ws = a
      BY <2>3, <3>1, <3>2, Same
    <3>4. Advanced(Data(1, Len(a), <<>>), a) = Data(1, 0, a)
      BY <3>2, <3>3, AllAtOnce
    <3>5. c = Data(1, 0, a)
      BY <3>1, <3>2, <3>3, <3>4, Zenon
    <3>6. c.need = 0 /\ c.id = 1 /\ c.got = a
      BY <3>5 DEF Data
    <3> QED
      BY <3>6
  <2>5. t = <<Data(2, n, e)>> /\ us = <<Got(1, a)>>
    BY <1>3, <1>11, <2>1, <2>4, Tuples
  <2>6. r + k = 2 + n
    BY <1>11, <2>2
  <2> QED
    BY <1>2, <1>11, <2>5, <2>6 DEF HasRead
<1>12. CASE r = 2 + n /\ Asked(p) /\ K = 2 /\ n > 0 /\ q = <<Data(2, n, e)>> /\ vs = <<Got(1, a)>>
  <2>1. Len(q) = 1 /\ q = <<q[1]>> /\ Head(q) = Data(2, n, e)
    BY <1>12, Tuples
  <2>2. k = n
    BY <1>2, <1>12, <2>1, Fresh
  <2>3. ASSUME NEW j \in 1 .. n PROVE ws[j] = b[j]
    <3>1. ws[j] = Text(2 + n + j, n, a, b)
      BY <1>12, <2>2
    <3>2. Text(2 + n + j, n, a, b) = b[j]
      BY <1>12 DEF Text
    <3> QED
      BY <3>1, <3>2
  <2>4. ~(c.need > 0) /\ Got(c.id, c.got) = Got(2, b)
    <3>1. c = Advanced(Data(2, n, <<>>), ws) /\ Len(ws) = n /\ n > 0
      BY <1>2, <1>12, <2>1, <2>2, Zenon
    <3>2. b \in Seq(Nat) /\ Len(b) = n
      BY <1>4, <1>12
    <3>3. ws = b
      BY <2>3, <3>1, <3>2, Same
    <3>4. Advanced(Data(2, Len(b), <<>>), b) = Data(2, 0, b)
      BY <3>2, <3>3, AllAtOnce
    <3>5. c = Data(2, 0, b)
      BY <3>1, <3>2, <3>3, <3>4, Zenon
    <3>6. c.need = 0 /\ c.id = 2 /\ c.got = b
      BY <3>5 DEF Data
    <3> QED
      BY <3>6
  <2>5. PICK f, g : f = Got(1, a) /\ g = Got(2, b)
    OBVIOUS
  <2>6. t = <<>> /\ us = Append(<<f>>, g)
    BY <1>3, <1>12, <2>1, <2>4, <2>5
  <2>7. us = <<f, g>>
    BY <2>6, Tuples
  <2>8. r + k = 2 + n + n
    BY <1>12, <2>2
  <2> QED
    BY <1>2, <1>12, <2>5, <2>6, <2>7, <2>8 DEF HasRead
<1>13. CASE r \in 1 .. n /\ Asked(p) /\ K = 1 /\ Len(q) = 1 /\ q = <<q[1]>> /\ Begun(q[1], r, n, a) /\ vs = <<>>
  <2>1. PICK x : x = q[1] /\ Head(q) = x
    BY <1>13
  <2>2. Part(x, 1, n) /\ Len(x.got) = r - 1 /\ \A i \in 1 .. (r - 1) : x.got[i] = a[i]
    BY <1>13, <2>1 DEF Begun
  <2>3. x.got \in Seq(Nat) /\ x.need \in Nat /\ x.need + Len(x.got) = n
    BY <2>2 DEF Part
  <2>4. PICK m \in Nat, g \in Seq(Nat) : m = x.need /\ g = x.got
    BY <2>3
  <2>5. m + (r - 1) = n /\ Len(g) = r - 1 /\ k <= m
    BY <2>1, <2>2, <2>3, <2>4
  <2>6. /\ c = Data(1, m - k, g \o ws)
        /\ c.need > 0 => Part(c, 1, n)
        /\ ~(c.need > 0) => Full(Got(c.id, c.got), 1, n) /\ c.id = 1
    BY <1>2, <2>1, <2>2, <2>4, <2>5, DataRead, SMTT(60)
  <2>7. PICK u : u = g \o ws
    OBVIOUS
  <2>8. c.need = m - k /\ c.got = u /\ c.id = 1
    BY <2>6, <2>7 DEF Data
  <2>9. /\ u \in Seq(Nat) /\ Len(u) = (r - 1) + k
        /\ \A i \in 1 .. (r - 1) : u[i] = g[i]
        /\ \A i \in 1 .. k : u[(r - 1) + i] = ws[i]
    <3>1. /\ u \in Seq(Nat) /\ Len(u) = Len(g) + Len(ws)
          /\ \A i \in 1 .. Len(g) : u[i] = g[i]
          /\ \A i \in 1 .. Len(ws) : u[Len(g) + i] = ws[i]
      BY <2>7, JoinNats
    <3>2. Len(g) = r - 1 /\ Len(ws) = k
      BY <2>5
    <3> QED
      BY <3>1, <3>2, Zenon
  <2>10. ASSUME NEW i \in 1 .. ((r - 1) + k) PROVE u[i] = a[i]
    <3>1. CASE i <= r - 1
      <4>1. i \in 1 .. (r - 1)
        BY <1>13, <3>1
      <4> QED
        BY <2>2, <2>4, <2>9, <4>1
    <3>2. CASE ~(i <= r - 1)
      <4>1. PICK j \in 1 .. k : i = (r - 1) + j
        <5>1. i - (r - 1) \in 1 .. k /\ i = (r - 1) + (i - (r - 1))
          BY <1>13, <3>2
        <5> QED
          BY <5>1
      <4>2. u[i] = ws[j] /\ ws[j] = Text(r + j, n, a, b)
        BY <2>9, <4>1
      <4>3. Text(r + j, n, a, b) = a[r + j - 1]
        <5>1. ~(r + j <= 1) /\ r + j <= 1 + n
          <6>1. 1 <= r /\ r <= n
            BY <1>13
          <6>2. m + (r - 1) = n /\ k <= m
            BY <2>5
          <6>3. j \in Nat /\ 1 <= j /\ j <= k
            OBVIOUS
          <6> QED
            BY <6>1, <6>2, <6>3
        <5>2. K = 1
          BY <1>13
        <5> QED
          BY <5>1, <5>2 DEF Text
      <4>4. r + j - 1 = i
        BY <1>13, <4>1
      <4> QED
        BY <4>2, <4>3, <4>4
    <3> QED
      BY <3>1, <3>2
  <2>11. CASE c.need > 0
    <3>1. t = <<c>> /\ us = <<>> /\ Part(c, 1, n)
      BY <1>3, <1>13, <2>6, <2>11
    <3>2. Len(t) = 1 /\ t[1] = c
      BY <3>1
    <3>3. r + k \in 1 .. n /\ (r + k) - 1 = (r - 1) + k
      BY <1>13, <2>5, <2>8, <2>11
    <3>4. PICK v \in 1 .. n : v = r + k /\ v - 1 = (r - 1) + k
      BY <3>3
    <3>5. Begun(c, v, n, a)
      BY <2>8, <2>9, <2>10, <3>1, <3>4 DEF Begun
    <3>6. HasRead(p, v, t, us, n, a, b)
      BY <1>13, <3>1, <3>2, <3>5 DEF HasRead
    <3> QED
      BY <1>2, <3>4, <3>6
  <2>12. CASE ~(c.need > 0)
    <3>1. (r - 1) + k = n /\ r + k = n + 1
      BY <1>13, <2>5, <2>8, <2>12
    <3>2. u = a
      <4>1. u \in Seq(Nat) /\ Len(u) = n
        BY <2>9, <3>1, Zenon
      <4>2. \A i \in 1 .. n : u[i] = a[i]
        BY <2>10, <3>1, Zenon
      <4>3. a \in Seq(Nat) /\ Len(a) = n
        BY <1>4
      <4> QED
        BY <4>1, <4>2, <4>3, Same, Zenon
    <3>3. PICK f : f = Got(1, a)
      OBVIOUS
    <3>4. t = <<>> /\ us = Append(<<>>, f)
      BY <1>3, <1>13, <2>8, <2>12, <3>2, <3>3
    <3>5. us = <<f>>
      BY <3>4, Tuples
    <3>6. HasRead(p, n + 1, t, us, n, a, b)
      BY <1>13, <3>3, <3>4, <3>5 DEF HasRead
    <3> QED
      BY <1>2, <3>1, <3>6
  <2> QED
    BY <2>11, <2>12
<1> QED
  BY <1>2, <1>7, <1>8, <1>9, <1>10, <1>11, <1>12, <1>13 DEF HasRead

\* More words in flight, and fewer.
LEMMA FlowGrows ==
  ASSUME NEW w \in Nat, NEW r \in Nat, NEW s \in Seq(Nat), NEW n, NEW a, NEW b,
         Flow(w, r, s, n, a, b), NEW t \in Seq(Nat), NEW k \in Nat, Len(t) = k,
         \A i \in 1 .. k : t[i] = Text(w + i, n, a, b)
  PROVE  Flow(w + k, r, s \o t, n, a, b)
<1>1. PICK u, d : u = s \o t /\ d = w - r
  OBVIOUS
<1>2. d \in Nat /\ Len(s) = d /\ w = r + d /\ \A j \in 1 .. d : s[j] = Text(r + j, n, a, b)
  BY <1>1 DEF Flow
<1>3. /\ Len(u) = Len(s) + Len(t)
      /\ \A i \in 1 .. Len(s) : u[i] = s[i]
      /\ \A i \in 1 .. Len(t) : u[Len(s) + i] = t[i]
  <2>1. /\ Len(s \o t) = Len(s) + Len(t)
        /\ \A i \in 1 .. Len(s) : (s \o t)[i] = s[i]
        /\ \A i \in 1 .. Len(t) : (s \o t)[Len(s) + i] = t[i]
    <3>1. s \in Seq(Nat) /\ t \in Seq(Nat)
      OBVIOUS
    <3> QED
      BY ONLY <3>1, Joining
  <2> QED
    BY <1>1, <2>1, Zenon
<1>4. /\ Len(u) = d + k
      /\ \A i \in 1 .. d : u[i] = s[i]
      /\ \A i \in 1 .. k : u[d + i] = t[i]
  BY <1>2, <1>3
<1>5. ASSUME NEW j \in 1 .. (d + k) PROVE u[j] = Text(r + j, n, a, b)
  <2>1. CASE j \in 1 .. d
    BY <1>2, <1>4, <2>1
  <2>2. CASE j \notin 1 .. d
    <3>1. PICK i \in 1 .. k : j = d + i
      <4>1. j - d \in 1 .. k /\ j = d + (j - d)
        BY <1>2, <2>2
      <4> QED
        BY <4>1
    <3>2. u[j] = Text(w + i, n, a, b)
      BY <1>4, <3>1
    <3>3. w + i = r + j
      BY <1>2, <3>1
    <3> QED
      BY <3>2, <3>3
  <2> QED
    BY <2>1, <2>2
<1>6. (w + k) - r = d + k /\ r <= w + k
  BY <1>2
<1>7. Flow(w + k, r, u, n, a, b)
  BY <1>4, <1>5, <1>6 DEF Flow
<1> QED
  BY <1>1, <1>7

\* What a read takes off the wire is the next part of the text.
LEMMA FlowShrinks ==
  ASSUME NEW w \in Nat, NEW r \in Nat, NEW s \in Seq(Nat), NEW n, NEW a, NEW b,
         Flow(w, r, s, n, a, b), NEW k \in 1 .. Len(s), NEW ws, NEW rest, CutIn(s, k, ws, rest)
  PROVE  /\ Flow(w, r + k, rest, n, a, b)
         /\ \A i \in 1 .. k : ws[i] = Text(r + i, n, a, b)
<1>1. PICK d : d = w - r
  OBVIOUS
<1>2. d \in Nat /\ Len(s) = d /\ w = r + d /\ \A j \in 1 .. d : s[j] = Text(r + j, n, a, b)
  BY <1>1 DEF Flow
<1>3. k \in Nat /\ k <= d /\ k \in 1 .. d
  BY <1>2
<1>4. /\ \A i \in 1 .. k : ws[i] = s[i]
      /\ Len(rest) = d - k /\ \A i \in 1 .. (d - k) : rest[i] = s[k + i]
  BY <1>2 DEF CutIn
<1>5. \A i \in 1 .. k : ws[i] = Text(r + i, n, a, b)
  BY <1>2, <1>3, <1>4
<1>6. ASSUME NEW j \in 1 .. (d - k) PROVE rest[j] = Text((r + k) + j, n, a, b)
  <2>1. k + j \in 1 .. d /\ r + (k + j) = (r + k) + j
    BY <1>2, <1>3
  <2> QED
    BY <1>2, <1>4, <2>1
<1>7. w - (r + k) = d - k /\ r + k <= w
  BY <1>2, <1>3
<1>8. Flow(w, r + k, rest, n, a, b)
  BY <1>4, <1>6, <1>7 DEF Flow
<1> QED
  BY <1>5, <1>8

\* What a step leaves alone.
LEMMA ChainEnds ==
  ASSUME NEW p \in Parties, NEW w, NEW r, NEW q, NEW x, NEW vs, NEW s, NEW n, NEW a, NEW b,
         call' = call
  PROVE  /\ Wrote(p, w, q, n, a, b) /\ (Sent(p)' <=> Sent(p)) => Wrote(p, w, q, n, a, b)'
         /\ HasRead(p, r, x, vs, n, a, b) /\ (Asked(p)' <=> Asked(p)) => HasRead(p, r, x, vs, n, a, b)'
         /\ Flow(w, r, s, n, a, b) => Flow(w, r, s, n, a, b)'
<1>1. K' = K
  BY DEF K
<1>2. Wrote(p, w, q, n, a, b) /\ (Sent(p)' <=> Sent(p)) => Wrote(p, w, q, n, a, b)'
  BY <1>1 DEF Wrote
<1>3. HasRead(p, r, x, vs, n, a, b) /\ (Asked(p)' <=> Asked(p)) => HasRead(p, r, x, vs, n, a, b)'
  BY <1>1 DEF HasRead
<1>4. Flow(w, r, s, n, a, b) => Flow(w, r, s, n, a, b)'
  BY <1>1 DEF Flow, Text
<1> QED
  BY <1>2, <1>3, <1>4

\* The chain of p after a step, from its parts.
LEMMA ChainNow ==
  ASSUME NEW p \in Parties, UNCHANGED <<call, len, aes, dealt>>,
         NEW w \in Nat, NEW r \in Nat, NEW q, NEW x, NEW vs, NEW s, NEW n, NEW a, NEW b,
         n = len[p], a = V(p, 1), b = V(p, 2),
         Wrote(p, w, q, n, a, b)', HasRead(Peer(p), r, x, vs, n, a, b)', Flow(w, r, s, n, a, b)',
         wq'[p] = q, rq'[Peer(p)] = x, vecs'[Peer(p)] = vs, stream'[Peer(p)] = s
  PROVE  Chain(p)'
<1>1. len'[p] = n /\ V(p, 1)' = a /\ V(p, 2)' = b
  BY DEF V, Sends, X, Y, Blind
<1> QED
  BY <1>1 DEF Chain, Wrote, HasRead, Flow, Text

\* A chain on which nothing was started.
LEMMA ChainIdle ==
  ASSUME NEW p \in Parties, ~Sent(p), ~Asked(Peer(p)), wq[p] = <<>>, rq[Peer(p)] = <<>>,
         vecs[Peer(p)] = <<>>, stream[Peer(p)] = <<>>
  PROVE  Chain(p)
<1>1. PICK n, a, b, e : n = len[p] /\ a = V(p, 1) /\ b = V(p, 2) /\ e = <<>> /\ Len(e) = 0
  BY Empty
<1>2. Wrote(p, 0, e, n, a, b) /\ HasRead(Peer(p), 0, e, e, n, a, b)
  BY <1>1 DEF Wrote, HasRead
<1>3. Flow(0, 0, e, n, a, b)
  BY <1>1 DEF Flow
<1> QED
  BY <1>1, <1>2, <1>3 DEF Chain

\* OrderInv holds at the start.
LEMMA OrderInit == Init => OrderInv
<1> SUFFICES ASSUME Init, NEW p \in Parties PROVE Chain(p)
  BY DEF OrderInv
<1>1. ~Sent(p) /\ ~Asked(Peer(p))
  BY Peers DEF Init, Sent, Asked
<1>2. wq[p] = <<>> /\ rq[Peer(p)] = <<>> /\ vecs[Peer(p)] = <<>> /\ stream[Peer(p)] = <<>>
  BY Peers DEF Init
<1> QED
  BY <1>1, <1>2, ChainIdle

\* Nothing is under way while P2 deals.
LEMMA OrderDeal ==
  ASSUME LooseInv, OrderInv, Deal
  PROVE  OrderInv'
<1>1. /\ Given /\ Control /\ Types /\ \A p \in Parties : Link(p)
      /\ call = "dot" /\ st["P2"] = "run"
      /\ UNCHANGED <<call, len, aes, phase, stream, wq, rq, vecs, out, whole>>
  BY DEF LooseInv, Deal
<1>2. ASSUME NEW p \in Parties PROVE Chain(p)'
  <2>1. PICK o \in Parties : o = Peer(p)
    BY Peers
  <2>2. phase[p] = 0 /\ phase[o] = 0
    BY <1>1 DEF Control
  <2>3. ~Sent(p) /\ ~Asked(o) /\ ~Sent(p)' /\ ~Asked(o)'
    BY <1>1, <2>2 DEF Sent, Asked
  <2>4. PICK h \in 0 .. K, g \in 0 .. K :
          /\ Writes(p, h, wq[p]) /\ Reads(o, g, rq[o], vecs[o], len[p])
          /\ Wire(h, g, stream[o], len[p])
    BY <1>1, <2>1 DEF Link
  <2>5. h = 0 /\ g = 0 /\ wq[p] = <<>> /\ rq[o] = <<>> /\ vecs[o] = <<>>
    BY <2>3, <2>4 DEF Writes, Reads
  <2>6. stream[o] = <<>>
    <3>1. K \in {1, 2} /\ stream[o] \in Seq(Nat)
      BY <1>1 DEF K, Types
    <3>2. Len(stream[o]) = 0
      BY <2>4, <2>5, <3>1 DEF Wire
    <3> QED
      BY <3>1, <3>2, Empty
  <2>7. PICK n, a, b, e : n = len'[p] /\ a = V(p, 1)' /\ b = V(p, 2)' /\ e = <<>> /\ Len(e) = 0
    BY Empty
  <2>8. Wrote(p, 0, e, n, a, b)' /\ HasRead(o, 0, e, e, n, a, b)'
    BY <2>3, <2>7 DEF Wrote, HasRead
  <2>9. Flow(0, 0, e, n, a, b)'
    BY <2>7 DEF Flow
  <2>10. wq'[p] = e /\ rq'[o] = e /\ vecs'[o] = e /\ stream'[o] = e
    BY <1>1, <2>5, <2>6, <2>7
  <2> QED
    BY <2>1, <2>7, <2>8, <2>9, <2>10 DEF Chain, Wrote, HasRead, Flow, Text
<1> QED
  BY <1>2 DEF OrderInv

\* A step that changes neither end of a chain.
LEMMA ChainStays ==
  ASSUME NEW p \in Parties, Chain(p), UNCHANGED <<call, len, aes, dealt>>,
         Sent(p)' <=> Sent(p), Asked(Peer(p))' <=> Asked(Peer(p)),
         wq'[p] = wq[p], rq'[Peer(p)] = rq[Peer(p)], vecs'[Peer(p)] = vecs[Peer(p)],
         stream'[Peer(p)] = stream[Peer(p)]
  PROVE  Chain(p)'
<1>1. PICK o \in Parties : o = Peer(p)
  BY Peers
<1>2. PICK q, x, vs, s, n, a, b :
        /\ q = wq[p] /\ x = rq[o] /\ vs = vecs[o] /\ s = stream[o]
        /\ n = len[p] /\ a = V(p, 1) /\ b = V(p, 2)
  OBVIOUS
<1>3. PICK w \in Nat, r \in Nat :
        Wrote(p, w, q, n, a, b) /\ HasRead(o, r, x, vs, n, a, b) /\ Flow(w, r, s, n, a, b)
  BY <1>1, <1>2 DEF Chain
<1>4. Wrote(p, w, q, n, a, b)' /\ HasRead(o, r, x, vs, n, a, b)' /\ Flow(w, r, s, n, a, b)'
  BY <1>1, <1>3, ChainEnds
<1>5. wq'[p] = q /\ rq'[Peer(p)] = x /\ vecs'[Peer(p)] = vs /\ stream'[Peer(p)] = s
  BY <1>1, <1>2
<1> QED
  BY <1>1, <1>2, <1>4, <1>5, ChainNow

\* A new phase starts writes at the beginning of the text, or reads.
LEMMA OrderProceed ==
  ASSUME LooseInv, OrderInv, NEW p \in Parties, Proceed(p)
  PROVE  OrderInv'
<1>1. /\ Given /\ Control /\ Types
      /\ st[p] = "run" /\ wq[p] = <<>> /\ rq[p] = <<>> /\ phase[p] < Len(Plan(p))
      /\ call = "dot" => dealt[p] # None
      /\ phase' = [phase EXCEPT ![p] = @ + 1]
      /\ UNCHANGED <<call, len, aes, st, dealt, stream, vecs, out, whole>>
  BY DEF LooseInv, Proceed, Idle
<1>2. PICK now, us, qs, ws, rs :
        /\ now = Plan(p)[phase[p] + 1]
        /\ us = [i \in DOMAIN Sends(p) |-> send(Sends(p)[i])]
        /\ qs = [i \in DOMAIN Sends(p) |-> recv_vector(i)]
        /\ ws = IF "write" \in now THEN us ELSE <<>>
        /\ rs = IF "read" \in now THEN qs ELSE <<>>
  OBVIOUS
<1>3. wq' = [wq EXCEPT ![p] = ws] /\ rq' = [rq EXCEPT ![p] = rs]
  BY <1>2, Zenon DEF Proceed
<1>4. PICK o \in Parties : o = Peer(p) /\ p = Peer(o) /\ o # p /\ \A q \in Parties : q = p \/ q = o
  BY Peers
<1>5. wq'[p] = ws /\ rq'[p] = rs /\ wq'[o] = wq[o] /\ rq'[o] = rq[o]
  BY <1>1, <1>3, <1>4 DEF Types
<1>6. st["P2"] # "run"
  BY <1>1 DEF Given
<1>7. /\ "write" \in now => ~Sent(p) /\ Sent(p)'
      /\ "write" \notin now => (Sent(p)' <=> Sent(p))
      /\ "read" \in now => ~Asked(p) /\ Asked(p)'
      /\ "read" \notin now => (Asked(p)' <=> Asked(p))
      /\ Sent(o)' <=> Sent(o)
      /\ Asked(o)' <=> Asked(o)
  BY <1>1, <1>2, <1>4, PlanStep, ZenonT(60)
<1>8. /\ K = 1 => us = <<send(V(p, 1))>> /\ qs = <<recv_vector(1)>>
      /\ K = 2 => us = <<send(V(p, 1)), send(V(p, 2))>> /\ qs = <<recv_vector(1), recv_vector(2)>>
  BY <1>1, <1>2, <1>6, Started, Zenon
<1>9. K' = K /\ K \in {1, 2}
  BY <1>1 DEF K
<1>10. SUFFICES ASSUME whole \/ call # "dot", \A q \in Parties : Chain(q) PROVE Chain(p)' /\ Chain(o)'
  BY <1>1, <1>4 DEF OrderInv
<1>11. Chain(p)'
  <2>1. PICK x, vs, s, n, a, b :
        /\ x = rq[o] /\ vs = vecs[o] /\ s = stream[o] /\ n = len[p] /\ a = V(p, 1) /\ b = V(p, 2)
    OBVIOUS
  <2>2. PICK w \in Nat, r \in Nat :
        Wrote(p, w, <<>>, n, a, b) /\ HasRead(o, r, x, vs, n, a, b) /\ Flow(w, r, s, n, a, b)
    BY <1>1, <1>4, <1>10, <2>1 DEF Chain
  <2>3. Wrote(p, w, ws, n, a, b)'
    <3>1. CASE "write" \in now
      <4>1. w = 0 /\ Sent(p)'
        BY <1>7, <2>2, <3>1 DEF Wrote
      <4>2. (K = 1 => ws = <<send(a)>>) /\ (K = 2 => ws = <<send(a), send(b)>>)
        BY <1>2, <1>8, <2>1, <3>1, Zenon
      <4> QED
        BY <1>9, <4>1, <4>2 DEF Wrote
    <3>2. CASE "write" \notin now
      <4>1. ws = <<>>
        BY <1>2, <3>2
      <4>2. Wrote(p, w, ws, n, a, b)
        BY <2>2, <4>1
      <4> QED
        BY <1>1, <1>7, <3>2, <4>2, ChainEnds
    <3> QED
      BY <3>1, <3>2
  <2>4. HasRead(o, r, x, vs, n, a, b)' /\ Flow(w, r, s, n, a, b)'
    BY <1>1, <1>7, <2>2, ChainEnds
  <2>5. wq'[p] = ws /\ rq'[o] = x /\ vecs'[o] = vs /\ stream'[o] = s
    BY <1>1, <1>5, <2>1
  <2> QED
    BY <1>1, <1>4, <2>1, <2>3, <2>4, <2>5, ChainNow
<1>12. Chain(o)'
  <2>1. PICK q, vs, s, n, a, b :
        /\ q = wq[o] /\ vs = vecs[p] /\ s = stream[p] /\ n = len[o] /\ a = V(o, 1) /\ b = V(o, 2)
    OBVIOUS
  <2>2. PICK w \in Nat, r \in Nat :
        Wrote(o, w, q, n, a, b) /\ HasRead(p, r, <<>>, vs, n, a, b) /\ Flow(w, r, s, n, a, b)
    BY <1>1, <1>4, <1>10, <2>1 DEF Chain
  <2>3. HasRead(p, r, rs, vs, n, a, b)'
    <3>1. CASE "read" \in now
      <4>1. r = 0 /\ Asked(p)' /\ vs = <<>>
        BY <1>7, <2>2, <3>1 DEF HasRead
      <4>2. (K = 1 => rs = <<recv_vector(1)>>) /\ (K = 2 => rs = <<recv_vector(1), recv_vector(2)>>)
        BY <1>2, <1>8, <3>1, Zenon
      <4> QED
        BY <1>9, <4>1, <4>2 DEF HasRead
    <3>2. CASE "read" \notin now
      <4>1. rs = <<>>
        BY <1>2, <3>2
      <4>2. HasRead(p, r, rs, vs, n, a, b)
        BY <2>2, <4>1
      <4> QED
        BY <1>1, <1>7, <3>2, <4>2, ChainEnds
    <3> QED
      BY <3>1, <3>2
  <2>4. Wrote(o, w, q, n, a, b)' /\ Flow(w, r, s, n, a, b)'
    BY <1>1, <1>7, <2>2, ChainEnds
  <2>5. wq'[o] = q /\ rq'[p] = rs /\ vecs'[p] = vs /\ stream'[p] = s
    BY <1>1, <1>5, <2>1
  <2> QED
    BY <1>1, <1>4, <2>1, <2>3, <2>4, <2>5, ChainNow, ZenonT(60)
<1> QED
  BY <1>11, <1>12

\* A transfer of a write keeps OrderInv.
LEMMA OrderWrite ==
  ASSUME LooseInv, OrderInv, NEW p \in Parties, Write(p)
  PROVE  OrderInv'
<1>1. Given /\ Control /\ Types
  BY DEF LooseInv
<1>2. PICK k \in Nat, op \in Seq(Nat) :
           /\ wq[p] # <<>> /\ op = Head(Head(wq[p])) /\ Block(op) /\ k \in 1 .. Len(op)
           /\ k + Len(stream[Peer(p)]) <= Cap /\ st["P2"] # "run"
           /\ stream' = [stream EXCEPT ![Peer(p)] = @ \o SubSeq(op, 1, k)]
           /\ wq' = [wq EXCEPT ![p] = AfterWrite(@, k)]
           /\ whole' = (whole /\ k = Len(op))
           /\ UNCHANGED <<call, len, aes, st, phase, dealt, rq, vecs, out>>
  BY WriteStep
<1>3. PICK o \in Parties : o = Peer(p) /\ p = Peer(o) /\ o # p /\ \A q \in Parties : q = p \/ q = o
  BY Peers
<1>4. PICK q, ws, s, t, x, vs, n, a, b :
           /\ q = wq[p] /\ ws = AfterWrite(q, k) /\ s = stream[o] /\ t = SubSeq(op, 1, k)
           /\ x = rq[o] /\ vs = vecs[o] /\ n = len[p] /\ a = V(p, 1) /\ b = V(p, 2)
  OBVIOUS
<1>5. /\ wq' = [wq EXCEPT ![p] = ws] /\ stream' = [stream EXCEPT ![o] = s \o t]
  BY <1>2, <1>3, <1>4
<1>6. op \in Seq(Nat) /\ s \in Seq(Nat) /\ n \in Nat
  BY <1>1, <1>2, <1>4, Params DEF Block, Types
<1>7. t \in Seq(Nat) /\ Len(t) = k /\ \A i \in 1 .. k : t[i] = op[i]
  <2>1. CutIn(op, k, t, SubSeq(op, k + 1, Len(op)))
    BY <1>2, <1>4, <1>6, Cut
  <2> QED
    BY <2>1 DEF CutIn
<1>8. wq'[p] = ws /\ wq'[o] = wq[o] /\ stream'[o] = s \o t /\ stream'[p] = stream[p]
  BY <1>1, <1>3, <1>5 DEF Types
<1>9. SUFFICES ASSUME whole' \/ call # "dot" PROVE Chain(p)' /\ Chain(o)'
  BY <1>2, <1>3 DEF OrderInv
<1>10. Chain(p) /\ Chain(o) /\ (K = 2 => k = Len(op))
  <2>1. (whole \/ call # "dot") /\ (call = "dot" => k = Len(op))
    BY <1>2, <1>9, Zenon
  <2>2. K = 2 => call = "dot"
    BY DEF K
  <2> QED
    BY <2>1, <2>2, Zenon DEF OrderInv
<1>11. IsVec(a, n) /\ (K = 2 => IsVec(b, n))
  BY <1>1, <1>2, <1>4, SendsVec
<1>12. (Sent(p)' <=> Sent(p)) /\ (Asked(o)' <=> Asked(o)) /\ (Sent(o)' <=> Sent(o)) /\ (Asked(p)' <=> Asked(p))
  BY <1>2 DEF Sent, Asked
<1>13. Chain(p)'
  <2>1. PICK w \in Nat, r \in Nat :
        Wrote(p, w, q, n, a, b) /\ HasRead(o, r, x, vs, n, a, b) /\ Flow(w, r, s, n, a, b)
    BY <1>3, <1>4, <1>10 DEF Chain
  <2>2. FirstOp(q, op) /\ k \in 1 .. Len(op)
    BY <1>2, <1>4 DEF FirstOp
  <2>3. Wrote(p, w + k, AfterWrite(q, k), n, a, b) /\ Spells(op, k, w, n, a, b)
    BY <1>6, <1>10, <1>11, <2>1, <2>2, WroteNext
  <2>4. PICK u, v : u = s \o t /\ v = w + k
    OBVIOUS
  <2>5. Flow(v, r, u, n, a, b)
    <3>1. \A i \in 1 .. k : t[i] = Text(w + i, n, a, b)
      BY <1>7, <2>3 DEF Spells
    <3> QED
      BY <1>6, <1>7, <2>1, <2>4, <3>1, FlowGrows
  <2>6. v \in Nat /\ Wrote(p, v, ws, n, a, b)
    BY <1>4, <2>3, <2>4
  <2>7. Wrote(p, v, ws, n, a, b)' /\ HasRead(o, r, x, vs, n, a, b)' /\ Flow(v, r, u, n, a, b)'
    BY <1>2, <1>12, <2>1, <2>5, <2>6, ChainEnds
  <2>8. wq'[p] = ws /\ rq'[o] = x /\ vecs'[o] = vs /\ stream'[o] = u
    BY <1>2, <1>4, <1>8, <2>4
  <2> QED
    BY <1>2, <1>3, <1>4, <2>6, <2>7, <2>8, ChainNow, ZenonT(60)
<1>14. Chain(o)'
  BY <1>2, <1>3, <1>8, <1>10, <1>12, ChainStays
<1> QED
  BY <1>13, <1>14

\* A transfer of a read keeps OrderInv.
LEMMA OrderRead ==
  ASSUME LooseInv, OrderInv, NEW p \in Parties, Read(p)
  PROVE  OrderInv'
<1>1. Given /\ Control /\ Types /\ \A q \in Parties : Link(q)
  BY DEF LooseInv
<1>2. PICK k \in Nat, ws \in Seq(Nat) :
           /\ rq[p] # <<>> /\ k \in 1 .. Head(rq[p]).need /\ k \in 1 .. Len(stream[p])
           /\ ws = SubSeq(stream[p], 1, k)
           /\ stream' = [stream EXCEPT ![p] = SubSeq(@, k + 1, Len(@))]
           /\ rq' = [rq EXCEPT ![p] = AfterRead(@, ws)]
           /\ DOMAIN vecs' = Parties
           /\ \A x \in Parties : vecs'[x] = IF x = p THEN NowHas(rq[p], vecs[p], ws) ELSE vecs[x]
           /\ whole' = (whole /\ k = Head(rq[p]).need)
           /\ UNCHANGED <<call, len, aes, st, phase, dealt, wq, out>>
  BY ReadStep
<1>3. PICK o \in Parties : o = Peer(p) /\ p = Peer(o) /\ o # p /\ \A q \in Parties : q = p \/ q = o
  BY Peers
<1>4. PICK q, vs, s, rest, x, us, w0, n, a, b :
           /\ q = rq[p] /\ vs = vecs[p] /\ s = stream[p] /\ rest = SubSeq(s, k + 1, Len(s))
           /\ x = AfterRead(q, ws) /\ us = NowHas(q, vs, ws) /\ w0 = wq[o]
           /\ n = len[o] /\ a = V(o, 1) /\ b = V(o, 2)
  OBVIOUS
<1>5. /\ rq' = [rq EXCEPT ![p] = x] /\ stream' = [stream EXCEPT ![p] = rest]
  BY <1>2, <1>4, Zenon
<1>6. s \in Seq(Nat) /\ n \in Nat
  BY <1>1, <1>4, Params DEF Types
<1>7. CutIn(s, k, ws, rest)
  BY <1>2, <1>4, <1>6, Cut
<1>8. /\ rq'[p] = x /\ rq'[o] = rq[o] /\ stream'[p] = rest /\ stream'[o] = stream[o]
      /\ vecs'[p] = us /\ vecs'[o] = vecs[o]
  BY <1>1, <1>2, <1>3, <1>4, <1>5 DEF Types
<1>9. SUFFICES ASSUME whole' \/ call # "dot" PROVE Chain(p)' /\ Chain(o)'
  BY <1>2, <1>3 DEF OrderInv
<1>10. Chain(p) /\ Chain(o) /\ (K = 2 => k = Head(q).need)
  <2>1. (whole \/ call # "dot") /\ (call = "dot" => k = Head(q).need)
    BY <1>2, <1>4, <1>9, Zenon
  <2>2. K = 2 => call = "dot"
    BY DEF K
  <2> QED
    BY <2>1, <2>2, Zenon DEF OrderInv
<1>11. st["P2"] # "run"
  <2>1. PICK g \in 0 .. K : Reads(p, g, q, vs, n)
    BY <1>1, <1>3, <1>4 DEF Link
  <2>2. Asked(p)
    BY <1>1, <1>2, <1>4, <1>6, <2>1, ReadHead
  <2> QED
    BY <1>1, <2>2 DEF Asked, Control
<1>12. IsVec(a, n) /\ (K = 2 => IsVec(b, n))
  BY <1>1, <1>4, <1>11, SendsVec
<1>13. (Sent(p)' <=> Sent(p)) /\ (Asked(o)' <=> Asked(o)) /\ (Sent(o)' <=> Sent(o)) /\ (Asked(p)' <=> Asked(p))
  BY <1>2 DEF Sent, Asked
<1>14. Chain(o)'
  <2>1. PICK w \in Nat, r \in Nat :
        Wrote(o, w, w0, n, a, b) /\ HasRead(p, r, q, vs, n, a, b) /\ Flow(w, r, s, n, a, b)
    BY <1>3, <1>4, <1>10 DEF Chain
  <2>2. k \in 1 .. Len(s) /\ q # <<>>
    BY <1>2, <1>4
  <2>3. Flow(w, r + k, rest, n, a, b) /\ \A i \in 1 .. k : ws[i] = Text(r + i, n, a, b)
    BY <1>6, <1>7, <2>1, <2>2, FlowShrinks
  <2>4. ws \in Seq(Nat) /\ Len(ws) = k /\ ws # <<>>
    <3>1. ws \in Seq(Nat) /\ Len(ws) = k /\ k # 0
      BY <1>7, <2>2 DEF CutIn
    <3> QED
      BY <3>1, Empty
  <2>5. k <= Head(q).need
    BY <1>2, <1>4
  <2>6. HasRead(p, r + k, x, us, n, a, b)
    <3>1. HasRead(p, r + k, AfterRead(q, ws), NowHas(q, vs, ws), n, a, b)
      BY <1>6, <1>10, <1>12, <2>1, <2>2, <2>3, <2>4, <2>5, HasReadNext
    <3> QED
      BY <1>4, <3>1
  <2>7. PICK v \in Nat : v = r + k
    OBVIOUS
  <2>8. Wrote(o, w, w0, n, a, b)' /\ HasRead(p, v, x, us, n, a, b)' /\ Flow(w, v, rest, n, a, b)'
    BY <1>2, <1>13, <2>1, <2>3, <2>6, <2>7, ChainEnds
  <2>9. wq'[o] = w0 /\ rq'[p] = x /\ vecs'[p] = us /\ stream'[p] = rest
    BY <1>2, <1>4, <1>8
  <2> QED
    <3>1. UNCHANGED <<call, len, aes, dealt>>
      BY <1>2
    <3> QED
      BY <1>3, <1>4, <2>8, <2>9, <3>1, ChainNow, ZenonT(60)
<1>15. Chain(p)'
  BY <1>2, <1>3, <1>8, <1>10, <1>13, ChainStays
<1> QED
  BY <1>14, <1>15

\* Every step keeps OrderInv.
LEMMA OrderStep == LooseInv /\ OrderInv /\ [Next]_vars => OrderInv'
<1> SUFFICES ASSUME LooseInv, OrderInv, [Next]_vars PROVE OrderInv'
  OBVIOUS
<1>1. ASSUME UNCHANGED <<call, len, aes, phase, dealt, stream, wq, rq, vecs, whole>> PROVE OrderInv'
  <2>1. SUFFICES ASSUME NEW p \in Parties, Chain(p) PROVE Chain(p)'
    BY <1>1 DEF OrderInv
  <2>2. (Sent(p)' <=> Sent(p)) /\ (Asked(Peer(p))' <=> Asked(Peer(p)))
    BY <1>1 DEF Sent, Asked
  <2> QED
    BY <1>1, <2>1, <2>2, ChainStays
<1>2. CASE Deal
  BY <1>2, OrderDeal
<1>3. ASSUME NEW p \in Parties, Finish(p) PROVE OrderInv'
  BY <1>1, <1>3 DEF Finish
<1>4. CASE \E p \in Parties : PartyStep(p)
  BY <1>3, <1>4, OrderProceed, OrderWrite, OrderRead DEF PartyStep
<1>5. CASE UNCHANGED vars
  BY <1>1, <1>5 DEF vars
<1> QED
  BY <1>2, <1>4, <1>5 DEF Next

\* OrderInv is an invariant.
LEMMA OrderAlways == Spec => [](LooseInv /\ OrderInv)
BY LooseInit, LooseStep, OrderInit, OrderStep, PTL DEF Spec

\* What a chain says of the vectors that have been read.
LEMMA ChainSays ==
  ASSUME NEW p \in Parties, Chain(Peer(p))
  PROVE  \A i \in DOMAIN vecs[p] : vecs[p][i].val = Sends(Peer(p))[vecs[p][i].id]
<1>1. PICK o \in Parties : o = Peer(p) /\ p = Peer(o)
  BY Peers
<1>2. PICK vs, n, a, b, f, g : /\ vs = vecs[p] /\ n = len[o] /\ a = V(o, 1) /\ b = V(o, 2)
                               /\ f = Got(1, a) /\ g = Got(2, b)
  OBVIOUS
<1>3. PICK r \in Nat : HasRead(p, r, rq[p], vs, n, a, b)
  BY <1>1, <1>2 DEF Chain
<1>4. vs = <<>> \/ vs = <<f>> \/ vs = <<f, g>>
  BY <1>2, <1>3 DEF HasRead
<1>5. f.id = 1 /\ f.val = a /\ g.id = 2 /\ g.val = b
  BY <1>2 DEF Got
<1>6. \A i \in DOMAIN vs : vs[i] = f \/ vs[i] = g
  BY <1>4
<1> QED
  BY <1>1, <1>2, <1>5, <1>6 DEF V

\* As long as every transfer moved its whole buffer, the vectors that are read
\* are the ones that were sent, although the lengths and the data of the two
\* vectors of mpc_dotproduct are interleaved on the wire.
THEOREM IntactCorrect == Spec => []IntactWhenWhole
<1>1. ASSUME OrderInv PROVE IntactWhenWhole
  BY <1>1, Peers, ChainSays DEF OrderInv, IntactWhenWhole
<1> QED
  BY <1>1, OrderAlways, PTL

\* A vector that has the socket for itself (reconstruct_remote_vector and
\* reconstruct_with_ctx) arrives intact however its transfers are cut up.
THEOREM AloneCorrect == Spec => []AloneIntact
<1>1. ASSUME OrderInv PROVE AloneIntact
  BY <1>1, Peers, ChainSays DEF OrderInv, AloneIntact
<1> QED
  BY <1>1, OrderAlways, PTL

-----------------------------------------------------------------------------
(* The shares of the dot product.                                          *)

\* Equal up to wrapping around.
Cong(a, b) == a \in Int /\ b \in Int /\ \E q \in Int : a = b + Modulus * q

\* Congruence is an equivalence, and wrapping does not change the class.
LEMMA CongRules ==
  /\ \A a \in Int : Cong(a, a) /\ Cong(Wrap(a), a)
  /\ \A a, b : Cong(a, b) => Cong(b, a) /\ Wrap(a) = Wrap(b)
  /\ \A a, b, c : Cong(a, b) /\ Cong(b, c) => Cong(a, c)
<1> DEFINE m == Modulus
<1>m. m \in Nat \ {0}
  BY WordSize
<1> HIDE DEF m
<1>1. ASSUME NEW a \in Int PROVE Cong(a, a) /\ Cong(Wrap(a), a)
  <2>1. a = a + m * 0 /\ 0 \in Int
    BY <1>m
  <2>2. Cong(a, a)
    BY <2>1 DEF Cong, m
  <2>3. PICK q \in Int : a = m * q + (a % m)
    BY <1>m, DivMod
  <2>4. PICK r : r = a % m /\ r \in 0 .. (m - 1)
    BY <1>m, DivMod
  <2>5. r \in Int /\ r = a + m * (-q) /\ -q \in Int
    BY <1>m, <2>3, <2>4
  <2>6. Cong(r, a)
    BY <2>5 DEF Cong, m
  <2> QED
    BY <2>2, <2>4, <2>6 DEF Wrap, m
<1>2. ASSUME NEW a, NEW b, Cong(a, b) PROVE Cong(b, a) /\ Wrap(a) = Wrap(b)
  <2>1. PICK q \in Int : a \in Int /\ b \in Int /\ a = b + m * q
    BY <1>2 DEF Cong, m
  <2>2. b = a + m * (-q) /\ -q \in Int
    BY <1>m, <2>1
  <2>3. Cong(b, a)
    BY <2>1, <2>2 DEF Cong, m
  <2>4. (b + m * q) % m = b % m
    BY <1>m, <2>1, ModShift
  <2> QED
    BY <2>1, <2>3, <2>4 DEF Wrap, m
<1>3. ASSUME NEW a, NEW b, NEW c, Cong(a, b), Cong(b, c) PROVE Cong(a, c)
  <2>1. PICK q \in Int : a \in Int /\ b \in Int /\ a = b + m * q
    BY <1>3 DEF Cong, m
  <2>2. PICK r \in Int : c \in Int /\ b = c + m * r
    BY <1>3 DEF Cong, m
  <2>3. a = c + m * (q + r) /\ q + r \in Int
    BY <1>m, <2>1, <2>2
  <2> QED
    BY <2>1, <2>2, <2>3 DEF Cong, m
<1> QED
  BY <1>1, <1>2, <1>3

\* Congruence is respected by sums, differences and multiples.
LEMMA CongArith ==
  ASSUME NEW a, NEW b, NEW c, NEW d, Cong(a, b), Cong(c, d), NEW x \in Int
  PROVE  Cong(a + c, b + d) /\ Cong(a - c, b - d) /\ Cong(x * c, x * d)
<1> DEFINE m == Modulus
<1>m. m \in Nat \ {0}
  BY WordSize
<1> HIDE DEF m
<1>1. PICK q \in Int : a \in Int /\ b \in Int /\ a = b + m * q
  BY DEF Cong, m
<1>2. PICK r \in Int : c \in Int /\ d \in Int /\ c = d + m * r
  BY DEF Cong, m
<1>3. a + c = (b + d) + m * (q + r) /\ q + r \in Int /\ a + c \in Int /\ b + d \in Int
  BY <1>m, <1>1, <1>2
<1>4. a - c = (b - d) + m * (q - r) /\ q - r \in Int /\ a - c \in Int /\ b - d \in Int
  BY <1>m, <1>1, <1>2
<1>5. x * c = x * d + m * (x * r) /\ x * r \in Int /\ x * c \in Int /\ x * d \in Int
  <2>1. x * c = x * (d + m * r)
    BY <1>2
  <2>2. x * (d + m * r) = x * d + m * (x * r)
    BY <1>m, <1>2
  <2> QED
    BY <1>2, <2>1, <2>2
<1>6. Cong(a + c, b + d)
  BY <1>3 DEF Cong, m
<1>7. Cong(a - c, b - d)
  BY <1>4 DEF Cong, m
<1>8. Cong(x * c, x * d)
  BY <1>5 DEF Cong, m
<1> QED
  BY <1>6, <1>7, <1>8

\* One more element of the vectors.
LEMMA SumStep ==
  ASSUME NEW A \in Int, NEW B \in Int, NEW C \in Int, NEW x \in Int, NEW y \in Int, NEW v \in Int,
         Cong(A, B + C)
  PROVE  Cong(Wrap(A + x * Wrap(y + v)), Wrap(B + x * y) + Wrap(C + x * v))
<1>1. PICK s, t, d, e : s = y + v /\ t = Wrap(s) /\ d = x * y /\ e = x * v
  OBVIOUS
<1>2. s \in Int /\ d \in Int /\ e \in Int
  BY <1>1
<1>3. Cong(t, s)
  BY <1>1, <1>2, CongRules
<1>4. Cong(x * t, x * s)
  BY <1>3, CongArith
<1>5. x * s = d + e
  <2>1. x * (y + v) = x * y + x * v
    OBVIOUS
  <2> QED
    BY <1>1, <2>1
<1>6. PICK f : f = x * t /\ Cong(f, d + e)
  BY <1>4, <1>5
<1>7. Cong(A + f, (B + C) + (d + e))
  BY <1>6, CongArith
<1>8. A + f \in Int
  BY <1>7 DEF Cong
<1>9. Cong(Wrap(A + f), A + f)
  BY <1>8, CongRules
<1>10. Cong(Wrap(A + f), (B + C) + (d + e))
  BY <1>7, <1>9, CongRules
<1>11. B + d \in Int /\ C + e \in Int
  BY <1>2
<1>12. Cong(Wrap(B + d), B + d) /\ Cong(Wrap(C + e), C + e)
  BY <1>11, CongRules
<1>13. Cong(Wrap(B + d) + Wrap(C + e), (B + d) + (C + e))
  BY <1>12, CongArith
<1>14. (B + d) + (C + e) = (B + C) + (d + e)
  BY <1>2
<1>15. Cong(Wrap(A + f), Wrap(B + d) + Wrap(C + e))
  BY <1>10, <1>13, <1>14, CongRules
<1> QED
  BY <1>1, <1>6, <1>15

\* A product with a sum is the sum of the products.
LEMMA TimesPlus ==
  ASSUME NEW n \in Nat, NEW a \in Seq(Nat), NEW b \in Seq(Nat), NEW c \in Seq(Nat),
         Len(a) = n, Len(b) = n, Len(c) = n
  PROVE  Cong(Times(a, Plus(b, c)), Times(a, b) + Times(a, c))
<1>1. PICK e : e = Plus(b, c)
  OBVIOUS
<1>2. IsVec(e, n) /\ \A i \in 1 .. n : e[i] = Wrap(b[i] + c[i])
  BY <1>1, PlusVec
<1>3. e \in Seq(Nat) /\ Len(e) = n
  BY <1>2, VecNat
<1>4. PICK f : /\ f[0] = 0 /\ \A i \in 1 .. n : f[i] = Wrap(f[i - 1] + a[i] * e[i])
               /\ \A i \in 0 .. n : f[i] \in AWord
               /\ Times(a, e) = f[n]
  BY <1>3, TimesSums
<1>5. PICK g : /\ g[0] = 0 /\ \A i \in 1 .. n : g[i] = Wrap(g[i - 1] + a[i] * b[i])
               /\ \A i \in 0 .. n : g[i] \in AWord
               /\ Times(a, b) = g[n]
  BY TimesSums
<1>6. PICK h : /\ h[0] = 0 /\ \A i \in 1 .. n : h[i] = Wrap(h[i - 1] + a[i] * c[i])
               /\ \A i \in 0 .. n : h[i] \in AWord
               /\ Times(a, c) = h[n]
  BY TimesSums
<1> DEFINE U == {k \in Nat : k <= n => Cong(f[k], g[k] + h[k])}
<1>7. 0 \in U
  <2>1. Cong(0, 0)
    BY CongRules
  <2>2. g[0] + h[0] = 0
    BY <1>5, <1>6
  <2> QED
    BY <1>4, <2>1, <2>2
<1>8. ASSUME NEW k \in Nat, k \in U PROVE k + 1 \in U
  <2>1. SUFFICES ASSUME k + 1 <= n PROVE Cong(f[k + 1], g[k + 1] + h[k + 1])
    OBVIOUS
  <2>2. k + 1 \in 1 .. n /\ (k + 1) - 1 = k /\ k <= n /\ k \in 0 .. n
    BY <2>1
  <2>3. PICK A, B, C, x, y, v :
          A = f[k] /\ B = g[k] /\ C = h[k] /\ x = a[k + 1] /\ y = b[k + 1] /\ v = c[k + 1]
    OBVIOUS
  <2>4. A \in AWord /\ B \in AWord /\ C \in AWord
    BY <1>4, <1>5, <1>6, <2>2, <2>3
  <2>5. AWord \subseteq Nat
    BY Words1
  <2>6. A \in Int /\ B \in Int /\ C \in Int
    BY <2>4, <2>5
  <2>7. x \in Int /\ y \in Int /\ v \in Int
    <3>1. x \in Nat /\ y \in Nat /\ v \in Nat
      BY <2>2, <2>3
    <3> QED
      BY <3>1
  <2>8. Cong(A, B + C)
    BY <1>8, <2>2, <2>3
  <2>9. e[k + 1] = Wrap(y + v)
    BY <1>2, <2>2, <2>3
  <2>10. f[k + 1] = Wrap(A + x * Wrap(y + v))
    BY <1>4, <2>2, <2>3, <2>9
  <2>11. g[k + 1] = Wrap(B + x * y)
    BY <1>5, <2>2, <2>3
  <2>12. h[k + 1] = Wrap(C + x * v)
    BY <1>6, <2>2, <2>3
  <2>13. Cong(Wrap(A + x * Wrap(y + v)), Wrap(B + x * y) + Wrap(C + x * v))
    BY <2>6, <2>7, <2>8, SumStep
  <2> QED
    BY <2>10, <2>11, <2>12, <2>13, Zenon
<1>9. n \in U
  <2> HIDE DEF U
  <2>1. Nat \subseteq U
    BY <1>7, <1>8, Induction
  <2> QED
    BY <2>1
<1>10. Cong(f[n], g[n] + h[n])
  BY <1>9
<1> QED
  BY <1>1, <1>4, <1>5, <1>6, <1>10, Zenon

\* The order of the factors does not matter.
LEMMA TimesCommutes ==
  ASSUME NEW n \in Nat, NEW a \in Seq(Nat), NEW b \in Seq(Nat), Len(a) = n, Len(b) = n
  PROVE  Times(a, b) = Times(b, a)
<1>1. PICK f : /\ f[0] = 0 /\ \A i \in 1 .. n : f[i] = Wrap(f[i - 1] + a[i] * b[i])
               /\ \A i \in 0 .. n : f[i] \in AWord
               /\ Times(a, b) = f[n]
  BY TimesSums
<1>2. PICK g : /\ g[0] = 0 /\ \A i \in 1 .. n : g[i] = Wrap(g[i - 1] + b[i] * a[i])
               /\ \A i \in 0 .. n : g[i] \in AWord
               /\ Times(b, a) = g[n]
  BY TimesSums
<1> DEFINE U == {k \in Nat : k <= n => f[k] = g[k]}
<1>3. 0 \in U
  BY <1>1, <1>2
<1>4. ASSUME NEW k \in Nat, k \in U PROVE k + 1 \in U
  <2>1. SUFFICES ASSUME k + 1 <= n PROVE f[k + 1] = g[k + 1]
    OBVIOUS
  <2>2. k + 1 \in 1 .. n /\ (k + 1) - 1 = k /\ k <= n
    BY <2>1
  <2>3. PICK x, y : x = a[k + 1] /\ y = b[k + 1]
    OBVIOUS
  <2>4. x \in Nat /\ y \in Nat
    BY <2>2, <2>3
  <2>5. x * y = y * x
    BY <2>4
  <2>6. f[k] = g[k]
    BY <1>4, <2>2
  <2>7. f[k + 1] = Wrap(f[k] + x * y)
    BY <1>1, <2>2, <2>3
  <2>8. g[k + 1] = Wrap(g[k] + y * x)
    BY <1>2, <2>2, <2>3
  <2> QED
    BY <2>5, <2>6, <2>7, <2>8, Zenon
<1>5. n \in U
  <2> HIDE DEF U
  <2>1. Nat \subseteq U
    BY <1>3, <1>4, Induction
  <2> QED
    BY <2>1
<1> QED
  BY <1>1, <1>2, <1>5

\* Numbers to multiply, and the share of a party: x and y are its own vectors,
\* p and q what blinds them; yo, qo, xo, po are those of its peer.
IsNums(v, n) == v \in Seq(Nat) /\ Len(v) = n
ShareOf(x, y, p, q, xo, yo, po, qo) ==
  Wrap(Times(x, Plus(y, Plus(yo, qo))) - Times(q, Plus(xo, po)) + Times(p, qo))

\* Products of vectors commute, and distribute over Plus up to congruence.
LEMMA NumsRules ==
  ASSUME NEW n \in Nat, NEW a, NEW b, NEW c, IsNums(a, n), IsNums(b, n), IsNums(c, n)
  PROVE  /\ IsNums(Plus(a, b), n) /\ Times(a, b) \in Int /\ Times(a, b) = Times(b, a)
         /\ Cong(Times(a, Plus(b, c)), Times(a, b) + Times(a, c))
<1>1. a \in Seq(Nat) /\ b \in Seq(Nat) /\ c \in Seq(Nat) /\ Len(a) = n /\ Len(b) = n /\ Len(c) = n
  BY DEF IsNums
<1>2. IsVec(Plus(a, b), n)
  BY <1>1, PlusVec
<1>3. IsNums(Plus(a, b), n)
  BY <1>2, VecNat DEF IsNums
<1>4. Times(a, b) \in Nat
  BY <1>1, TimesWord
<1>5. Times(a, b) = Times(b, a)
  BY <1>1, TimesCommutes
<1>6. Cong(Times(a, Plus(b, c)), Times(a, b) + Times(a, c))
  BY <1>1, TimesPlus
<1> QED
  BY <1>3, <1>4, <1>5, <1>6

\* The share of a party, multiplied out.
LEMMA ShareCong ==
  ASSUME NEW n \in Nat, NEW x, NEW y, NEW p, NEW q, NEW xo, NEW yo, NEW po, NEW qo,
         IsNums(x, n), IsNums(y, n), IsNums(p, n), IsNums(q, n),
         IsNums(xo, n), IsNums(yo, n), IsNums(po, n), IsNums(qo, n)
  PROVE  Cong(ShareOf(x, y, p, q, xo, yo, po, qo),
              (Times(x, y) + (Times(x, yo) + Times(x, qo)))
                - (Times(q, xo) + Times(q, po)) + Times(p, qo))
<1>1. PICK u, v : u = Plus(yo, qo) /\ v = Plus(xo, po)
  OBVIOUS
<1>2. IsNums(u, n) /\ IsNums(v, n)
  BY <1>1, NumsRules
<1>3. PICK a, b, c : a = Times(x, y) /\ b = Times(x, yo) /\ c = Times(x, qo)
  OBVIOUS
<1>4. PICK d, e, f : d = Times(q, xo) /\ e = Times(q, po) /\ f = Times(p, qo)
  OBVIOUS
<1>5. a \in Int /\ b \in Int /\ c \in Int /\ d \in Int /\ e \in Int /\ f \in Int
  BY <1>3, <1>4, NumsRules
<1>6. PICK g, h, k : g = Times(x, Plus(y, u)) /\ h = Times(x, u) /\ k = Times(q, v)
  OBVIOUS
<1>7. Cong(g, a + h)
  BY <1>2, <1>3, <1>6, NumsRules
<1>8. Cong(h, b + c)
  BY <1>1, <1>3, <1>6, NumsRules
<1>9. Cong(k, d + e)
  BY <1>1, <1>4, <1>6, NumsRules
<1>10. Cong(a, a) /\ Cong(f, f)
  BY <1>5, CongRules
<1>11. Cong(a + h, a + (b + c))
  BY <1>8, <1>10, CongArith
<1>12. Cong(g, a + (b + c))
  BY <1>7, <1>11, CongRules
<1>13. Cong(g - k, (a + (b + c)) - (d + e))
  BY <1>9, <1>12, CongArith
<1>14. Cong(g - k + f, (a + (b + c)) - (d + e) + f)
  BY <1>10, <1>13, CongArith
<1>15. g - k + f \in Int
  BY <1>14 DEF Cong
<1>16. Cong(Wrap(g - k + f), g - k + f)
  BY <1>15, CongRules
<1>17. Cong(Wrap(g - k + f), (a + (b + c)) - (d + e) + f)
  BY <1>14, <1>16, CongRules
<1>18. ShareOf(x, y, p, q, xo, yo, po, qo) = Wrap(g - k + f)
  BY <1>1, <1>4, <1>6, Zenon DEF ShareOf
<1> QED
  BY <1>3, <1>4, <1>17, <1>18, Zenon

\* The two shares add up to the product of the sums.
LEMMA DotAlgebra ==
  ASSUME NEW n \in Nat, NEW x, NEW y, NEW p, NEW q, NEW xo, NEW yo, NEW po, NEW qo,
         IsNums(x, n), IsNums(y, n), IsNums(p, n), IsNums(q, n),
         IsNums(xo, n), IsNums(yo, n), IsNums(po, n), IsNums(qo, n)
  PROVE  Wrap(ShareOf(x, y, p, q, xo, yo, po, qo) + ShareOf(xo, yo, po, qo, x, y, p, q))
           = Times(Plus(x, xo), Plus(y, yo))
<1>1. PICK s, t : s = ShareOf(x, y, p, q, xo, yo, po, qo) /\ t = ShareOf(xo, yo, po, qo, x, y, p, q)
  OBVIOUS
<1>2. PICK a, b, c, d : a = Times(x, y) /\ b = Times(x, yo) /\ c = Times(xo, y) /\ d = Times(xo, yo)
  OBVIOUS
<1>3. PICK e, f, g, h : e = Times(x, qo) /\ f = Times(xo, q) /\ g = Times(p, qo) /\ h = Times(po, q)
  OBVIOUS
<1>4. a \in Int /\ b \in Int /\ c \in Int /\ d \in Int
  BY <1>2, NumsRules
<1>5. e \in Int /\ f \in Int /\ g \in Int /\ h \in Int
  BY <1>3, NumsRules
<1>6. f = Times(q, xo) /\ h = Times(q, po) /\ e = Times(qo, x) /\ g = Times(qo, p)
  BY <1>3, NumsRules
<1>7. Cong(s, (a + (b + e)) - (f + h) + g)
  BY <1>1, <1>2, <1>3, <1>6, ShareCong
<1>8. Cong(t, (d + (c + f)) - (e + g) + h)
  BY <1>1, <1>2, <1>3, <1>6, ShareCong
<1>9. Cong(s + t, ((a + (b + e)) - (f + h) + g) + ((d + (c + f)) - (e + g) + h))
  BY <1>7, <1>8, CongArith
<1>10. ((a + (b + e)) - (f + h) + g) + ((d + (c + f)) - (e + g) + h) = (a + b) + (c + d)
  BY <1>4, <1>5
<1>11. Cong(s + t, (a + b) + (c + d))
  BY <1>9, <1>10
<1>12. PICK u, v, w : u = Plus(x, xo) /\ v = Plus(y, yo) /\ w = Times(u, v)
  OBVIOUS
<1>13. IsNums(u, n) /\ IsNums(v, n)
  BY <1>12, NumsRules
<1>14. w = Times(v, u) /\ Times(x, v) = Times(v, x) /\ Times(xo, v) = Times(v, xo)
  BY <1>12, <1>13, NumsRules
<1>15. Cong(Times(v, u), Times(v, x) + Times(v, xo))
  BY <1>12, <1>13, NumsRules
<1>16. PICK i, j : i = Times(x, v) /\ j = Times(xo, v)
  OBVIOUS
<1>17. Cong(w, i + j)
  BY <1>14, <1>15, <1>16
<1>18. Cong(i, a + b) /\ Cong(j, c + d)
  BY <1>2, <1>12, <1>16, NumsRules
<1>19. Cong(i + j, (a + b) + (c + d))
  BY <1>18, CongArith
<1>20. Cong(s + t, w)
  BY <1>11, <1>17, <1>19, CongRules
<1>21. Wrap(s + t) = Wrap(w)
  BY <1>20, CongRules
<1>22. Wrap(w) = w
  <2>1. w \in AWord
    BY <1>12, <1>13, TimesWord DEF IsNums
  <2>2. Modulus \in Nat \ {0}
    BY Words1
  <2>3. w \in 0 .. (Modulus - 1)
    BY <2>1 DEF AWord
  <2>4. PICK m \in Nat \ {0} : m = Modulus /\ w \in 0 .. (m - 1)
    BY <2>2, <2>3
  <2>5. w \in Int /\ w = m * 0 + w /\ 0 \in Int
    BY <2>4
  <2>6. w % m = w
    BY <2>4, <2>5, ModUnique
  <2> QED
    BY <2>4, <2>6 DEF Wrap
<1> QED
  BY <1>1, <1>12, <1>21, <1>22

\* A result is the share that the party computed when its call ended.
Ended == \A p \in Parties : out[p] # None => call = "dot" /\ st[p] # "run" /\ out[p] = z(p)

\* There are no results at the start.
LEMMA EndedInit == Init => Ended
BY DEF Init, Ended

\* What a share depends on.
LEMMA zStays ==
  ASSUME NEW p \in Parties, UNCHANGED <<call, len, aes, dealt>>, vecs'[p] = vecs[p]
  PROVE  z(p)' = z(p)
BY DEF z, X, Y, Blind, Received

\* A call that ended has read everything, and dealer2 has ended before it.
LEMMA OverAndDealt ==
  ASSUME Control, NEW p \in Parties, st[p] # "run"
  PROVE  rq[p] = <<>> /\ phase[p] = Len(Plan(p)) /\ phase[p] > 0 /\ st["P2"] # "run"
<1>1. rq[p] = <<>> /\ phase[p] = Len(Plan(p))
  BY DEF Control
<1>2. Len(Plan(p)) \in {1, 2}
  BY DEF Plan
<1>3. phase[p] > 0
  BY <1>1, <1>2
<1>4. phase[p] > 0 => st["P2"] # "run"
  BY DEF Control
<1> QED
  BY <1>1, <1>3, <1>4

\* Every step keeps Ended: results appear at the end and nothing they depend on changes after.
LEMMA EndedStep == LooseInv /\ Ended /\ [Next]_vars => Ended'
<1> SUFFICES ASSUME LooseInv, Ended, [Next]_vars, NEW p \in Parties, out'[p] # None
             PROVE  call' = "dot" /\ st'[p] # "run" /\ out'[p] = z(p)'
  BY DEF Ended
<1>1. Given /\ Control /\ Types
  BY DEF LooseInv
<1>2. out[p] # None => /\ call = "dot" /\ st[p] # "run" /\ out[p] = z(p)
                       /\ rq[p] = <<>> /\ phase[p] > 0 /\ st["P2"] # "run"
  <2> SUFFICES ASSUME out[p] # None
               PROVE  /\ call = "dot" /\ st[p] # "run" /\ out[p] = z(p)
                      /\ rq[p] = <<>> /\ phase[p] > 0 /\ st["P2"] # "run"
    OBVIOUS
  <2>1. call = "dot" /\ st[p] # "run" /\ out[p] = z(p)
    BY DEF Ended
  <2> QED
    BY <1>1, <2>1, OverAndDealt
<1>3. ASSUME UNCHANGED <<call, len, aes, dealt>>, vecs'[p] = vecs[p], st' = st, out' = out
      PROVE  call' = "dot" /\ st'[p] # "run" /\ out'[p] = z(p)'
  <2>1. z(p)' = z(p)
    BY <1>3, zStays
  <2> QED
    BY <1>2, <1>3, <2>1
<1>4. CASE Deal
  <2>1. st["P2"] = "run" /\ out' = out
    BY <1>4 DEF Deal
  <2> QED
    BY <1>2, <2>1
<1>5. ASSUME NEW q \in Parties, Proceed(q) PROVE call' = "dot" /\ st'[p] # "run" /\ out'[p] = z(p)'
  BY <1>3, <1>5 DEF Proceed
<1>6. ASSUME NEW q \in Parties, Write(q) PROVE call' = "dot" /\ st'[p] # "run" /\ out'[p] = z(p)'
  BY <1>3, <1>6 DEF Write
<1>7. ASSUME NEW q \in Parties, Read(q) PROVE call' = "dot" /\ st'[p] # "run" /\ out'[p] = z(p)'
  <2>1. PICK k, ws :
           /\ rq[q] # <<>>
           /\ \A x \in Parties : vecs'[x] = IF x = q THEN NowHas(rq[q], vecs[q], ws) ELSE vecs[x]
           /\ UNCHANGED <<call, len, aes, st, phase, dealt, wq, out>>
    BY <1>7, ReadStep
  <2>2. out[p] # None
    BY <2>1
  <2>3. p # q
    BY <1>2, <2>1, <2>2
  <2>4. vecs'[p] = vecs[p]
    BY <2>1, <2>3
  <2> QED
    BY <1>3, <2>1, <2>4
<1>8. ASSUME NEW q \in Parties, Finish(q) PROVE call' = "dot" /\ st'[p] # "run" /\ out'[p] = z(p)'
  <2>1. /\ st[q] = "run" /\ UNCHANGED <<call, len, aes, phase, dealt, stream, wq, rq, vecs, whole>>
    BY <1>8 DEF Finish, Idle
  <2>2. z(p)' = z(p)
    BY <2>1, zStays
  <2>3. PICK e \in {"done", "threw"} : st' = [st EXCEPT ![q] = e]
    BY <1>8 DEF Finish
  <2>4. st'[p] = IF p = q THEN e ELSE st[p]
    BY <1>1, <2>3, Peers DEF Given
  <2>5. CASE out' = out
    BY <1>2, <2>1, <2>2, <2>4, <2>5
  <2>6. CASE out' # out
    <3>1. call = "dot" /\ out' = [out EXCEPT ![q] = z(q)]
      BY <1>8, <2>6 DEF Finish
    <3>2. out'[p] = IF p = q THEN z(q) ELSE out[p]
      BY <1>1, <3>1 DEF Types
    <3>3. CASE p = q
      BY <2>1, <2>2, <2>4, <3>1, <3>2, <3>3
    <3>4. CASE p # q
      BY <1>2, <2>1, <2>2, <2>4, <3>2, <3>4
    <3> QED
      BY <3>3, <3>4
  <2> QED
    BY <2>5, <2>6
<1>9. CASE UNCHANGED vars
  BY <1>3, <1>9 DEF vars
<1> QED
  BY <1>4, <1>5, <1>6, <1>7, <1>8, <1>9 DEF Next, PartyStep

\* The three invariants together.
LEMMA EndedAlways == Spec => [](LooseInv /\ OrderInv /\ Ended)
BY LooseInit, LooseStep, OrderInit, OrderStep, EndedInit, EndedStep, PTL DEF Spec

\* What a party has received of a dot product when nothing was cut up.
LEMMA ReceivedAll ==
  ASSUME LooseInv, NEW p \in Parties, Chain(Peer(p)), call = "dot", rq[p] = <<>>,
         phase[p] = Len(Plan(p)), NEW k \in {1, 2}
  PROVE  Received(p, k) = V(Peer(p), k)
<1>1. PICK v : v = Received(p, k) /\ Got(k, v) \in Range(vecs[p])
  BY AllRead
<1>2. PICK i \in DOMAIN vecs[p] : Got(k, v) = vecs[p][i]
  BY <1>1 DEF Range
<1>3. vecs[p][i].val = Sends(Peer(p))[vecs[p][i].id]
  BY ChainSays
<1>4. Got(k, v).val = v /\ Got(k, v).id = k
  BY DEF Got
<1>5. v = Sends(Peer(p))[k]
  BY <1>2, <1>3, <1>4, Zenon
<1> QED
  BY <1>1, <1>5 DEF V

\* The share of a party, when the keys and the lengths agree.
LEMMA zShare ==
  ASSUME LooseInv, OrderInv, Ended, NEW p \in Parties, out[p] # None, whole,
         \A r, s \in Roles : aes[r] = aes[s] /\ len[r] = len[s],
         NEW o \in Parties, o = Peer(p)
  PROVE  /\ call = "dot" /\ st["P2"] # "run"
         /\ out[p] = ShareOf(X(p), Y(p), Blind(p, dealt[p].x), Blind(p, dealt[p].y),
                             X(o), Y(o), Blind(o, dealt[o].x), Blind(o, dealt[o].y))
<1>1. Given /\ Control
  BY DEF LooseInv
<1>2. call = "dot" /\ st[p] # "run" /\ out[p] = z(p)
  BY DEF Ended
<1>3. rq[p] = <<>> /\ phase[p] = Len(Plan(p)) /\ st["P2"] # "run"
  BY <1>1, <1>2, OverAndDealt
<1>4. Chain(Peer(p))
  BY Peers DEF OrderInv
<1>5. Received(p, 1) = V(o, 1) /\ Received(p, 2) = V(o, 2)
  BY <1>2, <1>3, <1>4, ReceivedAll
<1>6. /\ V(o, 1) = Plus(X(o), Blind(o, dealt[o].x))
      /\ V(o, 2) = Plus(Y(o), Blind(o, dealt[o].y))
  <2>1. PICK a, b : a = Plus(X(o), Blind(o, dealt[o].x)) /\ b = Plus(Y(o), Blind(o, dealt[o].y))
    OBVIOUS
  <2>2. Sends(o) = <<a, b>>
    BY <1>2, <2>1 DEF Sends
  <2>3. V(o, 1) = a /\ V(o, 2) = b
    BY <2>2 DEF V
  <2> QED
    BY <2>1, <2>3
<1>7. dealt[p].gamma = Times(Blind(p, dealt[p].x), Blind(o, dealt[o].y))
  <2>1. PICK s \in Draws : dealt = Dealing(s)
    BY <1>1, <1>2, <1>3 DEF Given
  <2>2. PICK k, n : k = aes["P2"] /\ n = len["P2"]
    OBVIOUS
  <2>3. /\ dealt[p].x = s[p].x /\ dealt[o].y = s[o].y
        /\ dealt[p].gamma = Times(fill_vector_with_prg(k, s[p].x, n), fill_vector_with_prg(k, s[o].y, n))
    BY <2>1, <2>2 DEF Dealing
  <2>4. aes[p] = k /\ aes[o] = k /\ len[p] = n /\ len[o] = n
    BY <2>2, Peers
  <2> QED
    BY <2>3, <2>4, Zenon DEF Blind
<1>8. z(p) = ShareOf(X(p), Y(p), Blind(p, dealt[p].x), Blind(p, dealt[p].y),
                     X(o), Y(o), Blind(o, dealt[o].x), Blind(o, dealt[o].y))
  BY <1>5, <1>6, <1>7, Zenon DEF z, ShareOf
<1> QED
  BY <1>2, <1>3, <1>8

\* When the three processes' keys and lengths agree and no transfer was cut up,
\* the two shares that mpc_dotproduct returns add up to the product of the
\* two vectors that are shared, for every length and size of words.
THEOREM DotProductCorrect == Spec => []DotCorrect
<1>1. ASSUME LooseInv, OrderInv, Ended PROVE DotCorrect
  <2>1. SUFFICES ASSUME whole, \A p \in Parties : out[p] # None,
                        \A r, s \in Roles : aes[r] = aes[s] /\ len[r] = len[s]
                 PROVE  CombineA(out["P0"], out["P1"])
                          = Times(Plus(X("P0"), X("P1")), Plus(Y("P0"), Y("P1")))
    BY DEF DotCorrect
  <2>2. /\ "P0" \in Parties /\ "P1" \in Parties /\ Peer("P0") = "P1" /\ Peer("P1") = "P0"
        /\ "P0" \in Roles /\ "P1" \in Roles
    BY DEF Parties, Peer, Roles
  <2>3. PICK x, y, p, q : /\ x = X("P0") /\ y = Y("P0")
                          /\ p = Blind("P0", dealt["P0"].x) /\ q = Blind("P0", dealt["P0"].y)
    OBVIOUS
  <2>4. PICK xo, yo, po, qo : /\ xo = X("P1") /\ yo = Y("P1")
                              /\ po = Blind("P1", dealt["P1"].x) /\ qo = Blind("P1", dealt["P1"].y)
    OBVIOUS
  <2>5. /\ call = "dot" /\ st["P2"] # "run"
        /\ out["P0"] = ShareOf(x, y, p, q, xo, yo, po, qo)
    BY <1>1, <2>1, <2>2, <2>3, <2>4, zShare
  <2>6. out["P1"] = ShareOf(xo, yo, po, qo, x, y, p, q)
    BY <1>1, <2>1, <2>2, <2>3, <2>4, zShare
  <2>7. Given
    BY <1>1 DEF LooseInv
  <2>8. PICK n \in Nat : n = len["P0"] /\ n = len["P1"]
    BY <2>1, <2>2, <2>7, Params
  <2>9. IsVec(x, n) /\ IsVec(y, n) /\ IsVec(p, n) /\ IsVec(q, n)
    BY <2>2, <2>3, <2>5, <2>7, <2>8, Params, Shares
  <2>10. IsVec(xo, n) /\ IsVec(yo, n) /\ IsVec(po, n) /\ IsVec(qo, n)
    BY <2>2, <2>4, <2>5, <2>7, <2>8, Params, Shares
  <2>11. \A v : IsVec(v, n) => IsNums(v, n)
    BY VecNat DEF IsNums
  <2>12. Wrap(ShareOf(x, y, p, q, xo, yo, po, qo) + ShareOf(xo, yo, po, qo, x, y, p, q))
           = Times(Plus(x, xo), Plus(y, yo))
    <3>1. IsNums(x, n) /\ IsNums(y, n) /\ IsNums(p, n) /\ IsNums(q, n)
      BY <2>9, <2>11, Zenon
    <3>2. IsNums(xo, n) /\ IsNums(yo, n) /\ IsNums(po, n) /\ IsNums(qo, n)
      BY <2>10, <2>11, Zenon
    <3> QED
      BY <3>1, <3>2, DotAlgebra
  <2> QED
    BY <2>3, <2>4, <2>5, <2>6, <2>12, Zenon DEF CombineA
<1> QED
  BY <1>1, EndedAlways, PTL
=============================================================================
