------------------------- MODULE NightOutputProofs -------------------------
(***************************************************************************)
(* Proofs about sending a static file: no byte of a response is lost,      *)
(* repeated or out of place, and the output path implements NightStream,   *)
(* for files and headers of any size, however they are cut into buffers    *)
(* and whatever writev takes of them. The argument is that a chain of      *)
(* buffers is always one interval of the response in pieces (Chain).       *)
(***************************************************************************)
EXTENDS NightOutput, NightLemmas

Buffer == [pos : Nat, last : Nat, last_buf : BOOLEAN, recycled : BOOLEAN]

\* The buffers of c follow each other from byte a up to byte b.
Chain(c, a, b) ==
    /\ c \in Seq(Buffer) /\ a \in Nat /\ b \in Nat /\ a <= b
    /\ c = <<>> => a = b
    /\ c # <<>> => c[1].pos = a /\ c[Len(c)].last = b
    /\ \A i \in 1 .. Len(c) : /\ a <= c[i].pos /\ c[i].pos <= c[i].last
                              /\ c[i].last <= b
    /\ \A i \in 1 .. Len(c) - 1 : c[i].last = c[i + 1].pos

-----------------------------------------------------------------------------
(* The bytes of a chain                                                    *)

\* ByteRange(x, y) is a sequence of y - x consecutive bytes.
LEMMA ByteRangeProperties ==
    ASSUME NEW x \in Nat, NEW y \in Nat, x <= y
    PROVE  /\ ByteRange(x, y) \in Seq(Nat)
           /\ Len(ByteRange(x, y)) = y - x
           /\ \A i \in 1 .. y - x : ByteRange(x, y)[i] = x + i
<1>1. y - x \in Nat /\ \A i \in 1 .. y - x : x + i \in Nat
  OBVIOUS
<1> QED
  BY <1>1 DEF ByteRange

\* Two adjacent intervals of bytes make one.
LEMMA ByteRangeConcat ==
    ASSUME NEW x \in Nat, NEW y \in Nat, NEW z \in Nat, x <= y, y <= z
    PROVE  ByteRange(x, y) \o ByteRange(y, z) = ByteRange(x, z)
<1> DEFINE p == ByteRange(x, y)
           q == ByteRange(y, z)
           w == ByteRange(x, z)
<1>1. /\ p \in Seq(Nat) /\ Len(p) = y - x /\ \A i \in 1 .. y - x : p[i] = x + i
      /\ q \in Seq(Nat) /\ Len(q) = z - y /\ \A i \in 1 .. z - y : q[i] = y + i
      /\ w \in Seq(Nat) /\ Len(w) = z - x /\ \A i \in 1 .. z - x : w[i] = x + i
  <2>1. p \in Seq(Nat) /\ Len(p) = y - x /\ \A i \in 1 .. y - x : p[i] = x + i
    BY ByteRangeProperties
  <2>2. q \in Seq(Nat) /\ Len(q) = z - y /\ \A i \in 1 .. z - y : q[i] = y + i
    BY ByteRangeProperties
  <2>3. x <= z
    OBVIOUS
  <2>4. w \in Seq(Nat) /\ Len(w) = z - x /\ \A i \in 1 .. z - x : w[i] = x + i
    BY <2>3, ByteRangeProperties
  <2> QED
    BY <2>1, <2>2, <2>4
<1> HIDE DEF p, q, w
<1>2. /\ p \o q \in Seq(Nat) /\ Len(p \o q) = Len(p) + Len(q)
      /\ \A i \in 1 .. Len(p) + Len(q) : (p \o q)[i] = IF i <= Len(p) THEN p[i] ELSE q[i - Len(p)]
  BY <1>1, ConcatProperties
<1>3. Len(p \o q) = Len(w)
  BY <1>1, <1>2
<1>4. \A i \in 1 .. Len(p \o q) : (p \o q)[i] = w[i]
  <2> TAKE i \in 1 .. Len(p \o q)
  <2>1. CASE i <= y - x
    BY <1>1, <1>2, <2>1
  <2>2. CASE ~(i <= y - x)
    <3>1. i - (y - x) \in 1 .. z - y /\ i \in 1 .. z - x
      BY <1>1, <1>2, <2>2
    <3>2. (p \o q)[i] = y + (i - (y - x))
      BY <1>1, <1>2, <2>2, <3>1
    <3> QED
      BY <1>1, <3>1, <3>2
  <2> QED
    BY <2>1, <2>2
<1>5. p \o q = w
  BY <1>1, <1>2, <1>3, <1>4, SeqEqual
<1> QED
  BY <1>5 DEF p, q, w

\* The bytes of a chain are the interval it spans.
LEMMA ChainBytes ==
    ASSUME NEW c, NEW a, NEW b, Chain(c, a, b)
    PROVE  Bytes(c) = ByteRange(a, b)
<1> DEFINE n == Len(c)
           seqs == [i \in DOMAIN c |-> [j \in 1 .. buf_size(c[i]) |-> c[i].pos + j]]
           F(f) == [i \in 1 .. Len(seqs) |-> IF i = 1 THEN seqs[i] ELSE f[i - 1] \o seqs[i]]
           flatten == CHOOSE f : f = F(f)
<1>1. c \in Seq(Buffer) /\ n \in Nat /\ DOMAIN c = 1 .. n /\ a \in Nat /\ b \in Nat
  BY DEF Chain
<1>2. ASSUME NEW i \in 1 .. n
      PROVE  /\ a <= c[i].pos /\ c[i].pos <= c[i].last /\ c[i].last <= b
             /\ c[i].pos \in Nat /\ c[i].last \in Nat
             /\ seqs[i] = ByteRange(c[i].pos, c[i].last)
  <2>1. c[i] \in Buffer
    BY <1>1
  <2> QED
    BY <1>1, <2>1 DEF Chain, Buffer, buf_size, ByteRange
<1>3. Len(seqs) = n
  BY <1>1
<1>4. Bytes(c) = IF Len(seqs) = 0 THEN seqs ELSE flatten[Len(seqs)]
  BY Zenon DEF Bytes, FlattenSeq
<1>5. CASE n = 0
  <2>1. c = <<>> /\ a = b
    BY <1>1, <1>5 DEF Chain
  <2>2. Bytes(c) = seqs
    BY <1>3, <1>4, <1>5
  <2>3. seqs = [i \in {} |-> [j \in 1 .. buf_size(c[i]) |-> c[i].pos + j]]
    BY <1>1, <1>5
  <2>4. ByteRange(a, b) = [i \in {} |-> a + i]
    BY <1>1, <2>1 DEF ByteRange
  <2> QED
    BY <2>2, <2>3, <2>4
<1>6. CASE n # 0
  <2> DEFINE w == [i \in 1 .. n |-> ByteRange(a, c[i].last)]
  <2>1. c # <<>> /\ c[1].pos = a /\ c[n].last = b /\ n >= 1
    BY <1>1, <1>6 DEF Chain
  <2>2. \A i \in 1 .. n : i # 1 => i - 1 \in 1 .. n /\ c[i - 1].last = c[i].pos
    <3> SUFFICES ASSUME NEW i \in 1 .. n, i # 1
                 PROVE  i - 1 \in 1 .. n /\ c[i - 1].last = c[i].pos
      OBVIOUS
    <3>1. i - 1 \in 1 .. n - 1 /\ (i - 1) + 1 = i /\ i - 1 \in 1 .. n
      BY <1>1
    <3> QED
      BY <3>1 DEF Chain
  <2> HIDE DEF seqs, n
  <2>3. \A i \in 1 .. n : i # 1 => ByteRange(a, c[i - 1].last) \o seqs[i] = ByteRange(a, c[i].last)
    <3> SUFFICES ASSUME NEW i \in 1 .. n, i # 1
                 PROVE  ByteRange(a, c[i - 1].last) \o seqs[i] = ByteRange(a, c[i].last)
      OBVIOUS
    <3>1. seqs[i] = ByteRange(c[i].pos, c[i].last) /\ c[i - 1].last = c[i].pos
      BY <1>2, <2>2
    <3>2. ByteRange(a, c[i].pos) \o ByteRange(c[i].pos, c[i].last) = ByteRange(a, c[i].last)
      BY <1>1, <1>2, ByteRangeConcat
    <3> QED
      BY <3>1, <3>2
  <2>4. seqs[1] = ByteRange(a, c[1].last)
    BY <1>1, <1>2, <2>1
  <2>5. w = [i \in 1 .. n |-> IF i = 1 THEN seqs[i] ELSE w[i - 1] \o seqs[i]]
    <3>1. \A i \in 1 .. n : i # 1 => w[i - 1] = ByteRange(a, c[i - 1].last)
      BY <2>2
    <3>2. \A i \in 1 .. n : ByteRange(a, c[i].last) = IF i = 1 THEN seqs[i] ELSE w[i - 1] \o seqs[i]
      <4> HIDE DEF w
      <4> QED
        BY <2>3, <2>4, <3>1
    <3> QED
      BY <3>2
  <2>6. w = F(w)
    BY Zenon, <1>3, <2>5
  <2>7. flatten = F(flatten)
    <3> HIDE DEF F, w
    <3> QED
      BY <2>6
  <2> HIDE DEF flatten
  <2>8. flatten = [i \in 1 .. n |-> IF i = 1 THEN seqs[i] ELSE flatten[i - 1] \o seqs[i]]
    BY Zenon, <1>3, <2>7
  <2> DEFINE P == {i \in Nat : i + 1 <= n => flatten[i + 1] = ByteRange(a, c[i + 1].last)}
  <2>9. 0 \in P
    <3>1. flatten[1] = seqs[1]
      BY <1>1, <2>1, <2>8
    <3> QED
      BY <2>4, <3>1
  <2>10. ASSUME NEW i \in Nat, i \in P PROVE i + 1 \in P
    <3> SUFFICES ASSUME (i + 1) + 1 <= n
                 PROVE  flatten[(i + 1) + 1] = ByteRange(a, c[(i + 1) + 1].last)
      OBVIOUS
    <3> DEFINE k == (i + 1) + 1
    <3>1. k \in 1 .. n /\ k # 1 /\ k - 1 = i + 1 /\ i + 1 <= n
      BY <1>1
    <3>2. flatten[k - 1] = ByteRange(a, c[k - 1].last)
      BY <2>10, <3>1
    <3>3. flatten[k] = flatten[k - 1] \o seqs[k]
      BY <2>8, <3>1
    <3> HIDE DEF k
    <3>4. flatten[k] = ByteRange(a, c[k].last)
      BY <2>3, <3>1, <3>2, <3>3
    <3> QED
      BY <3>4 DEF k
  <2> HIDE DEF P
  <2>11. Nat \subseteq P
    BY <2>9, <2>10, SetInduction
  <2>12. n - 1 \in P /\ (n - 1) + 1 = n
    BY <1>1, <2>1, <2>11
  <2>13. flatten[n] = ByteRange(a, c[n].last)
    BY <1>1, <2>12 DEF P
  <2> QED
    BY <1>3, <1>4, <1>6, <2>1, <2>13
<1> QED
  BY <1>5, <1>6

\* A chain's buffers end one after the other.
LEMMA ChainGrows ==
    ASSUME NEW c, NEW a, NEW b, Chain(c, a, b),
           NEW i \in 1 .. Len(c), NEW j \in 1 .. Len(c), i <= j
    PROVE  c[i].last <= c[j].last
<1> DEFINE n == Len(c)
           P == {k \in Nat : i + k <= n => c[i].last <= c[i + k].last}
<1>1. n \in Nat /\ \A k \in 1 .. n : c[k] \in Buffer
  BY DEF Chain
<1>2. \A k \in 1 .. n : c[k].pos \in Nat /\ c[k].last \in Nat /\ c[k].pos <= c[k].last
  BY <1>1 DEF Chain, Buffer
<1>3. \A k \in 1 .. n - 1 : c[k].last = c[k + 1].pos
  BY DEF Chain
<1> HIDE DEF n
<1>4. i \in Nat /\ 1 <= i /\ i <= n /\ j \in Nat /\ j <= n
  BY <1>1 DEF n
<1>5. 0 \in P
  BY <1>2, <1>4
<1>6. ASSUME NEW k \in Nat, k \in P PROVE k + 1 \in P
  <2> SUFFICES ASSUME i + (k + 1) <= n PROVE c[i].last <= c[i + (k + 1)].last
    OBVIOUS
  <2>1. i + k \in 1 .. n - 1 /\ i + (k + 1) = (i + k) + 1 /\ i + k <= n
    BY <1>1, <1>4
  <2>2. c[i].last <= c[i + k].last
    BY <1>6, <2>1
  <2>3. c[i + k].last = c[i + (k + 1)].pos
    BY <1>3, <2>1
  <2>4. i + (k + 1) \in 1 .. n /\ i + k \in 1 .. n
    BY <1>1, <2>1
  <2> QED
    BY <1>2, <1>4, <2>2, <2>3, <2>4
<1> HIDE DEF P
<1>7. Nat \subseteq P
  BY <1>5, <1>6, SetInduction
<1>8. j - i \in P /\ i + (j - i) = j
  BY <1>4, <1>7
<1> QED
  BY <1>4, <1>8 DEF P

-----------------------------------------------------------------------------
(* Pieces of a chain                                                       *)

\* Where the first i buffers of a chain from byte a end.
EndOf(c, a, i) == IF i = 0 THEN a ELSE c[i].last

\* A chain cut between two buffers is two chains.
LEMMA ChainCut ==
    ASSUME NEW c, NEW a, NEW b, Chain(c, a, b), NEW i \in 0 .. Len(c)
    PROVE  /\ Chain(SubSeq(c, 1, i), a, EndOf(c, a, i))
           /\ Chain(SubSeq(c, i + 1, Len(c)), EndOf(c, a, i), b)
<1> DEFINE n == Len(c)
           e == EndOf(c, a, i)
           p == SubSeq(c, 1, i)
           q == SubSeq(c, i + 1, n)
<1>1. /\ c \in Seq(Buffer) /\ n \in Nat /\ a \in Nat /\ b \in Nat /\ a <= b
      /\ \A j \in 1 .. n : c[j] \in Buffer
  BY DEF Chain
<1>2. \A j \in 1 .. n : /\ c[j].pos \in Nat /\ c[j].last \in Nat
                        /\ a <= c[j].pos /\ c[j].pos <= c[j].last /\ c[j].last <= b
  BY <1>1 DEF Chain, Buffer
<1>3. \A j \in 1 .. n - 1 : c[j].last = c[j + 1].pos
  BY DEF Chain
<1>4. c # <<>> => c[1].pos = a /\ c[n].last = b
  BY DEF Chain
<1>5. c = <<>> => a = b
  BY DEF Chain
<1>6. i \in Nat /\ i <= n
  BY <1>1
<1>7. e \in Nat /\ a <= e /\ e <= b
  BY <1>1, <1>2, <1>6 DEF EndOf
<1>8. p \in Seq(Buffer) /\ Len(p) = i /\ \A j \in 1 .. i : p[j] = c[j]
  <2>1. \A j \in 1 .. i : c[j] \in Buffer
    BY <1>1, <1>6
  <2> HIDE DEF n
  <2>2. /\ p \in Seq(Buffer) /\ Len(p) = (IF 1 <= i THEN i - 1 + 1 ELSE 0)
        /\ \A j \in 1 .. i - 1 + 1 : p[j] = c[1 + j - 1]
    BY <1>6, <2>1, SubSeqProperties
  <2> HIDE DEF p
  <2> QED
    BY <1>6, <2>2
<1>9. q \in Seq(Buffer) /\ Len(q) = n - i /\ \A j \in 1 .. n - i : q[j] = c[i + j]
  <2>1. \A j \in i + 1 .. n : c[j] \in Buffer
    BY <1>1, <1>6
  <2> HIDE DEF n
  <2>2. /\ q \in Seq(Buffer) /\ Len(q) = (IF i + 1 <= n THEN n - (i + 1) + 1 ELSE 0)
        /\ \A j \in 1 .. n - (i + 1) + 1 : q[j] = c[(i + 1) + j - 1]
    BY <1>1, <1>6, <2>1, SubSeqProperties
  <2> HIDE DEF q
  <2> QED
    BY <1>1, <1>6, <2>2
<1> HIDE DEF p, q, e, n
<1>10. Chain(p, a, e)
  <2>1. p = <<>> => a = e
    BY <1>6, <1>8 DEF e, EndOf
  <2>2. p # <<>> => p[1].pos = a /\ p[Len(p)].last = e
    <3> SUFFICES ASSUME p # <<>> PROVE p[1].pos = a /\ p[Len(p)].last = e
      OBVIOUS
    <3>1. i >= 1 /\ n >= 1 /\ c # <<>>
      BY <1>1, <1>6, <1>8 DEF n
    <3> QED
      BY <1>4, <1>6, <1>8, <3>1 DEF e, EndOf
  <2>3. \A j \in 1 .. Len(p) : a <= p[j].pos /\ p[j].pos <= p[j].last /\ p[j].last <= e
    <3> TAKE j \in 1 .. Len(p)
    <3>1. j \in 1 .. n /\ j \in 1 .. i /\ p[j] = c[j] /\ i >= 1
      BY <1>1, <1>6, <1>8
    <3>2. e = c[i].last
      BY <1>6, <3>1 DEF e, EndOf
    <3>3. c[j].last <= c[i].last
      BY <1>1, <1>2, <1>3, <1>6, <3>1, ChainGrows DEF n
    <3> QED
      BY <1>2, <3>1, <3>2, <3>3
  <2>4. \A j \in 1 .. Len(p) - 1 : p[j].last = p[j + 1].pos
    BY <1>1, <1>3, <1>6, <1>8
  <2> QED
    BY <1>1, <1>7, <1>8, <2>1, <2>2, <2>3, <2>4 DEF Chain
<1>11. Chain(q, e, b)
  <2>1. q = <<>> => e = b
    <3> SUFFICES ASSUME q = <<>> PROVE e = b
      OBVIOUS
    <3>1. i = n
      BY <1>1, <1>6, <1>9
    <3> QED
      BY <1>1, <1>4, <1>5, <1>6, <3>1 DEF e, EndOf, n
  <2>2. q # <<>> => q[1].pos = e /\ q[Len(q)].last = b
    <3> SUFFICES ASSUME q # <<>> PROVE q[1].pos = e /\ q[Len(q)].last = b
      OBVIOUS
    <3>1. i < n /\ c # <<>> /\ 1 \in 1 .. n - i /\ n - i \in 1 .. n - i /\ i + (n - i) = n
      BY <1>1, <1>6, <1>9 DEF n
    <3>2. q[1] = c[i + 1] /\ q[Len(q)] = c[n]
      BY <1>9, <3>1
    <3>3. c[i + 1].pos = e
      <4>1. CASE i = 0
        BY <1>4, <3>1, <4>1 DEF e, EndOf
      <4>2. CASE i # 0
        <5>1. i \in 1 .. n - 1
          BY <1>1, <1>6, <3>1, <4>2
        <5> QED
          BY <1>3, <4>2, <5>1 DEF e, EndOf
      <4> QED
        BY <4>1, <4>2
    <3> QED
      BY <1>4, <3>1, <3>2, <3>3
  <2>3. \A j \in 1 .. Len(q) : e <= q[j].pos /\ q[j].pos <= q[j].last /\ q[j].last <= b
    <3> TAKE j \in 1 .. Len(q)
    <3>1. i + j \in 1 .. n /\ j \in 1 .. n - i /\ q[j] = c[i + j]
      BY <1>1, <1>6, <1>9
    <3>2. e <= c[i + j].pos
      <4>1. CASE i = 0
        BY <1>2, <3>1, <4>1 DEF e, EndOf
      <4>2. CASE i # 0
        <5>1. i \in 1 .. n /\ i + j - 1 \in 1 .. n - 1 /\ i <= i + j - 1 /\ (i + j - 1) + 1 = i + j
          BY <1>1, <1>6, <3>1, <4>2
        <5>2. c[i].last <= c[i + j - 1].last
          BY <1>1, <5>1, ChainGrows DEF n
        <5> QED
          BY <1>3, <4>2, <5>1, <5>2 DEF e, EndOf
      <4> QED
        BY <4>1, <4>2
    <3> QED
      BY <1>2, <3>1, <3>2
  <2>4. \A j \in 1 .. Len(q) - 1 : q[j].last = q[j + 1].pos
    <3> TAKE j \in 1 .. Len(q) - 1
    <3>1. /\ j \in 1 .. n - i /\ j + 1 \in 1 .. n - i
          /\ i + j \in 1 .. n - 1 /\ i + (j + 1) = (i + j) + 1
      BY <1>1, <1>6, <1>9
    <3> QED
      BY <1>3, <1>9, <3>1
  <2> QED
    BY <1>1, <1>7, <1>9, <2>1, <2>2, <2>3, <2>4 DEF Chain
<1> QED
  BY <1>10, <1>11 DEF p, q, e, n

\* A chain that goes on where another one stops makes a longer chain.
LEMMA ChainConcat ==
    ASSUME NEW c, NEW d, NEW a, NEW m, NEW b, Chain(c, a, m), Chain(d, m, b)
    PROVE  Chain(c \o d, a, b)
<1> DEFINE n == Len(c)
           k == Len(d)
           w == c \o d
<1>1. /\ c \in Seq(Buffer) /\ n \in Nat /\ d \in Seq(Buffer) /\ k \in Nat
      /\ a \in Nat /\ m \in Nat /\ b \in Nat /\ a <= m /\ m <= b
      /\ \A j \in 1 .. n : c[j] \in Buffer
      /\ \A j \in 1 .. k : d[j] \in Buffer
  BY DEF Chain
<1>2. \A j \in 1 .. n : /\ c[j].pos \in Nat /\ c[j].last \in Nat
                        /\ a <= c[j].pos /\ c[j].pos <= c[j].last /\ c[j].last <= m
  BY <1>1 DEF Chain, Buffer
<1>3. \A j \in 1 .. k : /\ d[j].pos \in Nat /\ d[j].last \in Nat
                        /\ m <= d[j].pos /\ d[j].pos <= d[j].last /\ d[j].last <= b
  BY <1>1 DEF Chain, Buffer
<1>4. /\ \A j \in 1 .. n - 1 : c[j].last = c[j + 1].pos
      /\ \A j \in 1 .. k - 1 : d[j].last = d[j + 1].pos
  BY DEF Chain
<1>5. /\ n # 0 => c[1].pos = a /\ c[n].last = m
      /\ k # 0 => d[1].pos = m /\ d[k].last = b
      /\ n = 0 => a = m
      /\ k = 0 => m = b
  <2>1. n = 0 <=> c = <<>>
    BY <1>1
  <2>2. k = 0 <=> d = <<>>
    BY <1>1
  <2> QED
    BY <2>1, <2>2 DEF Chain
<1>6. /\ w \in Seq(Buffer) /\ Len(w) = n + k
      /\ \A i \in 1 .. n + k : w[i] = IF i <= n THEN c[i] ELSE d[i - n]
  BY <1>1, ConcatProperties
<1> HIDE DEF w, n, k
<1>7. /\ \A i \in 1 .. n : w[i] = c[i]
      /\ \A i \in n + 1 .. n + k : i - n \in 1 .. k /\ w[i] = d[i - n]
  BY <1>1, <1>6
<1>8. w = <<>> => a = b
  BY <1>1, <1>5, <1>6
<1>9. w # <<>> => w[1].pos = a /\ w[Len(w)].last = b
  <2> SUFFICES ASSUME w # <<>> PROVE w[1].pos = a /\ w[Len(w)].last = b
    OBVIOUS
  <2>0. n + k >= 1
    BY <1>1, <1>6
  <2>1. w[1].pos = a
    <3>1. CASE n = 0
      <4>1. w[1] = d[1] /\ k # 0 /\ a = m
        BY <1>1, <1>5, <1>7, <2>0, <3>1
      <4> QED
        BY <1>5, <4>1
    <3>2. CASE n # 0
      <4>1. w[1] = c[1]
        BY <1>1, <1>7, <3>2
      <4> QED
        BY <1>5, <3>2, <4>1
    <3> QED
      BY <3>1, <3>2
  <2>2. w[Len(w)].last = b
    <3>1. CASE k = 0
      <4>1. w[Len(w)] = c[n] /\ n # 0 /\ m = b
        BY <1>1, <1>5, <1>6, <1>7, <2>0, <3>1
      <4> QED
        BY <1>5, <4>1
    <3>2. CASE k # 0
      <4>1. w[n + k] = d[k]
        <5>1. n + k \in n + 1 .. n + k /\ (n + k) - n = k
          BY <1>1, <3>2
        <5> QED
          BY <1>7, <5>1
      <4> QED
        BY <1>5, <1>6, <3>2, <4>1
    <3> QED
      BY <3>1, <3>2
  <2> QED
    BY <2>1, <2>2
<1>10. \A i \in 1 .. Len(w) : a <= w[i].pos /\ w[i].pos <= w[i].last /\ w[i].last <= b
  <2> TAKE i \in 1 .. Len(w)
  <2>1. CASE i <= n
    <3>1. i \in 1 .. n /\ w[i] = c[i]
      BY <1>1, <1>6, <1>7, <2>1
    <3>2. /\ w[i].last \in Nat /\ a <= w[i].pos
          /\ w[i].pos <= w[i].last /\ w[i].last <= m
      BY <1>2, <3>1
    <3>3. m \in Nat /\ b \in Nat /\ m <= b
      BY <1>1
    <3> QED
      BY <3>2, <3>3
  <2>2. CASE ~(i <= n)
    <3>1. i - n \in 1 .. k /\ w[i] = d[i - n]
      BY <1>1, <1>6, <1>7, <2>2
    <3>2. /\ w[i].pos \in Nat /\ m <= w[i].pos
          /\ w[i].pos <= w[i].last /\ w[i].last <= b
      BY <1>3, <3>1
    <3>3. a \in Nat /\ m \in Nat /\ a <= m
      BY <1>1
    <3> QED
      BY <3>2, <3>3
  <2> QED
    BY <2>1, <2>2
<1>11. \A i \in 1 .. Len(w) - 1 : w[i].last = w[i + 1].pos
  <2> TAKE i \in 1 .. Len(w) - 1
  <2>1. CASE i < n
    <3>1. i \in 1 .. n - 1 /\ w[i] = c[i] /\ w[i + 1] = c[i + 1]
      BY <1>1, <1>6, <1>7, <2>1
    <3> QED
      BY <1>4, <3>1
  <2>2. CASE i = n
    <3>1. i \in 1 .. n /\ i + 1 \in n + 1 .. n + k /\ (i + 1) - n = 1 /\ n # 0 /\ k # 0
      BY <1>1, <1>6, <2>2
    <3>2. w[i] = c[n] /\ w[i + 1] = d[1]
      BY <1>7, <2>2, <3>1
    <3> QED
      BY <1>5, <3>1, <3>2
  <2>3. CASE i > n
    <3>1. /\ i - n \in 1 .. k - 1 /\ i \in n + 1 .. n + k /\ i + 1 \in n + 1 .. n + k
          /\ (i + 1) - n = (i - n) + 1
      BY <1>1, <1>6, <2>3
    <3>2. w[i] = d[i - n] /\ w[i + 1] = d[(i - n) + 1]
      BY <1>7, <3>1
    <3> QED
      BY <1>4, <3>1, <3>2
  <2> QED
    BY <1>1, <1>6, <2>1, <2>2, <2>3
<1>12. a <= b
  BY <1>1
<1> QED
  BY <1>1, <1>6, <1>8, <1>9, <1>10, <1>11, <1>12 DEF Chain, w

\* A buffer by itself is a chain.
LEMMA ChainOne ==
    ASSUME NEW x \in Nat, NEW y \in Nat, x <= y,
           NEW last_buf \in BOOLEAN, NEW recycled \in BOOLEAN
    PROVE  /\ Chain(<<Buf(x, y, last_buf, recycled)>>, x, y)
           /\ <<Buf(x, y, last_buf, recycled)>> \in Seq(Buffer)
<1> DEFINE u == Buf(x, y, last_buf, recycled)
<1>1. u \in Buffer /\ u.pos = x /\ u.last = y
  BY DEF Buf, Buffer
<1> HIDE DEF u
<1>2. <<u>> \in Seq(Buffer) /\ Len(<<u>>) = 1 /\ <<u>>[1] = u /\ <<u>> # <<>>
  BY <1>1
<1>3. Chain(<<u>>, x, y)
  BY <1>1, <1>2 DEF Chain
<1> QED
  BY <1>2, <1>3 DEF u

\* The empty chain.
LEMMA ChainNone ==
    ASSUME NEW x \in Nat PROVE Chain(<<>>, x, x)
BY DEF Chain

\* The first k bytes of an interval.
LEMMA ByteRangePrefix ==
    ASSUME NEW x \in Nat, NEW y \in Nat, x <= y, NEW k \in Nat, k <= y - x
    PROVE  SubSeq(ByteRange(x, y), 1, k) = ByteRange(x, x + k)
<1> DEFINE p == ByteRange(x, y)
           q == SubSeq(p, 1, k)
           w == ByteRange(x, x + k)
<1>1. p \in Seq(Nat) /\ Len(p) = y - x /\ \A i \in 1 .. y - x : p[i] = x + i
  BY ByteRangeProperties
<1>2. w \in Seq(Nat) /\ Len(w) = k /\ \A i \in 1 .. k : w[i] = x + i
  <2>1. x + k \in Nat /\ x <= x + k /\ (x + k) - x = k
    OBVIOUS
  <2> QED
    BY <2>1, ByteRangeProperties
<1> HIDE DEF p, w
<1>3. q \in Seq(Nat) /\ Len(q) = k /\ \A i \in 1 .. k : q[i] = p[i]
  <2>1. \A i \in 1 .. k : p[i] \in Nat
    BY <1>1
  <2>2. /\ q \in Seq(Nat) /\ Len(q) = (IF 1 <= k THEN k - 1 + 1 ELSE 0)
        /\ \A i \in 1 .. k - 1 + 1 : q[i] = p[1 + i - 1]
    BY <2>1, SubSeqProperties
  <2> HIDE DEF q
  <2> QED
    BY <2>2
<1> HIDE DEF q
<1>4. \A i \in 1 .. Len(q) : q[i] = w[i]
  <2> TAKE i \in 1 .. Len(q)
  <2>1. i \in 1 .. k /\ i \in 1 .. y - x
    BY <1>3
  <2> QED
    BY <1>1, <1>2, <1>3, <2>1
<1>5. q = w
  BY <1>2, <1>3, <1>4, SeqEqual
<1> QED
  BY <1>5 DEF p, q, w

-----------------------------------------------------------------------------
(* Sending from a chain                                                    *)

\* The largest of a bounded set of naturals, as Max finds it.
LEMMA MaxOfNats ==
    ASSUME NEW n \in Nat, NEW T, T \subseteq 0 .. n, T # {}
    PROVE  Max(T) \in T /\ \A y \in T : Max(T) >= y
BY GreatestNat, Zenon DEF Max

\* The smaller of two naturals.
LEMMA MinOfTwo ==
    ASSUME NEW x \in Nat, NEW y \in Nat
    PROVE  Min({x, y}) \in Nat /\ Min({x, y}) = IF x <= y THEN x ELSE y
<1>1. \E z \in {x, y} : \A w \in {x, y} : z =< w
  OBVIOUS
<1>2. Min({x, y}) \in {x, y} /\ \A w \in {x, y} : Min({x, y}) =< w
  BY <1>1, Zenon DEF Min
<1> QED
  BY <1>2

\* Every buffer of a chain has something to send.
Filled(c) == \A i \in 1 .. Len(c) : c[i].pos < c[i].last

(* What chain_update_sent leaves of a chain starts with the first byte     *)
(* that was not sent and keeps the end; a buffer that had bytes has some   *)
(* left or is gone.                                                        *)
LEMMA UpdateSent ==
    ASSUME NEW c, NEW a, NEW b, Chain(c, a, b), NEW n \in Nat, n <= b - a
    PROVE  /\ Chain(chain_update_sent(c, n), a + n, b)
           /\ Filled(c) => Filled(chain_update_sent(c, n))
<1> DEFINE k == Len(c)
           before(i) == Len(Bytes(SubSeq(c, 1, i)))
           W == {j \in 0 .. k : before(j) <= n}
           i == Max(W)
           rest == SubSeq(c, i + 1, k)
           d == chain_update_sent(c, n)
           e(j) == EndOf(c, a, j)
<1>1. /\ c \in Seq(Buffer) /\ k \in Nat /\ a \in Nat /\ b \in Nat /\ a <= b
      /\ \A j \in 1 .. k : c[j] \in Buffer /\ c[j].pos \in Nat /\ c[j].last \in Nat
  <2>1. c \in Seq(Buffer) /\ a \in Nat /\ b \in Nat /\ a <= b
    BY DEF Chain
  <2>2. \A j \in 1 .. k : c[j] \in Buffer
    BY <2>1
  <2>3. \A u \in Buffer : u.pos \in Nat /\ u.last \in Nat
    BY DEF Buffer
  <2> QED
    BY <2>1, <2>2, <2>3
<1>2. d = IF rest = <<>> THEN <<>>
          ELSE <<[rest[1] EXCEPT !.pos = @ + n - before(i)]>> \o Tail(rest)
  BY Zenon DEF chain_update_sent
<1>3. ASSUME NEW j \in 0 .. k
      PROVE  /\ before(j) = e(j) - a /\ e(j) \in Nat /\ a <= e(j) /\ e(j) <= b
             /\ Chain(SubSeq(c, j + 1, k), e(j), b)
  <2>1. Chain(SubSeq(c, 1, j), a, e(j)) /\ Chain(SubSeq(c, j + 1, k), e(j), b)
    BY ChainCut
  <2>2. e(j) \in Nat /\ a <= e(j) /\ e(j) <= b
    BY <2>1 DEF Chain
  <2>3. Bytes(SubSeq(c, 1, j)) = ByteRange(a, e(j))
    BY <2>1, ChainBytes
  <2>4. Len(ByteRange(a, e(j))) = e(j) - a
    BY <1>1, <2>2, ByteRangeProperties
  <2> QED
    BY <2>1, <2>2, <2>3, <2>4
<1>4. e(0) = a
  BY DEF EndOf
<1> HIDE DEF k, before, e, d
<1>5. i \in 0 .. k /\ before(i) <= n /\ \A j \in 0 .. k : before(j) <= n => j <= i
  <2>1. W \subseteq 0 .. k /\ W # {}
    <3>1. 0 \in 0 .. k /\ before(0) = a - a
      BY <1>1, <1>3, <1>4
    <3> QED
      BY <1>1, <3>1
  <2>2. i \in W /\ \A j \in W : i >= j
    <3> HIDE DEF W
    <3> QED
      BY <1>1, <2>1, MaxOfNats
  <2> HIDE DEF i
  <2> QED
    BY <1>1, <2>2
<1> HIDE DEF i
<1>6. /\ before(i) = e(i) - a /\ e(i) \in Nat /\ a <= e(i) /\ e(i) <= b /\ i \in Nat /\ i <= k
      /\ Chain(rest, e(i), b)
  BY <1>1, <1>3, <1>5
<1>7. CASE rest = <<>>
  <2>1. e(i) = b
    BY <1>6, <1>7 DEF Chain
  <2>2. n = b - a /\ a + n = b
    BY <1>1, <1>5, <1>6, <2>1
  <2>3. d = <<>>
    BY <1>2, <1>7
  <2>4. Chain(<<>>, b, b) /\ Filled(<<>>)
    BY <1>1, ChainNone DEF Filled
  <2> QED
    BY <2>2, <2>3, <2>4 DEF d
<1>8. CASE rest # <<>>
  <2>1. i < k
    <3> SUFFICES ASSUME i = k PROVE FALSE
      BY <1>1, <1>6
    <3>1. k < i + 1
      BY <1>1, <1>6
    <3>2. rest = <<>>
      BY <1>1, <1>6, <3>1, SubSeqEmpty
    <3> QED
      BY <1>8, <3>2
  <2>2. /\ i + 1 \in 1 .. k /\ i + 1 \in 0 .. k /\ k \in i + 1 .. k
        /\ e(i + 1) = c[i + 1].last /\ c[i + 1] \in Buffer
    BY <1>1, <1>6, <2>1 DEF e, EndOf
  <2>3. /\ before(i + 1) = e(i + 1) - a /\ e(i + 1) \in Nat
        /\ Chain(SubSeq(c, (i + 1) + 1, k), e(i + 1), b)
    BY <1>3, <2>2
  <2>4. a + n < c[i + 1].last
    <3>1. ~(before(i + 1) <= n)
      BY <1>5, <1>6, <2>2
    <3> QED
      BY <1>1, <2>2, <2>3, <3>1
  <2>5. Head(rest) = c[i + 1] /\ Tail(rest) = SubSeq(c, (i + 1) + 1, k)
    BY <1>1, <2>2, HeadTailOfSubSeq DEF k
  <2>6. rest[1] = c[i + 1]
    BY <1>6, <1>8, <2>5 DEF Chain
  <2>7. c[i + 1].pos = e(i)
    BY <1>6, <1>8, <2>6 DEF Chain
  <2> DEFINE x == [rest[1] EXCEPT !.pos = @ + n - before(i)]
  <2>8. x = Buf(a + n, c[i + 1].last, c[i + 1].last_buf, c[i + 1].recycled)
    <3>1. e(i) + n - before(i) = a + n
      BY <1>1, <1>6
    <3>2. x = [c[i + 1] EXCEPT !.pos = a + n]
      BY <2>6, <2>7, <3>1
    <3> QED
      BY <2>2, <3>2 DEF Buf, Buffer
  <2>9. d = <<x>> \o SubSeq(c, (i + 1) + 1, k)
    BY <1>2, <1>8, <2>5
  <2> HIDE DEF x
  <2>10. Chain(<<x>>, a + n, e(i + 1)) /\ <<x>> \in Seq(Buffer)
    <3>1. /\ a + n \in Nat /\ a + n <= c[i + 1].last /\ c[i + 1].last \in Nat
          /\ c[i + 1].last_buf \in BOOLEAN /\ c[i + 1].recycled \in BOOLEAN
      BY <1>1, <2>2, <2>4 DEF Buffer
    <3> QED
      BY <2>2, <2>8, <3>1, ChainOne
  <2>11. Chain(d, a + n, b)
    BY <2>3, <2>9, <2>10, ChainConcat
  <2>12. ASSUME Filled(c) PROVE Filled(d)
    <3> DEFINE t == SubSeq(c, (i + 1) + 1, k)
    <3>1. t \in Seq(Buffer)
      BY <2>3 DEF Chain
    <3>2. Len(t) = k - (i + 1) /\ \A j \in 1 .. k - (i + 1) : t[j] = c[(i + 1) + j]
      <4>1. \A j \in (i + 1) + 1 .. k : c[j] \in Buffer
        BY <1>1, <1>6, <2>1
      <4>2. /\ Len(t) = (IF (i + 1) + 1 <= k THEN k - ((i + 1) + 1) + 1 ELSE 0)
            /\ \A j \in 1 .. k - ((i + 1) + 1) + 1 : t[j] = c[((i + 1) + 1) + j - 1]
        BY <1>1, <1>6, <4>1, SubSeqProperties
      <4> HIDE DEF t
      <4> QED
        BY <1>1, <1>6, <2>1, <4>2
    <3> HIDE DEF t
    <3>3. /\ Len(d) = 1 + Len(t)
          /\ \A j \in 1 .. 1 + Len(t) : d[j] = IF j <= 1 THEN <<x>>[j] ELSE t[j - 1]
      <4>1. d = <<x>> \o t /\ Len(<<x>>) = 1
        BY <2>9 DEF t
      <4> HIDE DEF d
      <4> QED
        BY <2>10, <3>1, <4>1, ConcatProperties
    <3>4. ASSUME NEW j \in 1 .. Len(d) PROVE d[j].pos < d[j].last
      <4>1. CASE j = 1
        <5>1. d[1] = x
          BY <3>1, <3>3, <4>1
        <5> QED
          BY <2>4, <2>8, <4>1, <5>1 DEF Buf
      <4>2. CASE j # 1
        <5>1. j - 1 \in 1 .. k - (i + 1) /\ (i + 1) + (j - 1) \in 1 .. k
          BY <1>1, <1>6, <2>1, <3>2, <3>3, <4>2
        <5>2. d[j] = t[j - 1]
          BY <3>1, <3>3, <4>2
        <5>3. d[j] = c[(i + 1) + (j - 1)]
          BY <3>2, <5>1, <5>2
        <5> QED
          BY <2>12, <5>1, <5>3 DEF Filled, k
      <4> QED
        BY <4>1, <4>2
    <3> QED
      BY <3>4 DEF Filled
  <2> QED
    BY <2>11, <2>12 DEF d
<1> QED
  BY <1>7, <1>8

(* What a writev is given from the chain c, which goes from a to b: the    *)
(* bytes that come next, no more than the limit allows.                    *)
Given(c, bufs, limit, a, b) ==
    \E k \in Nat : /\ k <= limit /\ k <= b - a
                  /\ output_chain_to_iovec(c, bufs, limit) = ByteRange(a, a + k)

\* That is what night_output_chain_to_iovec takes, whatever the buffers.
LEMMA IovecBytes ==
    ASSUME NEW c, NEW a, NEW b, NEW bufs, NEW limit,
           Chain(c, a, b), bufs \in 0 .. Len(c), limit \in Nat
    PROVE  Given(c, bufs, limit, a, b)
<1> DEFINE bytes == Bytes(SubSeq(c, 1, bufs))
           k == Min({limit, Len(bytes)})
           e == EndOf(c, a, bufs)
<1>1. Len(c) \in Nat /\ a \in Nat /\ b \in Nat
  BY DEF Chain
<1>2. bufs \in 0 .. Len(c)
  OBVIOUS
<1>3. Chain(SubSeq(c, 1, bufs), a, e) /\ Chain(SubSeq(c, bufs + 1, Len(c)), e, b)
  BY <1>2, ChainCut
<1>4. e \in Nat /\ a <= e /\ e <= b
  BY <1>3 DEF Chain
<1>5. bytes = ByteRange(a, e)
  BY <1>3, ChainBytes
<1> HIDE DEF e, bytes
<1>6. Len(bytes) = e - a /\ bytes \in Seq(Nat) /\ \A i \in 1 .. e - a : bytes[i] = a + i
  BY <1>1, <1>4, <1>5, ByteRangeProperties
<1>7. k \in Nat /\ k <= limit /\ k <= e - a
  <2>1. Len(bytes) \in Nat
    BY <1>1, <1>4, <1>6
  <2>2. k \in Nat /\ k = IF limit <= Len(bytes) THEN limit ELSE Len(bytes)
    BY <2>1, MinOfTwo
  <2> HIDE DEF k
  <2> QED
    BY <1>6, <2>1, <2>2
<1>8. output_chain_to_iovec(c, bufs, limit) = SubSeq(bytes, 1, k)
  BY Zenon DEF output_chain_to_iovec, bytes
<1> HIDE DEF k
<1>9. SubSeq(bytes, 1, k) = ByteRange(a, a + k)
  BY <1>1, <1>4, <1>5, <1>7, ByteRangePrefix
<1>10. k <= b - a
  BY <1>1, <1>4, <1>7
<1> QED
  BY <1>7, <1>8, <1>9, <1>10, Zenon DEF Given

-----------------------------------------------------------------------------
(* The invariant                                                           *)

\* The types of the state, and that what is on the wire is a prefix of the
\* response.
OutTypes ==
    /\ pc \in {"idle", "open", "copy", "header", "header sent", "body", "body sent"}
    /\ rc \in {"none", "busy", "OK", "AGAIN", "ERROR"}
    /\ header \in Nat /\ header \in HeaderLens \cup {0} /\ size \in 0 .. MaxSize
    /\ file_pos \in 0 .. size /\ send \in 0 .. Limit
    /\ copied \in Seq(Buffer) /\ out \in Seq(Buffer)
    /\ Len(wire) \in Nat /\ wire = ByteRange(0, Len(wire))

\* The handler runs from when it is called until it returns, and starts from
\* an empty response.
Handling ==
    /\ pc = "idle" <=> rc # "busy"
    /\ pc = "open" => wire = <<>> /\ out = <<>> /\ copied = <<>> /\ file_pos = 0

\* The queue goes on where the wire stops, and the copied buffers where the
\* queue stops, up to what has been read of the file.
InPlace ==
    rc \in {"busy", "AGAIN", "OK"} /\ pc # "open" =>
        \E m \in Nat : Chain(out, Len(wire), m) /\ Chain(copied, m, header + file_pos)

\* The copied buffers of a file end with last_buf once it is read, and an
\* empty file is copied into an empty buffer: neither is held back.
CopiedEnds ==
    /\ copied # <<>> /\ size > 0 /\ file_pos = size => copied[Len(copied)].last_buf
    /\ copied # <<>> /\ size = 0 => Empty(copied)

\* Once the body is handed to the write filter nothing of it is left behind.
AllQueued ==
    /\ pc \in {"body", "body sent"} => copied = <<>> /\ file_pos = size
    /\ rc \in {"OK", "AGAIN"} => copied = <<>> /\ file_pos = size

OutInv == OutTypes /\ Handling /\ InPlace /\ Filled(out) /\ CopiedEnds /\ AllQueued

\* The interval without bytes is the empty sequence.
LEMMA ByteRangeNone ==
    ASSUME NEW x \in Nat PROVE ByteRange(x, x) = <<>>
BY ByteRangeProperties

\* A worker that has sent nothing satisfies the invariant.
LEMMA OutInit ==
    Init => OutInv
<1> SUFFICES ASSUME Init PROVE OutInv
  OBVIOUS
<1>1. wire = <<>> /\ Len(wire) = 0 /\ ByteRange(0, 0) = <<>>
  BY ByteRangeNone DEF Init
<1>2. Limit \in Nat /\ MaxSize \in Nat
  BY OutputAssumption
<1>3. OutTypes
  <2>1. copied \in Seq(Buffer) /\ out \in Seq(Buffer)
    BY DEF Init
  <2> QED
    BY <1>1, <1>2, <2>1 DEF Init, OutTypes
<1>4. Handling /\ InPlace /\ CopiedEnds /\ AllQueued
  BY DEF Init, Handling, InPlace, CopiedEnds, AllQueued
<1>5. Filled(out)
  BY DEF Init, Filled
<1> QED
  BY <1>3, <1>4, <1>5 DEF OutInv

(* One writev: the wire grows by the n bytes that come next, the queue     *)
(* goes on behind them.                                                    *)
LEMMA WritevSteps ==
    ASSUME OutInv, NEW n \in Nat, Writev(n)
    PROVE  /\ n >= 1 /\ Len(wire') = Len(wire) + n /\ Len(wire') \in Nat
           /\ wire' = ByteRange(0, Len(wire')) /\ send' \in 0 .. Limit
           /\ out' \in Seq(Buffer) /\ Filled(out')
           /\ \E m \in Nat : /\ Chain(out', Len(wire'), m)
                             /\ Chain(copied, m, header + file_pos)
           /\ Len(wire') <= header + size
<1>1. /\ rc = "busy" /\ Len(wire) \in Nat /\ wire = ByteRange(0, Len(wire))
      /\ send \in 0 .. Limit /\ Filled(out) /\ Limit \in Nat /\ pc # "open"
      /\ header \in Nat /\ size \in Nat /\ file_pos \in Nat /\ file_pos <= size
  <2>1. pc \in {"header", "body"}
    BY DEF Writev
  <2>2. rc = "busy" /\ pc # "open"
    BY <2>1 DEF OutInv, Handling
  <2>3. Limit \in Nat /\ MaxSize \in Nat
    BY OutputAssumption
  <2>4. /\ Len(wire) \in Nat /\ wire = ByteRange(0, Len(wire)) /\ send \in 0 .. Limit
        /\ header \in Nat /\ size \in 0 .. MaxSize /\ file_pos \in 0 .. size
    BY DEF OutInv, OutTypes
  <2>5. Filled(out)
    BY DEF OutInv
  <2> QED
    BY <2>2, <2>3, <2>4, <2>5
<1>2. PICK m \in Nat : Chain(out, Len(wire), m) /\ Chain(copied, m, header + file_pos)
  BY <1>1 DEF OutInv, InPlace
<1>3. PICK bufs \in BufsGiven :
          /\ n \in 1 .. Len(Iovec(bufs))
          /\ out' = chain_update_sent(out, n)
          /\ send' = send + Len(Iovec(bufs))
          /\ wire' = wire \o SubSeq(Iovec(bufs), 1, n)
  BY Zenon DEF Writev
<1>4. bufs \in 0 .. Len(out)
  <2>1. MaxIovs \in Nat /\ Len(out) \in Nat
    BY <1>2, OutputAssumption DEF Chain
  <2>2. Min({MaxIovs, Len(out)}) \in Nat
    BY <2>1, MinOfTwo
  <2> QED
    BY <2>1, <2>2 DEF BufsGiven
<1> DEFINE iovec == Iovec(bufs)
<1>5. PICK k \in Nat : /\ k <= Limit - send /\ k <= m - Len(wire)
                       /\ iovec = ByteRange(Len(wire), Len(wire) + k)
  <2>1. Limit - send \in Nat
    BY <1>1
  <2>2. Chain(out, Len(wire), m)
    BY <1>2
  <2>3. Given(out, bufs, Limit - send, Len(wire), m)
    BY <1>4, <2>1, <2>2, IovecBytes, Zenon
  <2> QED
    BY <2>3, Zenon DEF Iovec, Given
<1>6. n \in 1 .. Len(iovec) /\ send' = send + Len(iovec) /\ wire' = wire \o SubSeq(iovec, 1, n)
  BY <1>3
<1> HIDE DEF iovec
<1>7. Len(iovec) = k
  <2>1. Len(wire) + k \in Nat /\ Len(wire) <= Len(wire) + k /\ (Len(wire) + k) - Len(wire) = k
    BY <1>1
  <2> QED
    BY <1>1, <1>5, <2>1, ByteRangeProperties
<1>8. n >= 1 /\ n <= k
  BY <1>6, <1>7
<1>9. SubSeq(iovec, 1, n) = ByteRange(Len(wire), Len(wire) + n)
  <2>1. Len(wire) + k \in Nat /\ Len(wire) <= Len(wire) + k /\ n <= (Len(wire) + k) - Len(wire)
    BY <1>1, <1>8
  <2> QED
    BY <1>1, <1>5, <2>1, ByteRangePrefix
<1>10. wire' = ByteRange(0, Len(wire) + n)
  <2>1. wire' = wire \o SubSeq(iovec, 1, n)
    BY <1>6
  <2>2. wire' = ByteRange(0, Len(wire)) \o ByteRange(Len(wire), Len(wire) + n)
    BY <1>1, <1>9, <2>1
  <2>3. /\ 0 \in Nat /\ Len(wire) \in Nat /\ Len(wire) + n \in Nat
        /\ 0 <= Len(wire) /\ Len(wire) <= Len(wire) + n
    BY <1>1
  <2> QED
    BY <2>2, <2>3, ByteRangeConcat
<1>11. Len(wire') = Len(wire) + n
  <2>1. Len(wire) + n \in Nat /\ 0 <= Len(wire) + n
    BY <1>1
  <2> QED
    BY <1>10, <2>1, ByteRangeProperties
<1>12. Chain(out', Len(wire) + n, m) /\ Filled(out')
  <2>1. out' = chain_update_sent(out, n)
    BY <1>3
  <2>2. n <= m - Len(wire)
    BY <1>1, <1>5, <1>8
  <2> QED
    BY <1>1, <1>2, <2>1, <2>2, UpdateSent
<1>13. send' \in 0 .. Limit
  <2>1. send' = send + k
    BY <1>6, <1>7
  <2> QED
    BY <1>1, <1>5, <2>1
<1>14. Len(wire) + n <= header + size
  <2>1. Len(wire) + n <= m
    BY <1>12 DEF Chain
  <2>2. m <= header + file_pos
    BY <1>2 DEF Chain
  <2> QED
    BY <1>1, <2>1, <2>2
<1>15. out' \in Seq(Buffer) /\ Len(wire) + n \in Nat
  BY <1>1, <1>12 DEF Chain
<1>16. \E x \in Nat : Chain(out', Len(wire'), x) /\ Chain(copied, x, header + file_pos)
  BY <1>2, <1>11, <1>12
<1> QED
  BY <1>8, <1>10, <1>11, <1>12, <1>13, <1>14, <1>15, <1>16

(* A handler that only returns, or goes on to the next step of its program *)
(* without touching the response, keeps the invariant.                     *)
LEMMA ResponseKept ==
    ASSUME OutInv, UNCHANGED <<header, size, file_pos, copied, out, wire>>,
           send' \in 0 .. Limit, pc # "idle", pc = "open" => rc' = "ERROR",
           \/ pc' = "idle" /\ rc' = "ERROR"
           \/ /\ pc' = "idle" /\ rc' \in {"OK", "AGAIN"} /\ copied = <<>> /\ file_pos = size
           \/ /\ pc' \in {"copy", "header", "header sent"} /\ rc' = rc
           \/ /\ pc' \in {"body", "body sent"} /\ rc' = rc
              /\ copied = <<>> /\ file_pos = size
    PROVE  OutInv'
<1>1. rc = "busy"
  BY DEF OutInv, Handling
<1>2. OutTypes'
  BY <1>1 DEF OutInv, OutTypes
<1>3. Handling'
  BY <1>1 DEF Handling
<1>4. InPlace'
  BY <1>1 DEF OutInv, InPlace
<1>5. Filled(out)'
  BY DEF OutInv, Filled
<1>6. CopiedEnds'
  BY DEF OutInv, CopiedEnds, Empty
<1>7. AllQueued'
  BY <1>1 DEF OutInv, AllQueued
<1> QED
  BY <1>2, <1>3, <1>4, <1>5, <1>6, <1>7 DEF OutInv

\* The handler is called.
LEMMA StaticHandlerStep ==
    ASSUME OutInv, NEW h \in HeaderLens \cup {0}, NEW n \in 0 .. MaxSize,
           NEW file \in {"file", "directory", "missing"}, StaticHandler(h, file, n)
    PROVE  OutInv' /\ size' \in 0 .. MaxSize /\ header' = h /\ h \in Nat
<1>1. MaxSize \in Nat /\ Limit \in Nat /\ HeaderLens \subseteq Nat
  BY OutputAssumption
<1>2. size' \in 0 .. MaxSize
  <2>1. size' = open_cached_file(file, n).size
    BY Zenon DEF StaticHandler
  <2>2. open_cached_file(file, n).size \in 0 .. MaxSize
    BY <1>1 DEF open_cached_file
  <2> QED
    BY <2>1, <2>2
<1>3. /\ header' = h /\ file_pos' = 0 /\ copied' = <<>> /\ out' = <<>> /\ send' = 0
      /\ wire' = <<>> /\ rc' = "busy" /\ pc' = "open"
  BY DEF StaticHandler
<1>4. OutTypes'
  <2>1. wire' = ByteRange(0, 0) /\ Len(wire') = 0
    BY <1>3, ByteRangeNone
  <2>2. copied' \in Seq(Buffer) /\ out' \in Seq(Buffer)
    BY <1>3
  <2>3. file_pos' \in 0 .. size' /\ send' \in 0 .. Limit
    BY <1>1, <1>2, <1>3
  <2> QED
    BY <1>1, <1>2, <1>3, <2>1, <2>2, <2>3 DEF OutTypes
<1>5. Handling' /\ InPlace' /\ CopiedEnds' /\ AllQueued'
  BY <1>3 DEF Handling, InPlace, CopiedEnds, AllQueued
<1>6. Filled(out)'
  BY <1>3 DEF Filled
<1> QED
  BY <1>1, <1>2, <1>3, <1>4, <1>5, <1>6 DEF OutInv

\* The header is queued behind nothing.
LEMMA SendHeaderStep ==
    ASSUME OutInv, SendHeader
    PROVE  OutInv'
<1>1. /\ pc = "open" /\ rc = "busy" /\ wire = <<>> /\ out = <<>> /\ copied = <<>> /\ file_pos = 0
      /\ Len(wire) = 0
  BY DEF OutInv, Handling, SendHeader
<1>2. UNCHANGED <<header, size, file_pos, copied, wire, rc>> /\ send' = 0 /\ Limit \in Nat
  BY OutputAssumption DEF SendHeader
<1>3. header \in Nat
  BY DEF OutInv, OutTypes
<1>4. pc' \in {"copy", "header"} /\ out' \in Seq(Buffer) /\ Filled(out') /\ Chain(out', 0, header)
  <2>1. CASE header = 0
    <3>1. pc' = "copy" /\ out' = <<>>
      BY <1>1, <2>1 DEF SendHeader
    <3>2. Filled(<<>>) /\ <<>> \in Seq(Buffer) /\ Chain(<<>>, 0, 0)
      BY ChainNone DEF Filled
    <3> QED
      BY <2>1, <3>1, <3>2
  <2>2. CASE header # 0
    <3> DEFINE q == <<Buf(0, header, FALSE, FALSE)>>
    <3>1. Chain(q, 0, header) /\ q \in Seq(Buffer)
      <4>1. 0 \in Nat /\ 0 <= header /\ FALSE \in BOOLEAN
        BY <1>3
      <4> QED
        BY <1>3, <4>1, ChainOne
    <3>2. Filled(q)
      <4> DEFINE u == Buf(0, header, FALSE, FALSE)
      <4>1. u.pos < u.last
        BY <1>3, <2>2 DEF Buf
      <4> HIDE DEF u
      <4>2. Len(<<u>>) = 1 /\ <<u>>[1] = u
        OBVIOUS
      <4>3. Filled(<<u>>)
        BY <4>1, <4>2 DEF Filled
      <4> QED
        BY <4>3 DEF u
    <3>3. out' = out \o q
      BY <2>2 DEF SendHeader, Queued
    <3>4. pc' \in {"copy", "header"}
      BY <2>2 DEF SendHeader
    <3> HIDE DEF q
    <3>5. out' = q
      BY <1>1, <3>1, <3>3, ConcatEmptySeq
    <3> QED
      BY <3>1, <3>2, <3>4, <3>5
  <2> QED
    BY <2>1, <2>2
<1>5. OutTypes'
  <2>1. send' \in 0 .. Limit
    BY <1>2
  <2>2. OutTypes
    BY DEF OutInv
  <2> QED
    BY <1>1, <1>2, <1>4, <2>1, <2>2 DEF OutTypes
<1>6. Handling' /\ CopiedEnds' /\ AllQueued'
  BY <1>1, <1>2, <1>4 DEF Handling, CopiedEnds, AllQueued
<1>7. InPlace'
  <2>1. Chain(copied', header, header + file_pos')
    BY <1>1, <1>2, <1>3, ChainNone
  <2>2. Chain(out', Len(wire'), header)
    BY <1>1, <1>2, <1>4
  <2> QED
    BY <1>2, <1>3, <2>1, <2>2 DEF InPlace
<1>8. Filled(out)'
  BY <1>4 DEF Filled
<1> QED
  BY <1>5, <1>6, <1>7, <1>8 DEF OutInv

\* A buffer of the file is read behind the ones before it.
LEMMA CopyBufStep ==
    ASSUME OutInv, NEW n \in 0 .. MaxSize, NEW recycled \in BOOLEAN, CopyBuf(n, recycled)
    PROVE  OutInv' /\ UNCHANGED <<header, size, wire, rc>>
<1>1. /\ UNCHANGED <<pc, header, size, out, send, wire, rc>> /\ pc = "copy"
      /\ file_pos' = file_pos + n /\ n <= size - file_pos
      /\ IF size > 0 THEN file_pos < size ELSE copied = <<>>
  BY DEF CopyBuf
<1>2. /\ MaxSize \in Nat /\ header \in Nat /\ size \in Nat /\ file_pos \in Nat
      /\ file_pos <= size /\ n \in Nat /\ copied \in Seq(Buffer)
  <2>1. MaxSize \in Nat
    BY OutputAssumption
  <2>2. header \in Nat /\ size \in 0 .. MaxSize /\ file_pos \in 0 .. size /\ copied \in Seq(Buffer)
    BY DEF OutInv, OutTypes
  <2> QED
    BY <2>1, <2>2
<1> DEFINE last_buf == size > 0 /\ file_pos' = size
           x == header + file_pos
           y == header + file_pos + n
           u == Buf(x, y, last_buf, recycled)
<1>3. copied' = Append(copied, u)
  BY DEF CopyBuf
<1>4. x \in Nat /\ y \in Nat /\ x <= y /\ last_buf \in BOOLEAN /\ y = header + file_pos'
  BY <1>1, <1>2
<1>5. u.last_buf = last_buf /\ u.pos = x /\ u.last = y
  BY DEF Buf
<1> HIDE DEF last_buf, x, y
<1>6. Chain(<<u>>, x, y) /\ <<u>> \in Seq(Buffer) /\ u \in Buffer
  <2>1. Chain(<<u>>, x, y) /\ <<u>> \in Seq(Buffer)
    BY <1>4, ChainOne
  <2>2. u \in Buffer
    BY <1>4 DEF Buf, Buffer
  <2> QED
    BY <2>1, <2>2
<1> HIDE DEF u
<1>7. /\ copied' = copied \o <<u>> /\ copied' \in Seq(Buffer) /\ copied' # <<>>
      /\ Len(copied') = Len(copied) + 1 /\ copied'[Len(copied')] = u
      /\ copied = <<>> => copied'[1] = u /\ Len(copied') = 1
  BY <1>2, <1>3, <1>6
<1>8. OutTypes'
  <2>1. file_pos' \in 0 .. size
    BY <1>1, <1>2
  <2> QED
    BY <1>1, <1>7, <2>1 DEF OutInv, OutTypes
<1>9. Handling'
  BY <1>1 DEF OutInv, Handling
<1>10. rc = "busy"
  BY <1>1 DEF OutInv, Handling
<1>11. InPlace'
  <2>1. PICK m \in Nat : Chain(out, Len(wire), m) /\ Chain(copied, m, header + file_pos)
    BY <1>1, <1>10 DEF OutInv, InPlace
  <2>2. Chain(copied, m, x)
    BY <2>1 DEF x
  <2>3. Chain(copied', m, header' + file_pos')
    <3>1. Chain(copied \o <<u>>, m, y)
      BY <1>6, <2>2, ChainConcat
    <3> QED
      BY <1>1, <1>4, <1>7, <3>1
  <2> QED
    BY <1>1, <2>1, <2>3 DEF InPlace
<1>12. Filled(out)'
  BY <1>1 DEF OutInv, Filled
<1>13. CopiedEnds'
  <2>1. size > 0 /\ file_pos' = size => copied'[Len(copied')].last_buf
    BY <1>5, <1>7 DEF last_buf
  <2>2. size = 0 => Empty(copied')
    <3> SUFFICES ASSUME size = 0 PROVE Empty(copied')
      OBVIOUS
    <3>1. copied = <<>> /\ n = 0 /\ x = y
      BY <1>1, <1>2 DEF x, y
    <3>2. u.last - u.pos = 0
      BY <1>4, <1>5, <3>1
    <3>3. copied'[1] = u /\ 1 \in DOMAIN copied'
      BY <1>7, <3>1
    <3> QED
      BY <3>2, <3>3 DEF Empty, buf_size
  <2> QED
    BY <1>1, <2>1, <2>2 DEF CopiedEnds, Empty
<1>14. AllQueued'
  BY <1>1, <1>10 DEF AllQueued
<1> QED
  BY <1>1, <1>8, <1>9, <1>11, <1>12, <1>13, <1>14 DEF OutInv

\* Everything copied is queued behind the rest of the header; the end of the
\* response is among it, so it is not held back.
LEMMA OutputFilterStep ==
    ASSUME OutInv, OutputFilter
    PROVE  /\ OutInv' /\ UNCHANGED <<header, size, wire>>
           /\ rc' = rc \/ rc' = "ERROR"
<1>1. /\ UNCHANGED <<header, size, file_pos, wire>> /\ pc = "copy" /\ file_pos = size
      /\ copied # <<>>
  BY DEF OutputFilter
<1>2. rc = "busy"
  BY <1>1 DEF OutInv, Handling
<1>3. /\ out \in Seq(Buffer) /\ copied \in Seq(Buffer) /\ header \in Nat /\ size \in Nat
      /\ Limit \in Nat /\ send \in 0 .. Limit
  <2>1. MaxSize \in Nat /\ Limit \in Nat
    BY OutputAssumption
  <2>2. /\ out \in Seq(Buffer) /\ copied \in Seq(Buffer) /\ header \in Nat
        /\ size \in 0 .. MaxSize /\ send \in 0 .. Limit
    BY DEF OutInv, OutTypes
  <2> QED
    BY <2>1, <2>2
<1>4. CASE Empty(copied)
  <2>1. pc' = "idle" /\ rc' = "ERROR" /\ UNCHANGED <<out, send, copied>>
    BY <1>4 DEF OutputFilter, Return
  <2>2. OutInv'
    BY <1>1, <1>3, <2>1, ResponseKept
  <2> QED
    BY <1>1, <2>1, <2>2
<1>5. CASE ~Empty(copied)
  <2>1. /\ out' = out \o copied /\ send' = 0 /\ copied' = <<>>
        /\ IF Hold(out') THEN pc' = "idle" /\ rc' = "OK" ELSE pc' = "body" /\ rc' = rc
    BY <1>5 DEF OutputFilter, Return, Queued
  <2> DEFINE k == Len(out)
             j == Len(copied)
  <2>2. k \in Nat /\ j \in Nat \ {0} /\ DOMAIN copied = 1 .. j
    BY <1>1, <1>3
  <2>3. /\ out' \in Seq(Buffer) /\ Len(out') = k + j /\ DOMAIN out' = 1 .. k + j
        /\ \A i \in 1 .. k + j : out'[i] = IF i <= k THEN out[i] ELSE copied[i - k]
    <3>1. /\ out \o copied \in Seq(Buffer) /\ Len(out \o copied) = k + j
          /\ \A i \in 1 .. k + j : (out \o copied)[i] = IF i <= k THEN out[i] ELSE copied[i - k]
      BY <1>3, ConcatProperties
    <3>2. DOMAIN (out \o copied) = 1 .. Len(out \o copied)
      BY <3>1
    <3> QED
      BY <2>1, <3>1, <3>2
  <2> HIDE DEF k, j
  <2>4. ~Hold(out')
    <3>1. size > 0
      BY <1>1, <1>3, <1>5 DEF OutInv, CopiedEnds
    <3>2. copied[j].last_buf
      BY <1>1, <3>1 DEF OutInv, CopiedEnds, j
    <3>3. k + j \in DOMAIN out' /\ out'[k + j] = copied[j]
      BY <2>2, <2>3
    <3> QED
      BY <3>2, <3>3 DEF Hold
  <2>5. pc' = "body" /\ rc' = rc
    BY <2>1, <2>4
  <2>6. PICK m \in Nat : Chain(out, Len(wire), m) /\ Chain(copied, m, header + file_pos)
    BY <1>1, <1>2 DEF OutInv, InPlace
  <2>7. InPlace'
    <3>1. Chain(out', Len(wire'), header + file_pos)
      BY <1>1, <2>1, <2>6, ChainConcat
    <3>2. header + file_pos \in Nat
      BY <1>1, <1>3
    <3>3. Chain(copied', header + file_pos, header' + file_pos')
      BY <1>1, <2>1, <3>2, ChainNone
    <3> QED
      BY <3>1, <3>2, <3>3 DEF InPlace
  <2>8. Filled(out)'
    <3>1. ASSUME NEW i \in 1 .. k + j PROVE out'[i].pos < out'[i].last
      <4>1. CASE i <= k
        <5>1. i \in 1 .. Len(out) /\ out'[i] = out[i]
          BY <2>2, <2>3, <4>1 DEF k
        <5> QED
          BY <5>1 DEF OutInv, Filled
      <4>2. CASE ~(i <= k)
        <5>1. i - k \in 1 .. j /\ out'[i] = copied[i - k]
          BY <2>2, <2>3, <4>2
        <5>2. copied[i - k].pos <= copied[i - k].last
          BY <2>6, <5>1 DEF Chain, j
        <5>3. copied[i - k] \in Buffer
          BY <1>3, <2>2, <5>1
        <5>4. copied[i - k].last - copied[i - k].pos # 0
          BY <1>5, <2>2, <5>1 DEF Empty, buf_size
        <5> QED
          BY <5>1, <5>2, <5>3, <5>4 DEF Buffer
      <4> QED
        BY <4>1, <4>2
    <3> QED
      BY <2>3, <3>1 DEF Filled
  <2>9. OutTypes'
    <3>1. copied' \in Seq(Buffer) /\ send' \in 0 .. Limit
      BY <1>3, <2>1
    <3>2. OutTypes
      BY DEF OutInv
    <3> QED
      BY <1>1, <2>3, <2>5, <3>1, <3>2 DEF OutTypes
  <2>10. Handling' /\ CopiedEnds' /\ AllQueued'
    BY <1>1, <1>2, <2>1, <2>5 DEF Handling, CopiedEnds, AllQueued
  <2> QED
    BY <1>1, <2>5, <2>7, <2>8, <2>9, <2>10 DEF OutInv
<1> QED
  BY <1>4, <1>5

\* A round of send_chain that sent something.
LEMMA WritevStep ==
    ASSUME OutInv, NEW n \in Nat, Writev(n)
    PROVE  OutInv'
<1>1. /\ pc \in {"header", "body"} /\ UNCHANGED <<header, size, file_pos, copied, rc>>
      /\ pc' = IF out' # <<>> /\ send' < Limit THEN pc
               ELSE IF pc = "header" THEN "header sent" ELSE "body sent"
  BY DEF Writev, After
<1>2. rc = "busy"
  BY <1>1 DEF OutInv, Handling
<1>3. /\ Len(wire') \in Nat /\ wire' = ByteRange(0, Len(wire')) /\ send' \in 0 .. Limit
      /\ out' \in Seq(Buffer) /\ Filled(out')
  BY WritevSteps
<1>4. PICK m \in Nat : Chain(out', Len(wire'), m) /\ Chain(copied, m, header + file_pos)
  BY WritevSteps
<1>5. \/ pc' \in {"header", "header sent"}
      \/ pc = "body" /\ pc' \in {"body", "body sent"}
  <2>1. CASE pc = "header"
    BY <1>1, <2>1
  <2>2. CASE pc = "body"
    BY <1>1, <2>2
  <2> QED
    BY <1>1, <2>1, <2>2
<1>6. OutTypes'
  <2>1. OutTypes
    BY DEF OutInv
  <2> QED
    BY <1>1, <1>3, <1>5, <2>1 DEF OutTypes
<1>7. Handling'
  BY <1>1, <1>2, <1>5 DEF Handling
<1>8. InPlace'
  BY <1>1, <1>4 DEF InPlace
<1>9. Filled(out)'
  BY <1>3 DEF Filled
<1>10. CopiedEnds'
  BY <1>1 DEF OutInv, CopiedEnds, Empty
<1>11. AllQueued'
  BY <1>1, <1>2, <1>5 DEF OutInv, AllQueued
<1> QED
  BY <1>6, <1>7, <1>8, <1>9, <1>10, <1>11 DEF OutInv

\* The steps that end or go on without touching the response.
LEMMA OtherSteps ==
    ASSUME OutInv,
           SendHeaderFails \/ CopyFails \/ WritevAgain \/ WritevFails \/ WriteFilterReturns
    PROVE  /\ OutInv' /\ UNCHANGED <<header, size, wire>>
           /\ \/ rc' = rc \/ rc' = "ERROR"
              \/ /\ pc = "body sent" /\ rc' = IF out = <<>> THEN "OK" ELSE "AGAIN"
<1>1. send \in 0 .. Limit
  BY DEF OutInv, OutTypes
<1>2. pc \in {"body", "body sent"} => copied = <<>> /\ file_pos = size
  BY DEF OutInv, AllQueued
<1>3. CASE SendHeaderFails \/ CopyFails \/ WritevFails
  <2>1. /\ UNCHANGED <<header, size, file_pos, copied, out, wire, send>>
        /\ pc' = "idle" /\ rc' = "ERROR" /\ pc # "idle"
    BY <1>3 DEF SendHeaderFails, CopyFails, WritevFails, Return
  <2>2. OutInv'
    BY <1>1, <2>1, ResponseKept
  <2> QED
    BY <2>1, <2>2
<1>4. CASE WritevAgain
  <2>1. /\ UNCHANGED <<header, size, file_pos, copied, out, wire, send, rc>>
        /\ pc \in {"header", "body"}
        /\ pc' = IF pc = "header" THEN "header sent" ELSE "body sent"
    <3>1. ~(Limit < Limit)
      BY OutputAssumption
    <3> QED
      BY <1>4, <3>1 DEF WritevAgain, After
  <2>2. OutInv'
    BY <1>1, <1>2, <2>1, ResponseKept
  <2> QED
    BY <2>1, <2>2
<1>5. CASE WriteFilterReturns
  <2>1. /\ UNCHANGED <<header, size, file_pos, copied, out, wire, send>>
        /\ \/ pc = "header sent" /\ pc' = "copy" /\ rc' = rc
           \/ /\ pc = "body sent" /\ pc' = "idle"
              /\ rc' = IF out = <<>> THEN "OK" ELSE "AGAIN"
    BY <1>5 DEF WriteFilterReturns, Return
  <2>2. OutInv'
    BY <1>1, <1>2, <2>1, ResponseKept
  <2> QED
    BY <2>1, <2>2
<1> QED
  BY <1>3, <1>4, <1>5

\* No header is longer than the longest.
LEMMA LargestHeader ==
    /\ Max(HeaderLens) \in Nat
    /\ \A h \in HeaderLens \cup {0} : h \in Nat /\ h <= Max(HeaderLens)
<1>1. HeaderLens \subseteq Nat /\ HeaderLens # {} /\ IsFiniteSet(HeaderLens)
  BY OutputAssumption
<1>2. PICK n \in Nat : HeaderLens \subseteq 0 .. n
  BY <1>1, FiniteBounded
<1>3. Max(HeaderLens) \in HeaderLens /\ \A h \in HeaderLens : Max(HeaderLens) >= h
  BY <1>1, <1>2, MaxOfNats
<1> DEFINE x == Max(HeaderLens)
<1>4. x \in Nat /\ \A h \in HeaderLens : h \in Nat /\ h <= x
  <2>1. x \in HeaderLens /\ \A h \in HeaderLens : x >= h
    BY <1>3
  <2> HIDE DEF x
  <2> QED
    BY <1>1, <2>1
<1> HIDE DEF x
<1>5. \A h \in HeaderLens \cup {0} : h \in Nat /\ h <= x
  BY <1>4
<1> QED
  BY <1>4, <1>5 DEF x

\* What the invariant says of the sizes.
LEMMA Sizes ==
    ASSUME OutInv
    PROVE  /\ Len(wire) \in Nat /\ wire = ByteRange(0, Len(wire)) /\ header \in Nat
           /\ size \in Nat /\ file_pos \in Nat /\ file_pos <= size
           /\ header + size \in Nat
<1>1. MaxSize \in Nat
  BY OutputAssumption
<1>2. /\ Len(wire) \in Nat /\ wire = ByteRange(0, Len(wire)) /\ header \in Nat
      /\ size \in 0 .. MaxSize /\ file_pos \in 0 .. size
  BY DEF OutInv, OutTypes
<1> QED
  BY <1>1, <1>2

\* Every step of sending a response keeps the invariant.
LEMMA OutStep ==
    OutInv /\ [Next]_ovars => OutInv'
<1> SUFFICES ASSUME OutInv, [Next]_ovars PROVE OutInv'
  OBVIOUS
<1>1. CASE \E h \in HeaderLens \cup {0}, n \in 0 .. MaxSize,
              file \in {"file", "directory", "missing"} : StaticHandler(h, file, n)
  BY <1>1, StaticHandlerStep
<1>2. CASE SendHeader
  BY <1>2, SendHeaderStep
<1>3. CASE \E n \in 0 .. MaxSize, recycled \in BOOLEAN : CopyBuf(n, recycled)
  BY <1>3, CopyBufStep
<1>4. CASE OutputFilter
  BY <1>4, OutputFilterStep
<1>5. CASE \E n \in 1 .. MaxSize + Max(HeaderLens) : Writev(n)
  <2>1. PICK n \in 1 .. MaxSize + Max(HeaderLens) : Writev(n)
    BY <1>5
  <2>2. n \in Nat
    BY <2>1, LargestHeader, OutputAssumption
  <2> QED
    BY <2>1, <2>2, WritevStep
<1>6. CASE SendHeaderFails \/ CopyFails \/ WritevAgain \/ WritevFails \/ WriteFilterReturns
  BY <1>6, OtherSteps
<1>7. CASE UNCHANGED ovars
  <2>1. OutTypes' /\ Handling' /\ InPlace' /\ AllQueued'
    BY <1>7 DEF OutInv, ovars, OutTypes, Handling, InPlace, AllQueued
  <2>2. CopiedEnds' /\ Filled(out)'
    BY <1>7 DEF OutInv, ovars, CopiedEnds, Filled, Empty
  <2> QED
    BY <2>1, <2>2 DEF OutInv
<1> QED
  BY <1>1, <1>2, <1>3, <1>4, <1>5, <1>6, <1>7 DEF Next

-----------------------------------------------------------------------------
(* Theorems                                                                *)

\* OutInv holds in every state, whatever the sizes of headers, files, buffers
\* and limits.
THEOREM OutputInvariant == OutputSpec => []OutInv
BY OutInit, OutStep, PTL DEF OutputSpec

\* However writev splits what night_writev_chain gives it and however
\* night_output_chain cuts the file, no byte of the response is lost, sent
\* twice or out of place.
THEOREM BytesAreConserved == OutputSpec => []BytesConserved
<1>1. OutInv => BytesConserved
  <2> SUFFICES ASSUME OutInv, rc \in {"busy", "AGAIN", "OK"}, pc # "open"
               PROVE  wire \o Bytes(out) \o Bytes(copied)
                          \o ByteRange(header + file_pos, header + size)
                      = ByteRange(0, total)
    BY DEF BytesConserved
  <2>1. /\ Len(wire) \in Nat /\ wire = ByteRange(0, Len(wire)) /\ header \in Nat
        /\ size \in Nat /\ file_pos \in Nat /\ file_pos <= size
    BY Sizes
  <2>2. PICK m \in Nat : Chain(out, Len(wire), m) /\ Chain(copied, m, header + file_pos)
    BY DEF OutInv, InPlace
  <2> DEFINE x == Len(wire)
             y == header + file_pos
             z == header + size
  <2>3. x \in Nat /\ y \in Nat /\ z \in Nat /\ x <= m /\ m <= y /\ y <= z
    BY <2>1, <2>2 DEF Chain
  <2>4. Bytes(out) = ByteRange(x, m) /\ Bytes(copied) = ByteRange(m, y)
    BY <2>2, ChainBytes
  <2>5. wire = ByteRange(0, x) /\ total = z
    BY <2>1 DEF total
  <2> HIDE DEF x, y, z
  <2>5a. 0 \in Nat /\ 0 <= x /\ 0 <= m /\ 0 <= y
    BY <2>3
  <2>6. ByteRange(0, x) \o ByteRange(x, m) = ByteRange(0, m)
    BY <2>3, <2>5a, ByteRangeConcat
  <2>7. ByteRange(0, m) \o ByteRange(m, y) = ByteRange(0, y)
    BY <2>3, <2>5a, ByteRangeConcat
  <2>8. ByteRange(0, y) \o ByteRange(y, z) = ByteRange(0, z)
    BY <2>3, <2>5a, ByteRangeConcat
  <2>9. wire \o Bytes(out) \o Bytes(copied) \o ByteRange(y, z) = ByteRange(0, total)
    BY <2>4, <2>5, <2>6, <2>7, <2>8
  <2> QED
    BY <2>9 DEF y, z
<1> QED
  BY <1>1, OutputInvariant, PTL

\* A step of the output path is a step of the stream or leaves it alone.
LEMMA StreamStep ==
    OutInv /\ [Next]_ovars => [Stream!Next]_Stream!svars
<1> SUFFICES ASSUME OutInv, [Next]_ovars PROVE [Stream!Next]_Stream!svars
  OBVIOUS
<1> DEFINE keeps == UNCHANGED <<header, size, wire>>
<1>1. keeps /\ rc' = rc => UNCHANGED Stream!svars
  BY DEF Stream!svars, total
<1>2. keeps /\ rc = "busy" /\ rc' = "ERROR" => Stream!Finish
  BY DEF Stream!Finish, total
<1>3. pc # "idle" => rc = "busy"
  BY DEF OutInv, Handling
<1>4. CASE \E h \in HeaderLens \cup {0}, n \in 0 .. MaxSize,
              file \in {"file", "directory", "missing"} : StaticHandler(h, file, n)
  <2>1. PICK h \in HeaderLens \cup {0}, n \in 0 .. MaxSize,
             file \in {"file", "directory", "missing"} : StaticHandler(h, file, n)
    BY <1>4
  <2>2. size' \in 0 .. MaxSize /\ header' = h /\ h \in Nat
    BY <2>1, StaticHandlerStep
  <2>3. rc # "busy" /\ rc' = "busy" /\ wire' = <<>>
    BY <2>1 DEF StaticHandler, OutInv, Handling
  <2>4. h <= Max(HeaderLens) /\ Max(HeaderLens) \in Nat /\ MaxSize \in Nat
    BY <2>1, LargestHeader, OutputAssumption
  <2>5. total' \in 0 .. MaxSize + Max(HeaderLens)
    <3> HIDE DEF keeps
    <3>1. total' = header' + size'
      BY DEF total
    <3> DEFINE x == Max(HeaderLens)
    <3>2. h <= x /\ x \in Nat /\ MaxSize \in Nat
      BY <2>4
    <3> HIDE DEF x
    <3>3. h + size' \in 0 .. MaxSize + x
      <4>1. h \in Nat /\ size' \in Nat /\ size' <= MaxSize
        BY <2>2, <3>2
      <4>2. \A u, v, w, t \in Nat : u <= v /\ w <= t => u + w \in 0 .. t + v
        OBVIOUS
      <4> QED
        BY <3>2, <4>1, <4>2
    <3> QED
      BY <2>2, <3>1, <3>3 DEF x
  <2>6. Stream!Begin
    BY <2>3, <2>5 DEF Stream!Begin
  <2> QED
    BY <2>6 DEF Stream!Next
<1>5. CASE SendHeader
  <2>1. keeps /\ rc' = rc
    BY <1>5 DEF SendHeader
  <2> QED
    BY <1>1, <2>1
<1>6. CASE \E n \in 0 .. MaxSize, recycled \in BOOLEAN : CopyBuf(n, recycled)
  <2>1. keeps /\ rc' = rc
    BY <1>6 DEF CopyBuf
  <2> QED
    BY <1>1, <2>1
<1>7. CASE OutputFilter
  <2>1. keeps /\ (rc' = rc \/ rc' = "ERROR")
    BY <1>7, OutputFilterStep
  <2>2. rc = "busy"
    BY <1>3, <1>7 DEF OutputFilter
  <2> QED
    BY <1>1, <1>2, <2>1, <2>2 DEF Stream!Next
<1>8. CASE \E n \in 1 .. MaxSize + Max(HeaderLens) : Writev(n)
  <2>1. PICK n \in 1 .. MaxSize + Max(HeaderLens) : Writev(n)
    BY <1>8
  <2>2. n \in Nat
    BY <2>1, LargestHeader, OutputAssumption
  <2>3. /\ n >= 1 /\ Len(wire') = Len(wire) + n /\ wire' = ByteRange(0, Len(wire'))
        /\ Len(wire') <= header + size
    BY <2>1, <2>2, WritevSteps
  <2>4. Len(wire) \in Nat /\ header + size \in Nat
    BY Sizes
  <2>5. Len(wire') \in Len(wire) + 1 .. total
    BY <2>2, <2>3, <2>4 DEF total
  <2>6. wire' = Stream!Prefix(Len(wire'))
    <3> DEFINE k == Len(wire')
    <3>1. k \in Nat
      BY <2>2, <2>3, <2>4
    <3> HIDE DEF k
    <3>2. ByteRange(0, k) = Stream!Prefix(k)
      BY <3>1 DEF ByteRange, Stream!Prefix
    <3> QED
      BY <2>3, <3>2 DEF k
  <2>7. rc = "busy" /\ UNCHANGED <<total, rc>>
    BY <1>3, <2>1 DEF Writev, total
  <2>8. Stream!Deliver
    BY <2>5, <2>6, <2>7 DEF Stream!Deliver
  <2> QED
    BY <2>8 DEF Stream!Next
<1>9. CASE SendHeaderFails \/ CopyFails \/ WritevAgain \/ WritevFails \/ WriteFilterReturns
  <2>1. rc = "busy"
    BY <1>3, <1>9 DEF SendHeaderFails, CopyFails, WritevAgain, WritevFails, WriteFilterReturns
  <2>2. /\ keeps
        /\ \/ rc' = rc \/ rc' = "ERROR"
           \/ /\ pc = "body sent" /\ rc' = IF out = <<>> THEN "OK" ELSE "AGAIN"
    BY <1>9, OtherSteps
  <2>3. CASE pc = "body sent" /\ rc' = IF out = <<>> THEN "OK" ELSE "AGAIN"
    <3>1. copied = <<>> /\ file_pos = size
      BY <2>3 DEF OutInv, AllQueued
    <3>2. PICK m \in Nat : Chain(out, Len(wire), m) /\ Chain(copied, m, header + file_pos)
      BY <2>1, <2>3 DEF OutInv, InPlace
    <3>3. m = total
      BY <3>1, <3>2 DEF Chain, total
    <3>4. out = <<>> => Len(wire) = total
      BY <3>2, <3>3 DEF Chain
    <3>5. out # <<>> => Len(wire) < total
      <4> SUFFICES ASSUME out # <<>> PROVE Len(wire) < total
        OBVIOUS
      <4>1. 1 \in 1 .. Len(out) /\ out[1] \in Buffer
        BY <3>2 DEF Chain
      <4>2. out[1].pos < out[1].last
        BY <4>1 DEF OutInv, Filled
      <4>3. out[1].pos = Len(wire) /\ out[1].last <= total /\ Len(wire) \in Nat /\ total \in Nat
        BY <3>2, <3>3, <4>1 DEF Chain
      <4> QED
        BY <4>1, <4>2, <4>3 DEF Buffer
    <3>6. UNCHANGED <<total, wire>>
      BY <2>2 DEF total
    <3>7. Stream!Finish
      BY <2>1, <2>3, <3>4, <3>5, <3>6 DEF Stream!Finish
    <3> QED
      BY <3>7 DEF Stream!Next
  <2>4. CASE rc' = rc
    BY <1>1, <2>2, <2>4
  <2>5. CASE rc' = "ERROR"
    BY <1>2, <2>1, <2>2, <2>5 DEF Stream!Next
  <2> QED
    BY <2>2, <2>3, <2>4, <2>5
<1>10. CASE UNCHANGED ovars
  BY <1>1, <1>10 DEF ovars
<1> QED
  BY <1>4, <1>5, <1>6, <1>7, <1>8, <1>9, <1>10 DEF Next

(* The output path refines NightStream: every step of the handler, the     *)
(* filters and send_chain is a Begin, a Deliver or a Finish of the stream, *)
(* or leaves what the client sees alone. So the client sees a growing      *)
(* prefix of the response, and NIGHT_OK and NIGHT_AGAIN tell the truth.    *)
THEOREM OutputImplementsStream == OutputSpec => ImplementsStream
<1>1. Init => Stream!Init
  BY DEF Init, Stream!Init, total
<1> QED
  BY <1>1, StreamStep, OutputInvariant, PTL DEF OutputSpec, ImplementsStream, Stream!StreamSpec
=============================================================================
