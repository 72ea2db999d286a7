----------------------------- MODULE KmemProofs -----------------------------
(***************************************************************************)
(* Proofs about Kmem, for every arena, header, alignment, word and set of  *)
(* sizes, and any number of calls.                                         *)
(***************************************************************************)
EXTENDS Kmem, NatLemmas, SequenceTheorems

(* What the proofs need to know of the arena, without the arithmetic of    *)
(* rounding.                                                               *)
LEMMA ArenaFacts ==
  Header \in Nat \ {0} /\ ArenaSize \in Nat /\ ArenaSize > Header /\ Alignment \in Nat \ {0}
BY KmemAssumption

USE ArenaFacts

Block == [at : Nat, size : Nat, used : BOOLEAN]
End(b) == b.at + Header + b.size

\* The blocks lie side by side from the start of the arena to e.
TilesTo(s, e) ==
  /\ s \in Seq(Block) /\ s # <<>>
  /\ s[1].at = 0
  /\ \A i \in 1 .. (Len(s) - 1) : End(s[i]) = s[i + 1].at
  /\ End(s[Len(s)]) = e

\* No two neighbours are free.
Apart(s) == \A i \in 1 .. (Len(s) - 1) : s[i].used \/ s[i + 1].used

-----------------------------------------------------------------------------
(* The layout.                                                             *)

(* A block ends after it begins, by its header at least.                   *)
LEMMA BlockEnds ==
  ASSUME NEW b \in Block
  PROVE  b.at \in Nat /\ b.size \in Nat /\ End(b) \in Nat /\ b.at + Header <= End(b) /\ b.at < End(b)
BY DEF Block, End

(* Blocks that lie side by side come in the order of their addresses, and  *)
(* the last one ends them.                                                 *)
LEMMA TilesInOrder ==
  ASSUME NEW s, NEW e, TilesTo(s, e)
  PROVE  /\ \A i, j \in 1 .. Len(s) : i < j => End(s[i]) <= s[j].at
         /\ \A i \in 1 .. Len(s) : End(s[i]) <= e
<1>0. /\ s \in Seq(Block) /\ s # <<>>
      /\ \A i \in 1 .. (Len(s) - 1) : End(s[i]) = s[i + 1].at
      /\ End(s[Len(s)]) = e
  BY DEF TilesTo
<1>1. /\ Len(s) \in Nat /\ Len(s) >= 1
      /\ \A i \in 1 .. Len(s) : /\ s[i].at \in Nat /\ End(s[i]) \in Nat
                                /\ s[i].at <= End(s[i])
  <2>1. Len(s) \in Nat /\ \A i \in 1 .. Len(s) : s[i] \in Block
    BY <1>0
  <2>2. Len(s) # 0
    BY <1>0, EmptySeq
  <2> QED
    BY <2>1, <2>2, BlockEnds
<1> DEFINE N == Len(s)
           D == {j \in Nat : \A i \in 1 .. N : i < j /\ j <= N => End(s[i]) <= s[j].at}
<1>2. 0 \in D
  BY <1>1
<1>3. ASSUME NEW j \in Nat, j \in D PROVE j + 1 \in D
  <2> SUFFICES ASSUME NEW i \in 1 .. N, i < j + 1, j + 1 <= N PROVE End(s[i]) <= s[j + 1].at
    OBVIOUS
  <2>1. j \in 1 .. (N - 1) /\ j \in 1 .. N /\ j <= N /\ End(s[j]) = s[j + 1].at
    BY <1>0, <1>1
  <2>2. CASE i = j
    BY <1>1, <2>1, <2>2
  <2>3. CASE i < j
    <3>1. End(s[i]) <= s[j].at
      BY <1>3, <2>1, <2>3
    <3> QED
      BY <1>1, <2>1, <3>1
  <2> QED
    BY <2>1, <2>2, <2>3
<1>4. Nat \subseteq D
  <2> HIDE DEF D
  <2> QED
    BY <1>2, <1>3, NatSetInduction
<1>5. \A i, j \in 1 .. Len(s) : i < j => End(s[i]) <= s[j].at
  BY <1>1, <1>4
<1>6. ASSUME NEW i \in 1 .. Len(s) PROVE End(s[i]) <= e
  <2>1. CASE i = Len(s)
    BY <1>0, <1>1, <2>1
  <2>2. CASE i < Len(s)
    <3>1. Len(s) \in 1 .. Len(s) /\ End(s[i]) <= s[Len(s)].at
      BY <1>1, <1>5, <2>2
    <3> QED
      BY <1>0, <1>1, <3>1
  <2> QED
    BY <1>1, <2>1, <2>2
<1> QED
  BY <1>5, <1>6

-----------------------------------------------------------------------------
(* The walk of kmem_stats_snapshot.                                        *)

Counts == [freeBytes : Nat, largestFree : Nat, freeBlocks : Nat, usedBlocks : Nat, usedBytes : Nat]

(* One turn of the walk.                                                   *)
LEMMA CountFacts ==
  ASSUME NEW s \in Counts, NEW b \in Block
  PROVE  /\ Count(s, b) \in Counts
         /\ Count(s, b).usedBytes = s.usedBytes + (IF b.used THEN b.size ELSE 0)
         /\ Count(s, b).usedBlocks = s.usedBlocks + (IF b.used THEN 1 ELSE 0)
         /\ Count(s, b).freeBytes = s.freeBytes + (IF b.used THEN 0 ELSE b.size)
         /\ Count(s, b).freeBlocks = s.freeBlocks + (IF b.used THEN 0 ELSE 1)
         /\ s.largestFree <= s.freeBytes => Count(s, b).largestFree <= Count(s, b).freeBytes
<1>1. /\ s.freeBytes \in Nat /\ s.largestFree \in Nat /\ s.freeBlocks \in Nat
      /\ s.usedBlocks \in Nat /\ s.usedBytes \in Nat /\ b.size \in Nat
      /\ s = [freeBytes |-> s.freeBytes, largestFree |-> s.largestFree, freeBlocks |-> s.freeBlocks,
              usedBlocks |-> s.usedBlocks, usedBytes |-> s.usedBytes]
  BY DEF Counts, Block
<1>2. CASE b.used
  <2>1. Count(s, b) = [freeBytes |-> s.freeBytes, largestFree |-> s.largestFree,
                       freeBlocks |-> s.freeBlocks, usedBlocks |-> s.usedBlocks + 1,
                       usedBytes |-> s.usedBytes + b.size]
    BY <1>1, <1>2 DEF Count
  <2> QED
    BY <1>1, <1>2, <2>1 DEF Counts
<1>3. CASE ~b.used
  <2>1. Count(s, b) = [freeBytes |-> s.freeBytes + b.size, largestFree |-> MaxOf(s.largestFree, b.size),
                       freeBlocks |-> s.freeBlocks + 1, usedBlocks |-> s.usedBlocks,
                       usedBytes |-> s.usedBytes]
    BY <1>1, <1>3 DEF Count
  <2>2. /\ MaxOf(s.largestFree, b.size) \in Nat
        /\ s.largestFree <= s.freeBytes => MaxOf(s.largestFree, b.size) <= s.freeBytes + b.size
    BY <1>1 DEF MaxOf
  <2> QED
    BY <1>1, <1>3, <2>1, <2>2 DEF Counts
<1> QED
  BY <1>2, <1>3

(* One turn counts one block and its bytes.                                *)
LEMMA CountSums ==
  ASSUME NEW a \in Counts, NEW b \in Block, NEW c, c = Count(a, b)
  PROVE  /\ c.usedBytes + c.freeBytes = a.usedBytes + a.freeBytes + b.size
         /\ c.usedBlocks + c.freeBlocks = a.usedBlocks + a.freeBlocks + 1
<1>1. /\ a.usedBytes \in Nat /\ a.usedBlocks \in Nat /\ a.freeBytes \in Nat /\ a.freeBlocks \in Nat
      /\ b.size \in Nat
  BY DEF Counts, Block
<1>2. CASE b.used
  <2>1. /\ c.usedBytes = a.usedBytes + b.size /\ c.freeBytes = a.freeBytes + 0
        /\ c.usedBlocks = a.usedBlocks + 1 /\ c.freeBlocks = a.freeBlocks + 0
    BY <1>2, CountFacts
  <2>2. c.usedBytes + c.freeBytes = a.usedBytes + a.freeBytes + b.size
    BY <1>1, <2>1
  <2>3. c.usedBlocks + c.freeBlocks = a.usedBlocks + a.freeBlocks + 1
    BY <1>1, <2>1
  <2> QED
    BY <2>2, <2>3
<1>3. CASE ~b.used
  <2>1. /\ c.usedBytes = a.usedBytes + 0 /\ c.freeBytes = a.freeBytes + b.size
        /\ c.usedBlocks = a.usedBlocks + 0 /\ c.freeBlocks = a.freeBlocks + 1
    BY <1>3, CountFacts
  <2> QED
    BY <1>1, <2>1
<1> QED
  BY <1>2, <1>3

(* What a block adds does not depend on what was counted before.           *)
LEMMA CountDiffers ==
  ASSUME NEW c \in Counts, NEW d \in Counts, NEW b \in Block
  PROVE  /\ Count(d, b).usedBytes - Count(c, b).usedBytes = d.usedBytes - c.usedBytes
         /\ Count(d, b).usedBlocks - Count(c, b).usedBlocks = d.usedBlocks - c.usedBlocks
<1>1. /\ c.usedBytes \in Nat /\ c.usedBlocks \in Nat /\ d.usedBytes \in Nat /\ d.usedBlocks \in Nat
      /\ b.size \in Nat
  BY DEF Counts, Block
<1>2. CASE b.used
  <2>1. /\ Count(c, b).usedBytes = c.usedBytes + b.size /\ Count(d, b).usedBytes = d.usedBytes + b.size
        /\ Count(c, b).usedBlocks = c.usedBlocks + 1 /\ Count(d, b).usedBlocks = d.usedBlocks + 1
    BY <1>2, CountFacts
  <2> QED
    BY <1>1, <2>1
<1>3. CASE ~b.used
  <2>1. /\ Count(c, b).usedBytes = c.usedBytes + 0 /\ Count(d, b).usedBytes = d.usedBytes + 0
        /\ Count(c, b).usedBlocks = c.usedBlocks + 0 /\ Count(d, b).usedBlocks = d.usedBlocks + 0
    BY <1>3, CountFacts
  <2> QED
    BY <1>1, <2>1
<1> QED
  BY <1>2, <1>3

(* What the walk has counted after each block.                             *)
LEMMA WalkTyped ==
  ASSUME NEW s \in Seq(Block)
  PROVE  /\ Walk(s) \in [0 .. Len(s) -> Counts]
         /\ Walk(s)[0] = NoBlocks
         /\ \A k \in 1 .. Len(s) : Walk(s)[k] = Count(Walk(s)[k - 1], s[k])
<1> DEFINE N == Len(s)
           F == [x \in (1 .. N) \X Counts |-> Count(x[2], s[x[1]])]
           after == CHOOSE g : g = [k \in 0 .. Len(s) |->
                                      IF k = 0 THEN NoBlocks ELSE Count(g[k - 1], s[k])]
<1>1. N \in Nat /\ (\A k \in 1 .. N : s[k] \in Block) /\ NoBlocks \in Counts
  BY DEF NoBlocks, Counts
<1>2. F \in [(1 .. N) \X Counts -> Counts]
  <2>1. \A x \in (1 .. N) \X Counts : Count(x[2], s[x[1]]) \in Counts
    BY <1>1, CountFacts
  <2> QED
    BY <2>1
<1>3. \E g : g = [k \in 0 .. Len(s) |-> IF k = 0 THEN NoBlocks ELSE Count(g[k - 1], s[k])]
  <2>1. PICK g : IsIteration(g, Counts, NoBlocks, N, F)
    <3> HIDE DEF N, F, after
    <3> QED
      BY <1>1, <1>2, IterateExists
  <2>2. g \in [0 .. N -> Counts] /\ g[0] = NoBlocks /\ \A k \in 1 .. N : g[k] = F[<<k, g[k - 1]>>]
    <3> HIDE DEF N, F, after
    <3> QED
      BY <2>1 DEF IsIteration
  <2>3. \A k \in 1 .. N : g[k] = Count(g[k - 1], s[k])
    <3> TAKE k \in 1 .. N
    <3>1. g[k - 1] \in Counts
      BY <1>1, <2>2
    <3>2. F[<<k, g[k - 1]>>] = Count(g[k - 1], s[k])
      <4> HIDE DEF N
      <4> QED
        BY <3>1
    <3> QED
      BY <2>2, <3>2
  <2>4. \A k \in 0 .. N : k = 0 \/ k \in 1 .. N
    BY <1>1
  <2>5. g = [k \in 0 .. N |-> g[k]]
    BY <2>2
  <2>6. g = [k \in 0 .. Len(s) |-> IF k = 0 THEN NoBlocks ELSE Count(g[k - 1], s[k])]
    BY <2>2, <2>3, <2>4, <2>5
  <2> QED
    BY <2>6
<1>4. after = [k \in 0 .. Len(s) |-> IF k = 0 THEN NoBlocks ELSE Count(after[k - 1], s[k])]
  BY <1>3
<1>5. Walk(s) = after
  BY DEF Walk
<1> HIDE DEF after
<1>6. after = [k \in 0 .. N |-> after[k]] /\ after[0] = NoBlocks
  BY <1>1, <1>4
<1>7. ASSUME NEW k \in 1 .. N
      PROVE  after[k] = Count(after[k - 1], s[k])
  <2>1. k \in 0 .. Len(s) /\ k # 0
    BY <1>1
  <2> QED
    BY <1>4, <2>1
<1>8. after \in [0 .. N -> Counts]
  <2>1. \A k \in 1 .. N : after[k - 1] \in Counts => after[k] \in Counts
    BY <1>1, <1>7, CountFacts
  <2>2. after[0] \in Counts
    BY <1>1, <1>6
  <2> HIDE DEF N
  <2> QED
    BY <1>1, <1>6, <2>1, <2>2, IterateTyped
<1> QED
  BY <1>5, <1>6, <1>7, <1>8

(* The counts add up to where the walk has got to: headers, free bytes and *)
(* bytes in use fill the arena.                                            *)
LEMMA WalkSums ==
  ASSUME NEW s, NEW e, TilesTo(s, e)
  PROVE  LET w == Walk(s)[Len(s)]
         IN  /\ w \in Counts
             /\ w.freeBytes + w.usedBytes + (w.freeBlocks + w.usedBlocks) * Header = e
             /\ w.largestFree <= w.freeBytes
             /\ w.freeBlocks + w.usedBlocks = Len(s)
<1> DEFINE N == Len(s)
           w == Walk(s)
           P(k) == /\ w[k].freeBytes + w[k].usedBytes + (w[k].freeBlocks + w[k].usedBlocks) * Header
                       = IF k = 0 THEN 0 ELSE End(s[k])
                   /\ w[k].largestFree <= w[k].freeBytes
                   /\ w[k].freeBlocks + w[k].usedBlocks = k
           D == {k \in Nat : k <= N => P(k)}
<1>1. /\ s \in Seq(Block) /\ s # <<>> /\ N \in Nat /\ s[1].at = 0 /\ End(s[N]) = e
      /\ \A i \in 1 .. (N - 1) : End(s[i]) = s[i + 1].at
  BY DEF TilesTo
<1>2. N # 0 /\ \A k \in 1 .. N : s[k] \in Block
  BY <1>1, EmptySeq
<1>3. /\ w \in [0 .. N -> Counts] /\ w[0] = NoBlocks
      /\ \A k \in 1 .. N : w[k] = Count(w[k - 1], s[k])
  BY <1>1, WalkTyped
<1> HIDE DEF w
<1>4. 0 \in D
  BY <1>3 DEF NoBlocks
<1>5. ASSUME NEW k \in Nat, k \in D PROVE k + 1 \in D
  <2>1. SUFFICES ASSUME k + 1 <= N PROVE P(k + 1)
    OBVIOUS
  <2>2. k + 1 \in 1 .. N /\ k \in 0 .. N /\ (k + 1) - 1 = k /\ k <= N
    BY <1>1, <2>1
  <2>3. w[k] \in Counts /\ w[k + 1] \in Counts /\ s[k + 1] \in Block /\ P(k) /\ w[k + 1] = Count(w[k], s[k + 1])
    <3> HIDE DEF P
    <3> QED
      BY <1>2, <1>3, <1>5, <2>2
  <2>4. s[k + 1].at = IF k = 0 THEN 0 ELSE End(s[k])
    <3>1. CASE k = 0
      BY <1>1, <3>1
    <3>2. CASE k # 0
      <4>1. k \in 1 .. (N - 1)
        BY <1>1, <2>1, <3>2
      <4> QED
        BY <1>1, <3>2, <4>1
    <3> QED
      BY <3>1, <3>2
  <2> DEFINE a == w[k]
             c == w[k + 1]
             b == s[k + 1]
  <2>5. /\ a \in Counts /\ c \in Counts /\ b \in Block
        /\ a.freeBytes + a.usedBytes + (a.freeBlocks + a.usedBlocks) * Header = b.at
        /\ a.largestFree <= a.freeBytes /\ a.freeBlocks + a.usedBlocks = k
        /\ c = Count(a, b)
    BY <2>3, <2>4
  <2> HIDE DEF a, b, c
  <2>6. /\ a.freeBytes \in Nat /\ a.usedBytes \in Nat /\ a.freeBlocks \in Nat /\ a.usedBlocks \in Nat
        /\ b.at \in Nat /\ b.size \in Nat
        /\ c.usedBytes + c.freeBytes = a.usedBytes + a.freeBytes + b.size
        /\ c.usedBlocks + c.freeBlocks = a.usedBlocks + a.freeBlocks + 1
        /\ c.largestFree <= c.freeBytes
        /\ c.freeBytes \in Nat /\ c.usedBytes \in Nat /\ c.freeBlocks \in Nat /\ c.usedBlocks \in Nat
    <3>1. /\ c.usedBytes + c.freeBytes = a.usedBytes + a.freeBytes + b.size
          /\ c.usedBlocks + c.freeBlocks = a.usedBlocks + a.freeBlocks + 1
      BY <2>5, CountSums
    <3>2. c.largestFree <= c.freeBytes
      BY <2>5, CountFacts
    <3>3. /\ a.freeBytes \in Nat /\ a.usedBytes \in Nat /\ a.freeBlocks \in Nat /\ a.usedBlocks \in Nat
          /\ b.at \in Nat /\ b.size \in Nat
          /\ c.freeBytes \in Nat /\ c.usedBytes \in Nat /\ c.freeBlocks \in Nat /\ c.usedBlocks \in Nat
      BY <2>5 DEF Counts, Block
    <3> QED
      BY <3>1, <3>2, <3>3
  <2>7. c.freeBlocks + c.usedBlocks = k + 1
    BY <2>5, <2>6
  <2>8. (k + 1) * Header = k * Header + Header /\ k * Header \in Nat
    OBVIOUS
  <2>9. c.freeBytes + c.usedBytes + (k + 1) * Header = b.at + Header + b.size
    <3>1. a.freeBytes + a.usedBytes + k * Header = b.at
      BY <2>5
    <3>2. PICK z \in Nat : z = k * Header
      BY <2>8
    <3>3. (k + 1) * Header = z + Header /\ a.freeBytes + a.usedBytes + z = b.at
      BY <2>8, <3>1, <3>2
    <3>4. \A u, v, h \in Nat : \A x, y, t \in Nat :
            u + v = x + y + t /\ x + y + z = h => u + v + (z + Header) = h + Header + t
      OBVIOUS
    <3>5. c.freeBytes + c.usedBytes + (z + Header) = b.at + Header + b.size
      <4>1. c.freeBytes + c.usedBytes = a.freeBytes + a.usedBytes + b.size
        BY <2>6
      <4> QED
        BY <2>6, <3>3, <3>4, <4>1
    <3> QED
      BY <3>3, <3>5
  <2>10. c.freeBytes + c.usedBytes + (c.freeBlocks + c.usedBlocks) * Header = End(b)
    BY <2>7, <2>9 DEF End
  <2>11. k + 1 # 0
    OBVIOUS
  <2> QED
    BY <2>6, <2>7, <2>10, <2>11 DEF a, b, c
<1>6. Nat \subseteq D
  <2> HIDE DEF D
  <2> QED
    BY <1>4, <1>5, NatSetInduction
<1>7. P(N) /\ w[N] \in Counts
  BY <1>1, <1>3, <1>6
<1> QED
  BY <1>1, <1>2, <1>7 DEF w

(* The walk has counted the same where it has seen the same blocks.        *)
LEMMA WalkAgrees ==
  ASSUME NEW s \in Seq(Block), NEW t \in Seq(Block), NEW n \in Nat, n <= Len(s), n <= Len(t),
         \A k \in 1 .. n : s[k] = t[k]
  PROVE  Walk(s)[n] = Walk(t)[n]
<1> DEFINE v == Walk(s)
           w == Walk(t)
           D == {k \in Nat : k <= n => v[k] = w[k]}
<1>1. v[0] = NoBlocks /\ \A k \in 1 .. Len(s) : v[k] = Count(v[k - 1], s[k])
  BY WalkTyped
<1>2. w[0] = NoBlocks /\ \A k \in 1 .. Len(t) : w[k] = Count(w[k - 1], t[k])
  BY WalkTyped
<1> HIDE DEF v, w
<1>3. 0 \in D
  BY <1>1, <1>2
<1>4. ASSUME NEW k \in Nat, k \in D PROVE k + 1 \in D
  <2>1. SUFFICES ASSUME k + 1 <= n PROVE v[k + 1] = w[k + 1]
    OBVIOUS
  <2>2. /\ k + 1 \in 1 .. Len(s) /\ k + 1 \in 1 .. Len(t) /\ k + 1 \in 1 .. n
        /\ (k + 1) - 1 = k /\ k <= n
    BY <2>1
  <2>3. v[k] = w[k] /\ s[k + 1] = t[k + 1]
    BY <1>4, <2>2
  <2>4. v[k + 1] = Count(v[k], s[k + 1]) /\ w[k + 1] = Count(w[k], t[k + 1])
    BY <1>1, <1>2, <2>2
  <2> QED
    BY <2>3, <2>4
<1>5. Nat \subseteq D
  <2> HIDE DEF D
  <2> QED
    BY <1>3, <1>4, NatSetInduction
<1> QED
  BY <1>5 DEF v, w

(* Over equal blocks the walk counts equal bytes and blocks in use.        *)
LEMMA WalkDiffers ==
  ASSUME NEW s \in Seq(Block), NEW t \in Seq(Block), NEW i \in 0 .. Len(s), NEW j \in 0 .. Len(t),
         Len(t) - j = Len(s) - i,
         \A k \in 1 .. (Len(s) - i) : t[j + k] = s[i + k]
  PROVE  /\ Walk(t)[Len(t)].usedBytes - Walk(s)[Len(s)].usedBytes
              = Walk(t)[j].usedBytes - Walk(s)[i].usedBytes
         /\ Walk(t)[Len(t)].usedBlocks - Walk(s)[Len(s)].usedBlocks
              = Walk(t)[j].usedBlocks - Walk(s)[i].usedBlocks
<1> DEFINE v == Walk(s)
           w == Walk(t)
           M == Len(s) - i
           D == {k \in Nat : k <= M =>
                   /\ w[j + k].usedBytes - v[i + k].usedBytes = w[j].usedBytes - v[i].usedBytes
                   /\ w[j + k].usedBlocks - v[i + k].usedBlocks = w[j].usedBlocks - v[i].usedBlocks}
<1>1. /\ v \in [0 .. Len(s) -> Counts]
      /\ \A k \in 1 .. Len(s) : v[k] = Count(v[k - 1], s[k])
  BY WalkTyped
<1>2. /\ w \in [0 .. Len(t) -> Counts]
      /\ \A k \in 1 .. Len(t) : w[k] = Count(w[k - 1], t[k])
  BY WalkTyped
<1>3. M \in Nat /\ i + M = Len(s) /\ j + M = Len(t) /\ i \in Nat /\ j \in Nat
  OBVIOUS
<1> HIDE DEF v, w
<1>4. 0 \in D
  BY <1>1, <1>2, <1>3
<1>5. ASSUME NEW k \in Nat, k \in D PROVE k + 1 \in D
  <2>1. SUFFICES ASSUME k + 1 <= M
                 PROVE  /\ w[j + (k + 1)].usedBytes - v[i + (k + 1)].usedBytes = w[j].usedBytes - v[i].usedBytes
                        /\ w[j + (k + 1)].usedBlocks - v[i + (k + 1)].usedBlocks = w[j].usedBlocks - v[i].usedBlocks
    OBVIOUS
  <2>2. /\ i + (k + 1) \in 1 .. Len(s) /\ j + (k + 1) \in 1 .. Len(t) /\ k + 1 \in 1 .. (Len(s) - i)
        /\ (i + (k + 1)) - 1 = i + k /\ (j + (k + 1)) - 1 = j + k /\ k <= M
        /\ i + k \in 0 .. Len(s) /\ j + k \in 0 .. Len(t)
    BY <1>3, <2>1
  <2>3. t[j + (k + 1)] = s[i + (k + 1)] /\ s[i + (k + 1)] \in Block
    <3>1. s[i + (k + 1)] \in Block
      BY <2>2
    <3>2. t[j + (k + 1)] = s[i + (k + 1)]
      <4>1. PICK q : q = k + 1
        OBVIOUS
      <4>2. t[j + q] = s[i + q]
        BY <2>2, <4>1
      <4> QED
        BY <4>1, <4>2
    <3> QED
      BY <3>1, <3>2
  <2>4. /\ v[i + (k + 1)] = Count(v[i + k], s[i + (k + 1)]) /\ v[i + k] \in Counts
        /\ w[j + (k + 1)] = Count(w[j + k], s[i + (k + 1)]) /\ w[j + k] \in Counts
    BY <1>1, <1>2, <2>2, <2>3
  <2>5. /\ w[j + k].usedBytes - v[i + k].usedBytes = w[j].usedBytes - v[i].usedBytes
        /\ w[j + k].usedBlocks - v[i + k].usedBlocks = w[j].usedBlocks - v[i].usedBlocks
    BY <1>5, <2>2
  <2>6. /\ w[j + (k + 1)].usedBytes - v[i + (k + 1)].usedBytes = w[j + k].usedBytes - v[i + k].usedBytes
        /\ w[j + (k + 1)].usedBlocks - v[i + (k + 1)].usedBlocks = w[j + k].usedBlocks - v[i + k].usedBlocks
    BY <2>3, <2>4, CountDiffers
  <2> QED
    BY <2>5, <2>6
<1>6. Nat \subseteq D
  <2> HIDE DEF D
  <2> QED
    BY <1>4, <1>5, NatSetInduction
<1>7. M \in D
  <2> HIDE DEF D, M
  <2> QED
    BY <1>3, <1>6
<1>8. /\ w[j + M].usedBytes - v[i + M].usedBytes = w[j].usedBytes - v[i].usedBytes
      /\ w[j + M].usedBlocks - v[i + M].usedBlocks = w[j].usedBlocks - v[i].usedBlocks
  BY <1>3, <1>7
<1> QED
  BY <1>3, <1>8 DEF v, w

-----------------------------------------------------------------------------
(* kmem_coalesce.                                                          *)

(* A block that lies behind the others is put behind them or merged into   *)
(* the last of them: they still lie side by side, with no free neighbours, *)
(* and what is in use is what was.                                         *)
LEMMA AddAppends ==
  ASSUME NEW d \in Seq(Block), NEW b \in Block,
         d = <<>> => b.at = 0,
         d # <<>> => TilesTo(d, b.at), Apart(d),
         d # <<>> => d[Len(d)].used \/ b.used
  PROVE  LET r == Append(d, b)
         IN  /\ TilesTo(r, End(b)) /\ Apart(r)
             /\ Walk(r)[Len(r)] = Count(Walk(d)[Len(d)], b)
             /\ \A i \in 1 .. Len(r) : r[i] = b \/ \E j \in 1 .. Len(d) : d[j] = r[i]
<1> DEFINE n == Len(d)
           r == Append(d, b)
<1>1. /\ n \in Nat /\ r \in Seq(Block) /\ Len(r) = n + 1 /\ r[n + 1] = b
      /\ \A i \in 1 .. n : r[i] = d[i] /\ d[i] \in Block
  OBVIOUS
<1>2. (d = <<>> <=> n = 0) /\ r # <<>>
  <2>1. d = <<>> <=> n = 0
    BY EmptySeq
  <2>2. Len(r) # 0
    BY <1>1
  <2> HIDE DEF r
  <2>3. r # <<>>
    BY <2>2
  <2> QED
    BY <2>1, <2>3
<1> HIDE DEF r, n
<1>3. TilesTo(r, End(b))
  <2>1. r[1].at = 0
    <3>1. CASE n = 0
      BY <1>1, <1>2, <3>1
    <3>2. CASE n # 0
      <4>1. 1 \in 1 .. n /\ d[1].at = 0
        BY <1>1, <1>2, <3>2 DEF TilesTo
      <4> QED
        BY <1>1, <4>1
    <3> QED
      BY <3>1, <3>2
  <2>2. ASSUME NEW i \in 1 .. (Len(r) - 1) PROVE End(r[i]) = r[i + 1].at
    <3>1. n # 0 /\ i \in 1 .. n /\ TilesTo(d, b.at) /\ r[i] = d[i]
      BY <1>1, <1>2
    <3>2. CASE i = n
      <4>1. End(d[n]) = b.at /\ r[i + 1] = b
        BY <1>1, <3>1, <3>2 DEF TilesTo, n
      <4> QED
        BY <3>1, <3>2, <4>1
    <3>3. CASE i # n
      <4>1. i \in 1 .. (n - 1) /\ i + 1 \in 1 .. n
        BY <1>1, <3>1, <3>3
      <4>2. End(d[i]) = d[i + 1].at /\ r[i + 1] = d[i + 1]
        BY <1>1, <3>1, <4>1 DEF TilesTo, n
      <4> QED
        BY <3>1, <4>2
    <3> QED
      BY <3>2, <3>3
  <2> QED
    BY <1>1, <1>2, <2>1, <2>2 DEF TilesTo
<1>4. Apart(r)
  <2> SUFFICES ASSUME NEW i \in 1 .. (Len(r) - 1) PROVE r[i].used \/ r[i + 1].used
    BY DEF Apart
  <2>1. n # 0 /\ i \in 1 .. n /\ r[i] = d[i]
    BY <1>1
  <2>2. CASE i = n
    <3>1. r[i + 1] = b
      BY <1>1, <2>2
    <3>2. d[n].used \/ b.used
      BY <1>2, <2>1 DEF n
    <3> QED
      BY <2>1, <2>2, <3>1, <3>2
  <2>3. CASE i # n
    <3>1. i \in 1 .. (n - 1) /\ i + 1 \in 1 .. n
      BY <1>1, <2>1, <2>3
    <3>2. r[i + 1] = d[i + 1] /\ (d[i].used \/ d[i + 1].used)
      BY <1>1, <3>1 DEF Apart, n
    <3> QED
      BY <2>1, <3>2
  <2> QED
    BY <2>2, <2>3
<1>5. Walk(r)[Len(r)] = Count(Walk(d)[Len(d)], b)
  <2>1. n + 1 \in 1 .. Len(r) /\ (n + 1) - 1 = n
    BY <1>1
  <2>2. Walk(r)[n + 1] = Count(Walk(r)[n], b)
    BY <1>1, <2>1, WalkTyped
  <2>3. Walk(r)[n] = Walk(d)[n]
    <3>1. n <= Len(d) /\ n <= Len(r)
      BY <1>1 DEF n
    <3> QED
      BY <1>1, <3>1, WalkAgrees
  <2> QED
    BY <1>1, <2>2, <2>3 DEF n
<1>6. \A i \in 1 .. Len(r) : r[i] = b \/ \E j \in 1 .. Len(d) : d[j] = r[i]
  <2> TAKE i \in 1 .. Len(r)
  <2>1. i = n + 1 \/ i \in 1 .. n
    BY <1>1
  <2> QED
    BY <1>1, <2>1 DEF n
<1> QED
  BY <1>3, <1>4, <1>5, <1>6 DEF r

(* The same, when the last block and the new one are free.                 *)
LEMMA AddMerges ==
  ASSUME NEW d \in Seq(Block), NEW b \in Block, TilesTo(d, b.at), Apart(d),
         ~d[Len(d)].used, ~b.used
  PROVE  LET r == [d EXCEPT ![Len(d)] = Merge(@, b)]
         IN  /\ TilesTo(r, End(b)) /\ Apart(r)
             /\ Walk(r)[Len(r)].usedBytes = Walk(d)[Len(d)].usedBytes
             /\ Walk(r)[Len(r)].usedBlocks = Walk(d)[Len(d)].usedBlocks
             /\ \A i \in 1 .. Len(r) : r[i].used => \E j \in 1 .. Len(d) : d[j] = r[i]
<1> DEFINE n == Len(d)
           l == d[n]
           m == Merge(l, b)
           r == [d EXCEPT ![n] = m]
<1>1. n \in Nat /\ n # 0 /\ \A i \in 1 .. n : d[i] \in Block
  BY EmptySeq DEF TilesTo
<1>2. l \in Block /\ n \in 1 .. n
  BY <1>1
<1>3. End(l) = b.at
  BY DEF TilesTo
<1> HIDE DEF l
<1>4. m \in Block /\ m.at = l.at /\ m.used = l.used /\ End(m) = End(b)
  <2>1. /\ l.size \in Nat /\ l.at \in Nat /\ b.size \in Nat /\ b.at \in Nat
        /\ l = [at |-> l.at, size |-> l.size, used |-> l.used]
    BY <1>2 DEF Block
  <2>2. m = [at |-> l.at, size |-> l.size + Header + b.size, used |-> l.used]
    BY <2>1 DEF Merge
  <2>3. m.at = l.at /\ m.used = l.used /\ m.size = l.size + Header + b.size
    BY <2>2
  <2>4. m \in Block
    BY <1>2, <2>1, <2>2 DEF Block
  <2> HIDE DEF m
  <2>5. l.at + Header + l.size = b.at
    BY <1>3 DEF End
  <2>6. m.at + Header + m.size = b.at + Header + b.size
    BY <2>1, <2>3, <2>5
  <2> QED
    BY <2>3, <2>4, <2>6 DEF End
<1> HIDE DEF m
<1>5. /\ r \in Seq(Block) /\ Len(r) = n /\ r[n] = m
      /\ \A i \in 1 .. n : i # n => r[i] = d[i]
  <2>1. d \in [1 .. n -> Block]
    OBVIOUS
  <2>2. r \in [1 .. n -> Block]
    BY <1>4, <2>1
  <2>3. r \in Seq(Block)
    BY <1>1, <2>2
  <2> QED
    BY <1>1, <1>2, <2>1, <2>2, <2>3
<1>6. r # <<>>
  <2> HIDE DEF r, n
  <2> QED
    BY <1>1, <1>5, EmptySeq
<1>7. ~l.used /\ ~m.used
  BY <1>4 DEF l
<1>8. \A i \in 1 .. n : r[i].at = d[i].at
  BY <1>1, <1>4, <1>5 DEF l
<1>9. \A i \in 1 .. n : r[i].used = d[i].used
  BY <1>1, <1>4, <1>5 DEF l
<1> HIDE DEF r, n
<1>10. TilesTo(r, End(b))
  <2>1. r[1].at = 0
    BY <1>1, <1>8 DEF TilesTo
  <2>2. ASSUME NEW i \in 1 .. (Len(r) - 1) PROVE End(r[i]) = r[i + 1].at
    <3>1. i \in 1 .. n /\ i + 1 \in 1 .. n /\ i # n /\ i \in 1 .. (n - 1)
      BY <1>1, <1>5
    <3>2. r[i] = d[i] /\ r[i + 1].at = d[i + 1].at
      BY <1>5, <1>8, <3>1
    <3>3. End(d[i]) = d[i + 1].at
      BY <3>1 DEF TilesTo, n
    <3> QED
      BY <3>2, <3>3
  <2>3. End(r[Len(r)]) = End(b)
    BY <1>4, <1>5
  <2> QED
    BY <1>5, <1>6, <2>1, <2>2, <2>3 DEF TilesTo
<1>11. Apart(r)
  <2> SUFFICES ASSUME NEW i \in 1 .. (Len(r) - 1) PROVE r[i].used \/ r[i + 1].used
    BY DEF Apart
  <2>1. i \in 1 .. n /\ i + 1 \in 1 .. n /\ i \in 1 .. (n - 1)
    BY <1>1, <1>5
  <2>2. d[i].used \/ d[i + 1].used
    BY <2>1 DEF Apart, n
  <2>3. r[i].used = d[i].used /\ r[i + 1].used = d[i + 1].used
    BY <1>9, <2>1
  <2> QED
    BY <2>2, <2>3
<1>12. /\ Walk(r)[n].usedBytes = Walk(d)[n].usedBytes
       /\ Walk(r)[n].usedBlocks = Walk(d)[n].usedBlocks
  <2>1. n - 1 \in Nat /\ n - 1 <= n /\ n \in 1 .. n /\ n = Len(d) /\ n = Len(r)
    BY <1>1, <1>5 DEF n
  <2>2. Walk(r)[n - 1] = Walk(d)[n - 1]
    <3>1. \A k \in 1 .. (n - 1) : r[k] = d[k]
      BY <1>1, <1>5
    <3>2. n - 1 <= Len(d) /\ n - 1 <= Len(r)
      BY <2>1
    <3> QED
      BY <1>5, <2>1, <3>1, <3>2, WalkAgrees
  <2>3. /\ Walk(r)[n] = Count(Walk(r)[n - 1], m) /\ Walk(d)[n] = Count(Walk(d)[n - 1], l)
        /\ Walk(d)[n - 1] \in Counts
    <3>0. n \in 1 .. Len(r) /\ n \in 1 .. Len(d)
      BY <2>1
    <3>1. /\ Walk(r)[n] = Count(Walk(r)[n - 1], r[n])
          /\ Walk(d)[n] = Count(Walk(d)[n - 1], d[n])
      <4>1. \A k \in 1 .. Len(r) : Walk(r)[k] = Count(Walk(r)[k - 1], r[k])
        BY <1>5, WalkTyped
      <4>2. \A k \in 1 .. Len(d) : Walk(d)[k] = Count(Walk(d)[k - 1], d[k])
        BY WalkTyped
      <4> QED
        BY <3>0, <4>1, <4>2
    <3>2. Walk(d) \in [0 .. Len(d) -> Counts]
      BY WalkTyped
    <3>3. n - 1 \in 0 .. Len(d)
      BY <2>1
    <3>4. Walk(d)[n - 1] \in Counts
      BY <3>2, <3>3
    <3>5. r[n] = m /\ d[n] = l
      BY <1>5 DEF l
    <3> QED
      BY <3>1, <3>4, <3>5
  <2> DEFINE w == Walk(d)[n - 1]
  <2>4. w \in Counts /\ w.usedBytes \in Nat /\ w.usedBlocks \in Nat
    BY <2>3 DEF Counts
  <2> HIDE DEF w
  <2>5. /\ Count(w, m).usedBytes = w.usedBytes + 0 /\ Count(w, m).usedBlocks = w.usedBlocks + 0
        /\ Count(w, l).usedBytes = w.usedBytes + 0 /\ Count(w, l).usedBlocks = w.usedBlocks + 0
    BY <1>2, <1>4, <1>7, <2>4, CountFacts
  <2> QED
    BY <2>2, <2>3, <2>5 DEF w
<1>13. \A i \in 1 .. Len(r) : r[i].used => \E j \in 1 .. Len(d) : d[j] = r[i]
  <2> TAKE i \in 1 .. Len(r)
  <2>1. CASE i = n
    BY <1>5, <1>7, <2>1
  <2>2. CASE i # n
    <3>1. i \in 1 .. n
      BY <1>5
    <3>2. r[i] = d[i]
      BY <1>5, <2>2, <3>1
    <3> QED
      BY <3>1, <3>2 DEF n
  <2> QED
    BY <2>1, <2>2
<1> QED
  BY <1>5, <1>10, <1>11, <1>12, <1>13 DEF r, n, m, l

(* What kmem_coalesce has made of the blocks up to each.                   *)
LEMMA CoalesceTyped ==
  ASSUME NEW s \in Seq(Block)
  PROVE  /\ CoalescedUpTo(s) \in [0 .. Len(s) -> Seq(Block)]
         /\ CoalescedUpTo(s)[0] = <<>>
         /\ \A k \in 1 .. Len(s) : CoalescedUpTo(s)[k] = AddBlock(CoalescedUpTo(s)[k - 1], s[k])
<1> DEFINE N == Len(s)
           S == Seq(Block)
           F == [x \in (1 .. N) \X S |-> AddBlock(x[2], s[x[1]])]
           done == CHOOSE g : g = [k \in 0 .. Len(s) |->
                                     IF k = 0 THEN <<>> ELSE AddBlock(g[k - 1], s[k])]
<1>1. N \in Nat /\ (\A k \in 1 .. N : s[k] \in Block) /\ <<>> \in S
  OBVIOUS
<1>2. ASSUME NEW d \in S, NEW b \in Block PROVE AddBlock(d, b) \in S
  <2>1. CASE d # <<>> /\ ~d[Len(d)].used /\ ~b.used
    <3>1. Len(d) \in 1 .. Len(d) /\ d \in [1 .. Len(d) -> Block] /\ Len(d) \in Nat
      BY <2>1, EmptySeq
    <3>2. d[Len(d)] \in Block
      BY <3>1
    <3>3. Merge(d[Len(d)], b) \in Block
      <4>1. PICK l \in Block : l = d[Len(d)]
        BY <3>2
      <4>2. /\ l.size \in Nat /\ b.size \in Nat
            /\ l = [at |-> l.at, size |-> l.size, used |-> l.used]
        BY DEF Block
      <4>3. Merge(l, b) = [at |-> l.at, size |-> l.size + Header + b.size, used |-> l.used]
        BY <4>2 DEF Merge
      <4> QED
        BY <4>1, <4>2, <4>3 DEF Block
    <3>4. [d EXCEPT ![Len(d)] = Merge(@, b)] \in [1 .. Len(d) -> Block]
      BY <3>1, <3>3
    <3>5. [d EXCEPT ![Len(d)] = Merge(@, b)] \in Seq(Block)
      BY <3>1, <3>4
    <3> QED
      BY <2>1, <3>5 DEF AddBlock
  <2>2. CASE ~(d # <<>> /\ ~d[Len(d)].used /\ ~b.used)
    BY <2>2 DEF AddBlock
  <2> QED
    BY <2>1, <2>2
<1> HIDE DEF S
<1>3. F \in [(1 .. N) \X S -> S]
  <2>1. \A x \in (1 .. N) \X S : x[2] \in S /\ s[x[1]] \in Block
    BY <1>1
  <2>2. \A x \in (1 .. N) \X S : AddBlock(x[2], s[x[1]]) \in S
    BY <1>2, <2>1
  <2> QED
    BY <2>2
<1>4. \E g : g = [k \in 0 .. Len(s) |-> IF k = 0 THEN <<>> ELSE AddBlock(g[k - 1], s[k])]
  <2>1. PICK g : IsIteration(g, S, <<>>, N, F)
    <3> HIDE DEF N, F, done
    <3> QED
      BY <1>1, <1>3, IterateExists
  <2>2. g \in [0 .. N -> S] /\ g[0] = <<>> /\ \A k \in 1 .. N : g[k] = F[<<k, g[k - 1]>>]
    <3> HIDE DEF N, F, done
    <3> QED
      BY <2>1 DEF IsIteration
  <2>3. \A k \in 1 .. N : g[k] = AddBlock(g[k - 1], s[k])
    <3> TAKE k \in 1 .. N
    <3>1. g[k - 1] \in S
      BY <1>1, <2>2
    <3>2. F[<<k, g[k - 1]>>] = AddBlock(g[k - 1], s[k])
      <4> HIDE DEF N
      <4> QED
        BY <3>1
    <3> QED
      BY <2>2, <3>2
  <2>4. \A k \in 0 .. N : k = 0 \/ k \in 1 .. N
    BY <1>1
  <2>5. g = [k \in 0 .. N |-> g[k]]
    BY <2>2
  <2>6. g = [k \in 0 .. Len(s) |-> IF k = 0 THEN <<>> ELSE AddBlock(g[k - 1], s[k])]
    BY <2>2, <2>3, <2>4, <2>5
  <2> QED
    BY <2>6
<1>5. done = [k \in 0 .. Len(s) |-> IF k = 0 THEN <<>> ELSE AddBlock(done[k - 1], s[k])]
  BY <1>4
<1>6. CoalescedUpTo(s) = done
  BY DEF CoalescedUpTo
<1> HIDE DEF done
<1>7. done = [k \in 0 .. N |-> done[k]] /\ done[0] = <<>>
  BY <1>1, <1>5
<1>8. ASSUME NEW k \in 1 .. N
      PROVE  done[k] = AddBlock(done[k - 1], s[k])
  <2>1. k \in 0 .. Len(s) /\ k # 0
    BY <1>1
  <2> QED
    BY <1>5, <2>1
<1>9. done \in [0 .. N -> S]
  <2>1. \A k \in 1 .. N : done[k - 1] \in S => done[k] \in S
    BY <1>1, <1>2, <1>8
  <2>2. done[0] \in S
    BY <1>1, <1>7
  <2> HIDE DEF N
  <2> QED
    BY <1>1, <1>7, <2>1, <2>2, IterateTyped
<1> QED
  BY <1>6, <1>7, <1>8, <1>9 DEF S

(* kmem_coalesce keeps the arena tiled, leaves no free neighbours, and     *)
(* neither moves nor resizes a block in use.                               *)
LEMMA CoalesceFacts ==
  ASSUME NEW s, NEW e, TilesTo(s, e)
  PROVE  LET r == Coalesce(s)
         IN  /\ TilesTo(r, e) /\ Apart(r)
             /\ Walk(r)[Len(r)].usedBytes = Walk(s)[Len(s)].usedBytes
             /\ Walk(r)[Len(r)].usedBlocks = Walk(s)[Len(s)].usedBlocks
             /\ \A i \in 1 .. Len(r) : r[i].used => \E j \in 1 .. Len(s) : s[j] = r[i]
<1> DEFINE N == Len(s)
           done == CoalescedUpTo(s)
           P(d, k) == /\ k # 0 => TilesTo(d, End(s[k]))
                      /\ Apart(d)
                      /\ Walk(d)[Len(d)].usedBytes = Walk(s)[k].usedBytes
                      /\ Walk(d)[Len(d)].usedBlocks = Walk(s)[k].usedBlocks
                      /\ \A i \in 1 .. Len(d) : d[i].used => \E j \in 1 .. N : s[j] = d[i]
           D == {k \in Nat : k <= N => P(done[k], k)}
<1>1. /\ s \in Seq(Block) /\ s # <<>> /\ N \in Nat /\ s[1].at = 0 /\ End(s[N]) = e
      /\ \A i \in 1 .. (N - 1) : End(s[i]) = s[i + 1].at
  BY DEF TilesTo
<1>2. N # 0 /\ \A k \in 1 .. N : s[k] \in Block
  BY <1>1, EmptySeq
<1>3. /\ done \in [0 .. N -> Seq(Block)] /\ done[0] = <<>>
      /\ \A k \in 1 .. N : done[k] = AddBlock(done[k - 1], s[k])
  BY <1>1, CoalesceTyped
<1>4. /\ Walk(s) \in [0 .. N -> Counts] /\ Walk(s)[0] = NoBlocks
      /\ \A k \in 1 .. N : Walk(s)[k] = Count(Walk(s)[k - 1], s[k])
  BY <1>1, WalkTyped
<1>5. Coalesce(s) = done[N]
  BY DEF Coalesce
<1> HIDE DEF done
<1>6. 0 \in D
  <2>1. <<>> \in Seq(Block) /\ Len(<<>>) = 0
    OBVIOUS
  <2>2. Walk(<<>>)[Len(<<>>)] = NoBlocks
    BY <2>1, WalkTyped
  <2>3. Apart(<<>>)
    BY <2>1 DEF Apart
  <2>4. P(<<>>, 0)
    BY <1>4, <2>1, <2>2, <2>3
  <2> HIDE DEF P
  <2> QED
    BY <1>3, <2>4
<1>7. ASSUME NEW k \in Nat, k \in D PROVE k + 1 \in D
  <2>1. SUFFICES ASSUME k + 1 <= N PROVE P(done[k + 1], k + 1)
    OBVIOUS
  <2>2. k + 1 \in 1 .. N /\ k \in 0 .. N /\ (k + 1) - 1 = k /\ k <= N /\ k + 1 # 0
    BY <1>1, <2>1
  <2> DEFINE d == done[k]
             b == s[k + 1]
             w == Walk(s)[k]
             u == Walk(d)[Len(d)]
  <2>3. /\ d \in Seq(Block) /\ b \in Block /\ done[k + 1] = AddBlock(d, b)
        /\ w \in Counts /\ Walk(s)[k + 1] = Count(w, b)
    BY <1>2, <1>3, <1>4, <2>2
  <2>4. P(d, k)
    <3> HIDE DEF P
    <3> QED
      BY <1>7, <2>2
  <2>5. u \in Counts
    <3>1. Len(d) \in 0 .. Len(d) /\ Walk(d) \in [0 .. Len(d) -> Counts]
      BY <2>3, WalkTyped
    <3> QED
      BY <3>1
  <2>6. /\ d = <<>> => b.at = 0
        /\ d # <<>> => TilesTo(d, b.at)
    <3>1. CASE k = 0
      BY <1>1, <1>3, <3>1
    <3>2. CASE k # 0
      <4>1. k \in 1 .. (N - 1)
        BY <1>1, <2>1, <3>2
      <4>2. End(s[k]) = b.at
        BY <1>1, <4>1
      <4>3. TilesTo(d, b.at)
        BY <2>4, <3>2, <4>2
      <4>4. d # <<>>
        BY <4>3 DEF TilesTo
      <4> QED
        BY <4>3, <4>4
    <3> QED
      BY <3>1, <3>2
  <2>7. /\ u.usedBytes = w.usedBytes /\ u.usedBlocks = w.usedBlocks /\ Apart(d)
        /\ \A i \in 1 .. Len(d) : d[i].used => \E j \in 1 .. N : s[j] = d[i]
    BY <2>4
  <2> HIDE DEF d, b, w, u
  <2>8. CASE d # <<>> /\ ~d[Len(d)].used /\ ~b.used
    <3> DEFINE r == [d EXCEPT ![Len(d)] = Merge(@, b)]
    <3>1. done[k + 1] = r
      BY <2>3, <2>8 DEF AddBlock
    <3>2. /\ TilesTo(r, End(b)) /\ Apart(r)
          /\ Walk(r)[Len(r)].usedBytes = u.usedBytes
          /\ Walk(r)[Len(r)].usedBlocks = u.usedBlocks
          /\ \A i \in 1 .. Len(r) : r[i].used => \E j \in 1 .. Len(d) : d[j] = r[i]
      BY <2>3, <2>6, <2>7, <2>8, AddMerges DEF u
    <3> HIDE DEF r
    <3>3. Count(w, b).usedBytes = w.usedBytes /\ Count(w, b).usedBlocks = w.usedBlocks
      <4>1. Count(w, b).usedBytes = w.usedBytes + 0 /\ Count(w, b).usedBlocks = w.usedBlocks + 0
        BY <2>3, <2>8, CountFacts
      <4>2. w.usedBytes \in Nat /\ w.usedBlocks \in Nat
        BY <2>3 DEF Counts
      <4> QED
        BY <4>1, <4>2
    <3>4. \A i \in 1 .. Len(r) : r[i].used => \E j \in 1 .. N : s[j] = r[i]
      BY <2>7, <3>2
    <3>5. TilesTo(r, End(s[k + 1]))
      BY <3>2 DEF b
    <3>6. P(r, k + 1)
      BY <2>3, <2>7, <3>2, <3>3, <3>4, <3>5
    <3> QED
      BY <3>1, <3>6
  <2>9. CASE ~(d # <<>> /\ ~d[Len(d)].used /\ ~b.used)
    <3> DEFINE r == Append(d, b)
    <3>1. done[k + 1] = r
      BY <2>3, <2>9 DEF AddBlock
    <3>2. /\ TilesTo(r, End(b)) /\ Apart(r)
          /\ Walk(r)[Len(r)] = Count(u, b)
          /\ \A i \in 1 .. Len(r) : r[i] = b \/ \E j \in 1 .. Len(d) : d[j] = r[i]
      <4>1. d # <<>> => d[Len(d)].used \/ b.used
        BY <2>9
      <4> QED
        BY <2>3, <2>6, <2>7, <4>1, AddAppends DEF u
    <3> HIDE DEF r
    <3>3. /\ Count(u, b).usedBytes = Count(w, b).usedBytes
          /\ Count(u, b).usedBlocks = Count(w, b).usedBlocks
      BY <2>3, <2>5, <2>7, CountFacts
    <3>4. \A i \in 1 .. Len(r) : r[i].used => \E j \in 1 .. N : s[j] = r[i]
      <4> SUFFICES ASSUME NEW i \in 1 .. Len(r), r[i].used PROVE \E j \in 1 .. N : s[j] = r[i]
        OBVIOUS
      <4>1. CASE r[i] = b
        BY <2>2, <4>1 DEF b
      <4>2. CASE \E j \in 1 .. Len(d) : d[j] = r[i]
        <5>1. PICK j \in 1 .. Len(d) : d[j] = r[i]
          BY <4>2
        <5> QED
          BY <2>7, <5>1
      <4> QED
        BY <3>2, <4>1, <4>2
    <3>5. TilesTo(r, End(s[k + 1]))
      BY <3>2 DEF b
    <3>6. P(r, k + 1)
      BY <2>3, <3>2, <3>3, <3>4, <3>5
    <3> QED
      BY <3>1, <3>6
  <2> QED
    BY <2>8, <2>9
<1>8. Nat \subseteq D
  <2> HIDE DEF D
  <2> QED
    BY <1>6, <1>7, NatSetInduction
<1>9. P(done[N], N)
  <2> HIDE DEF P
  <2> QED
    BY <1>1, <1>8
<1> QED
  BY <1>1, <1>2, <1>5, <1>9

-----------------------------------------------------------------------------
(* kmem_alloc.                                                             *)

(* The elements of a concatenation.                                        *)
LEMMA ConcatAt ==
  ASSUME NEW x \in Seq(Block), NEW y \in Seq(Block), NEW z, z = x \o y
  PROVE  /\ z \in Seq(Block) /\ Len(z) = Len(x) + Len(y)
         /\ \A k \in 1 .. Len(x) : z[k] = x[k]
         /\ \A k \in 1 .. Len(y) : z[Len(x) + k] = y[k]
<1>1. /\ Len(x) \in Nat /\ Len(y) \in Nat /\ z \in Seq(Block) /\ Len(z) = Len(x) + Len(y)
      /\ \A k \in 1 .. (Len(x) + Len(y)) : z[k] = IF k <= Len(x) THEN x[k] ELSE y[k - Len(x)]
  BY ConcatProperties
<1>2. \A k \in 1 .. Len(x) : z[k] = x[k]
  BY <1>1
<1>3. ASSUME NEW k \in 1 .. Len(y) PROVE z[Len(x) + k] = y[k]
  <2>1. PICK j : j = Len(x) + k
    OBVIOUS
  <2>2. j \in 1 .. (Len(x) + Len(y)) /\ ~(j <= Len(x)) /\ j - Len(x) = k
    BY <1>1, <2>1
  <2>3. z[j] = y[j - Len(x)]
    BY <1>1, <2>2
  <2> QED
    BY <2>1, <2>2, <2>3
<1> QED
  BY <1>1, <1>2, <1>3

(* r is s with its block i become g, with t behind it.                     *)
Placed(s, i, g, t, r) ==
  /\ r \in Seq(Block) /\ Len(r) = Len(s) + Len(t)
  /\ \A k \in 1 .. (i - 1) : r[k] = s[k]
  /\ r[i] = g
  /\ \A k \in 1 .. Len(t) : r[i + k] = t[k]
  /\ \A k \in 1 .. (Len(s) - i) : r[i + Len(t) + k] = s[i + k]

(* The list that kmem_alloc leaves.                                        *)
LEMMA Replaced ==
  ASSUME NEW s \in Seq(Block), NEW i \in 1 .. Len(s), NEW g \in Block, NEW t \in Seq(Block)
  PROVE  Placed(s, i, g, t, SubSeq(s, 1, i - 1) \o <<g>> \o t \o SubSeq(s, i + 1, Len(s)))
<1> DEFINE a == SubSeq(s, 1, i - 1)
           c == SubSeq(s, i + 1, Len(s))
           ag == a \o <<g>>
           agt == ag \o t
           r == agt \o c
<1>1. /\ a \in Seq(Block) /\ Len(a) = i - 1 /\ \A k \in 1 .. (i - 1) : a[k] = s[k]
  <2>1. i - 1 \in Nat /\ i - 1 <= Len(s) /\ Len(s) \in Nat
    OBVIOUS
  <2>2. a = [k \in 1 .. (i - 1) |-> s[k]]
    BY <2>1
  <2>3. \A k \in 1 .. (i - 1) : s[k] \in Block
    OBVIOUS
  <2>4. a \in [1 .. (i - 1) -> Block]
    BY <2>2, <2>3
  <2> HIDE DEF a
  <2>5. a \in Seq(Block)
    BY <2>1, <2>4
  <2>6. Len(a) = i - 1
    BY <2>1, <2>4, <2>5
  <2> QED
    BY <2>2, <2>5, <2>6
<1>2. /\ c \in Seq(Block) /\ Len(c) = Len(s) - i
      /\ \A k \in 1 .. (Len(s) - i) : c[k] = s[i + k]
  <2>1. i \in Nat /\ Len(s) \in Nat /\ i + 1 >= 1 /\ i <= Len(s) /\ Len(s) - (i + 1) + 1 = Len(s) - i
        /\ Len(s) - i \in Nat
    OBVIOUS
  <2>2. c = [k \in 1 .. (Len(s) - i) |-> s[(i + 1) + k - 1]]
    BY <2>1
  <2>3. \A k \in 1 .. (Len(s) - i) : (i + 1) + k - 1 = i + k /\ i + k \in 1 .. Len(s)
    BY <2>1
  <2>4. \A k \in 1 .. (Len(s) - i) : s[i + k] \in Block
    BY <2>3
  <2>5. \A k \in 1 .. (Len(s) - i) : c[k] = s[i + k]
    BY <2>2, <2>3
  <2>6. c \in [1 .. (Len(s) - i) -> Block]
    BY <2>2, <2>3, <2>4
  <2> HIDE DEF c
  <2>7. PICK M \in Nat : M = Len(s) - i
    BY <2>1
  <2>8. c \in [1 .. M -> Block]
    BY <2>6, <2>7
  <2>9. c \in Seq(Block)
    BY <2>8
  <2>10. Len(c) = M
    BY <2>8, <2>9
  <2> QED
    BY <2>5, <2>7, <2>9, <2>10
<1>3. i \in Nat /\ i >= 1 /\ Len(t) \in Nat /\ Len(s) \in Nat /\ i <= Len(s)
  OBVIOUS
<1> HIDE DEF a, c
<1>4. /\ ag \in Seq(Block) /\ Len(ag) = i
      /\ (\A k \in 1 .. (i - 1) : ag[k] = a[k]) /\ ag[i] = g
  <2>1. <<g>> \in Seq(Block) /\ Len(<<g>>) = 1 /\ <<g>>[1] = g
    OBVIOUS
  <2>2. ag = Append(a, g)
    BY <1>1
  <2> QED
    BY <1>1, <2>2
<1> HIDE DEF ag
<1>5. /\ agt \in Seq(Block) /\ Len(agt) = i + Len(t) /\ Len(t) \in Nat
      /\ (\A k \in 1 .. i : agt[k] = ag[k]) /\ (\A k \in 1 .. Len(t) : agt[i + k] = t[k])
  <2>1. /\ agt \in Seq(Block) /\ Len(agt) = Len(ag) + Len(t)
        /\ (\A k \in 1 .. Len(ag) : agt[k] = ag[k]) /\ (\A k \in 1 .. Len(t) : agt[Len(ag) + k] = t[k])
    <3>1. agt = ag \o t
      OBVIOUS
    <3>2. ag \in Seq(Block)
      BY <1>4
    <3> HIDE DEF agt
    <3> QED
      BY <3>1, <3>2, ConcatAt
  <2>2. Len(t) \in Nat
    OBVIOUS
  <2> HIDE DEF agt
  <2> QED
    BY <1>4, <2>1, <2>2
<1> HIDE DEF agt
<1>6. /\ r \in Seq(Block) /\ Len(r) = i + Len(t) + Len(c)
      /\ (\A k \in 1 .. (i + Len(t)) : r[k] = agt[k])
      /\ (\A k \in 1 .. Len(c) : r[i + Len(t) + k] = c[k])
  <2>1. /\ r \in Seq(Block) /\ Len(r) = Len(agt) + Len(c)
        /\ (\A k \in 1 .. Len(agt) : r[k] = agt[k])
        /\ (\A k \in 1 .. Len(c) : r[Len(agt) + k] = c[k])
    <3>1. r = agt \o c
      OBVIOUS
    <3>2. agt \in Seq(Block) /\ c \in Seq(Block)
      BY <1>2, <1>5
    <3> HIDE DEF r
    <3> QED
      BY <3>1, <3>2, ConcatAt
  <2> HIDE DEF r
  <2> QED
    BY <1>5, <2>1
<1> HIDE DEF r
<1>7. Len(r) = Len(s) + Len(t)
  <2>1. Len(r) = i + Len(t) + (Len(s) - i)
    BY <1>2, <1>6
  <2> QED
    BY <1>3, <2>1
<1>8. \A k \in 1 .. (i - 1) : r[k] = s[k]
  <2> TAKE k \in 1 .. (i - 1)
  <2>1. k \in 1 .. i /\ k \in 1 .. (i + Len(t))
    BY <1>5
  <2> QED
    BY <1>1, <1>4, <1>5, <1>6, <2>1
<1>9. r[i] = g
  <2>1. i \in 1 .. i /\ i \in 1 .. (i + Len(t))
    BY <1>5
  <2> QED
    BY <1>4, <1>5, <1>6, <2>1
<1>10. \A k \in 1 .. Len(t) : r[i + k] = t[k]
  <2> TAKE k \in 1 .. Len(t)
  <2>1. i + k \in 1 .. (i + Len(t))
    BY <1>5
  <2> QED
    BY <1>5, <1>6, <2>1
<1>11. \A k \in 1 .. (Len(s) - i) : r[i + Len(t) + k] = s[i + k]
  BY <1>2, <1>6
<1>12. Placed(s, i, g, t, r)
  BY <1>6, <1>7, <1>8, <1>9, <1>10, <1>11 DEF Placed
<1> QED
  BY <1>12 DEF r, agt, ag, a, c

(* The parts of a split block fill it.                                     *)
Fills(b, g, t) ==
  /\ g \in Block /\ g.used /\ g.at = b.at
  /\ \/ t = <<>> /\ End(g) = End(b)
     \/ \E q \in Block : t = <<q>> /\ ~q.used /\ q.at = End(g) /\ End(q) = End(b)

(* The layout after kmem_alloc without a split.                            *)
LEMMA PlacedWhole ==
  ASSUME NEW s, NEW e, TilesTo(s, e), Apart(s), NEW i \in 1 .. Len(s), ~s[i].used,
         NEW g \in Block, g.used, g.at = s[i].at, End(g) = End(s[i]),
         NEW r, Placed(s, i, g, <<>>, r)
  PROVE  /\ TilesTo(r, e) /\ Apart(r)
         /\ Walk(r)[i].usedBytes = Walk(s)[i].usedBytes + g.size
         /\ Walk(r)[i].usedBlocks = Walk(s)[i].usedBlocks + 1
         /\ Walk(s)[i] \in Counts
<1> DEFINE N == Len(s)
<1>1. /\ s \in Seq(Block) /\ s # <<>> /\ N \in Nat /\ s[1].at = 0 /\ End(s[N]) = e
      /\ \A k \in 1 .. (N - 1) : End(s[k]) = s[k + 1].at
  BY DEF TilesTo
<1>2. i \in Nat /\ i >= 1 /\ i <= N /\ \A k \in 1 .. N : s[k] \in Block
  BY <1>1
<1>3. /\ r \in Seq(Block) /\ Len(r) = N /\ r[i] = g
      /\ \A k \in 1 .. N : k # i => r[k] = s[k]
  <2>1. Len(<<>>) = 0 /\ r \in Seq(Block) /\ Len(r) = N + 0 /\ r[i] = g
    BY DEF Placed
  <2>2. \A k \in 1 .. (i - 1) : r[k] = s[k]
    BY DEF Placed
  <2>3. \A k \in 1 .. (N - i) : r[i + 0 + k] = s[i + k]
    BY <2>1 DEF Placed
  <2>4. ASSUME NEW k \in 1 .. N, k # i PROVE r[k] = s[k]
    <3>1. CASE k < i
      BY <1>2, <2>2, <3>1
    <3>2. CASE k > i
      <4>1. PICK j : j = k - i
        OBVIOUS
      <4>2. j \in 1 .. (N - i) /\ i + 0 + j = k /\ i + j = k
        BY <1>1, <1>2, <3>2, <4>1
      <4> QED
        BY <2>3, <4>2
    <3> QED
      BY <1>2, <2>4, <3>1, <3>2
  <2> QED
    BY <1>1, <2>1, <2>4
<1>4. \A k \in 1 .. N : r[k].at = s[k].at /\ End(r[k]) = End(s[k]) /\ (s[k].used => r[k].used)
  BY <1>3
<1>5. r # <<>>
  BY <1>2, <1>3
<1>6. TilesTo(r, e)
  <2>1. r[1].at = 0 /\ End(r[Len(r)]) = e
    BY <1>1, <1>2, <1>3, <1>4
  <2>2. ASSUME NEW k \in 1 .. (Len(r) - 1) PROVE End(r[k]) = r[k + 1].at
    <3>1. k \in 1 .. (N - 1) /\ k \in 1 .. N /\ k + 1 \in 1 .. N
      BY <1>1, <1>3
    <3> QED
      BY <1>1, <1>4, <3>1
  <2> QED
    BY <1>3, <1>5, <2>1, <2>2 DEF TilesTo
<1>7. Apart(r)
  <2> SUFFICES ASSUME NEW k \in 1 .. (Len(r) - 1) PROVE r[k].used \/ r[k + 1].used
    BY DEF Apart
  <2>1. k \in 1 .. (N - 1) /\ k \in 1 .. N /\ k + 1 \in 1 .. N
    BY <1>1, <1>3
  <2>2. s[k].used \/ s[k + 1].used
    BY <2>1 DEF Apart
  <2> QED
    BY <1>4, <2>1, <2>2
<1>8. Walk(r)[i - 1] = Walk(s)[i - 1] /\ Walk(s)[i - 1] \in Counts /\ Walk(s)[i] \in Counts
  <2>1. i - 1 \in Nat /\ i - 1 <= Len(r) /\ i - 1 <= Len(s) /\ \A k \in 1 .. (i - 1) : r[k] = s[k]
    BY <1>1, <1>2, <1>3
  <2>2. Walk(s) \in [0 .. N -> Counts] /\ i - 1 \in 0 .. N /\ i \in 0 .. N
    BY <1>1, <1>2, WalkTyped
  <2>3. Walk(r)[i - 1] = Walk(s)[i - 1]
    BY <1>1, <1>3, <2>1, WalkAgrees
  <2> QED
    BY <2>2, <2>3
<1>9. Walk(r)[i] = Count(Walk(s)[i - 1], g) /\ Walk(s)[i] = Count(Walk(s)[i - 1], s[i])
  <2>1. i \in 1 .. Len(r) /\ i \in 1 .. Len(s)
    BY <1>2, <1>3
  <2>2. \A k \in 1 .. Len(r) : Walk(r)[k] = Count(Walk(r)[k - 1], r[k])
    BY <1>3, WalkTyped
  <2>3. \A k \in 1 .. Len(s) : Walk(s)[k] = Count(Walk(s)[k - 1], s[k])
    BY <1>1, WalkTyped
  <2> QED
    BY <1>3, <1>8, <2>1, <2>2, <2>3
<1>10. PICK w \in Counts : w = Walk(s)[i - 1]
  BY <1>8
<1>11. s[i] \in Block
  BY <1>2
<1>12. /\ Count(w, g).usedBytes = w.usedBytes + g.size /\ Count(w, g).usedBlocks = w.usedBlocks + 1
       /\ Count(w, s[i]).usedBytes = w.usedBytes + 0 /\ Count(w, s[i]).usedBlocks = w.usedBlocks + 0
  BY <1>11, CountFacts
<1>13. w.usedBytes \in Nat /\ w.usedBlocks \in Nat /\ g.size \in Nat
  BY DEF Counts, Block
<1>14. Walk(r)[i].usedBytes = Walk(s)[i].usedBytes + g.size
  BY <1>9, <1>10, <1>12, <1>13
<1>15. Walk(r)[i].usedBlocks = Walk(s)[i].usedBlocks + 1
  BY <1>9, <1>10, <1>12, <1>13
<1> QED
  BY <1>6, <1>7, <1>8, <1>14, <1>15

(* The layout after kmem_alloc with a split.                               *)
LEMMA PlacedSplit ==
  ASSUME NEW s, NEW e, TilesTo(s, e), Apart(s), NEW i \in 1 .. Len(s), ~s[i].used,
         NEW g \in Block, g.used, g.at = s[i].at,
         NEW q \in Block, ~q.used, q.at = End(g), End(q) = End(s[i]),
         NEW r, Placed(s, i, g, <<q>>, r)
  PROVE  /\ TilesTo(r, e) /\ Apart(r)
         /\ Walk(r)[i + 1].usedBytes = Walk(s)[i].usedBytes + g.size
         /\ Walk(r)[i + 1].usedBlocks = Walk(s)[i].usedBlocks + 1
         /\ Walk(s)[i] \in Counts
<1> DEFINE N == Len(s)
<1>1. /\ s \in Seq(Block) /\ s # <<>> /\ N \in Nat /\ s[1].at = 0 /\ End(s[N]) = e
      /\ \A k \in 1 .. (N - 1) : End(s[k]) = s[k + 1].at
  BY DEF TilesTo
<1>2. i \in Nat /\ i >= 1 /\ i <= N /\ \A k \in 1 .. N : s[k] \in Block
  BY <1>1
<1>3. /\ r \in Seq(Block) /\ Len(r) = N + 1 /\ r[i] = g /\ r[i + 1] = q
      /\ \A k \in 1 .. N : /\ k < i => r[k] = s[k]
                           /\ k > i => r[k + 1] = s[k]
  <2>1. Len(<<q>>) = 1 /\ <<q>>[1] = q
    OBVIOUS
  <2>2. r \in Seq(Block) /\ Len(r) = N + 1 /\ r[i] = g
    BY <2>1 DEF Placed
  <2>3. r[i + 1] = q
    BY <2>1 DEF Placed
  <2>4. \A k \in 1 .. (i - 1) : r[k] = s[k]
    BY DEF Placed
  <2>5. \A k \in 1 .. (N - i) : r[i + 1 + k] = s[i + k]
    BY <2>1 DEF Placed
  <2>6. ASSUME NEW k \in 1 .. N, k < i PROVE r[k] = s[k]
    BY <1>2, <2>4, <2>6
  <2>7. ASSUME NEW k \in 1 .. N, k > i PROVE r[k + 1] = s[k]
    <3>1. PICK j : j = k - i
      OBVIOUS
    <3>2. j \in 1 .. (N - i) /\ i + 1 + j = k + 1 /\ i + j = k
      BY <1>1, <1>2, <2>7, <3>1
    <3> QED
      BY <2>5, <3>2
  <2> QED
    BY <2>2, <2>3, <2>6, <2>7
<1>4. r # <<>>
  BY <1>2, <1>3
<1>5. TilesTo(r, e)
  <2>1. r[1].at = 0
    BY <1>1, <1>2, <1>3
  <2>2. ASSUME NEW k \in 1 .. (Len(r) - 1) PROVE End(r[k]) = r[k + 1].at
    <3>1. k \in 1 .. N
      BY <1>3
    <3>2. CASE k < i
      <4>1. k \in 1 .. (N - 1) /\ k + 1 \in 1 .. N /\ r[k] = s[k] /\ (k + 1 < i \/ k + 1 = i)
        BY <1>2, <1>3, <3>1, <3>2
      <4>2. r[k + 1].at = s[k + 1].at
        BY <1>3, <4>1
      <4> QED
        BY <1>1, <4>1, <4>2
    <3>3. CASE k = i
      BY <1>3, <3>3
    <3>4. CASE k = i + 1
      <4>1. i \in 1 .. (N - 1) /\ i + 1 \in 1 .. N /\ i + 1 > i
        BY <1>2, <3>1, <3>4
      <4>2. r[k + 1] = s[i + 1] /\ End(s[i]) = s[i + 1].at
        BY <1>1, <1>3, <3>4, <4>1
      <4> QED
        BY <1>3, <3>4, <4>2
    <3>5. CASE k > i + 1
      <4>1. PICK j : j = k - 1
        OBVIOUS
      <4>2. j \in 1 .. (N - 1) /\ j \in 1 .. N /\ j > i /\ j + 1 = k /\ k > i
        BY <1>1, <1>2, <3>1, <3>5, <4>1
      <4>3. r[k] = s[j] /\ r[k + 1] = s[k] /\ End(s[j]) = s[k].at
        BY <1>1, <1>3, <3>1, <4>2
      <4> QED
        BY <4>3
    <3> QED
      BY <1>2, <3>1, <3>2, <3>3, <3>4, <3>5
  <2>3. End(r[Len(r)]) = e
    <3>1. CASE i = N
      BY <1>1, <1>3, <3>1
    <3>2. CASE i # N
      <4>1. N \in 1 .. N /\ N > i
        BY <1>1, <1>2, <3>2
      <4> QED
        BY <1>1, <1>3, <4>1
    <3> QED
      BY <3>1, <3>2
  <2> QED
    BY <1>3, <1>4, <2>1, <2>2, <2>3 DEF TilesTo
<1>6. Apart(r)
  <2> SUFFICES ASSUME NEW k \in 1 .. (Len(r) - 1) PROVE r[k].used \/ r[k + 1].used
    BY DEF Apart
  <2>0. \A j \in 1 .. (N - 1) : s[j].used \/ s[j + 1].used
    BY DEF Apart
  <2>1. k \in 1 .. N
    BY <1>3
  <2>2. CASE k < i
    <3>1. k \in 1 .. (N - 1) /\ k + 1 \in 1 .. N /\ r[k] = s[k] /\ (k + 1 < i \/ k + 1 = i)
      BY <1>2, <1>3, <2>1, <2>2
    <3> QED
      BY <1>3, <2>0, <3>1
  <2>3. CASE k = i
    BY <1>3, <2>3
  <2>4. CASE k = i + 1
    <3>1. i \in 1 .. (N - 1) /\ i + 1 \in 1 .. N /\ i + 1 > i
      BY <1>2, <2>1, <2>4
    <3> QED
      BY <1>3, <2>0, <2>4, <3>1
  <2>5. CASE k > i + 1
    <3>1. PICK j : j = k - 1
      OBVIOUS
    <3>2. j \in 1 .. (N - 1) /\ j \in 1 .. N /\ j > i /\ j + 1 = k /\ k > i
      BY <1>1, <1>2, <2>1, <2>5, <3>1
    <3>3. r[k] = s[j] /\ r[k + 1] = s[k] /\ (s[j].used \/ s[k].used)
      BY <1>3, <2>0, <2>1, <3>2
    <3> QED
      BY <3>3
  <2> QED
    BY <1>2, <2>1, <2>2, <2>3, <2>4, <2>5
<1>7. Walk(r)[i - 1] = Walk(s)[i - 1] /\ Walk(s)[i - 1] \in Counts /\ Walk(s)[i] \in Counts
  <2>1. i - 1 \in Nat /\ i - 1 <= Len(r) /\ i - 1 <= Len(s) /\ \A k \in 1 .. (i - 1) : r[k] = s[k]
    BY <1>1, <1>2, <1>3
  <2>2. Walk(s) \in [0 .. N -> Counts] /\ i - 1 \in 0 .. N /\ i \in 0 .. N
    BY <1>1, <1>2, WalkTyped
  <2>3. Walk(r)[i - 1] = Walk(s)[i - 1]
    BY <1>1, <1>3, <2>1, WalkAgrees
  <2> QED
    BY <2>2, <2>3
<1>8. /\ Walk(r)[i + 1] = Count(Count(Walk(s)[i - 1], g), q)
      /\ Walk(s)[i] = Count(Walk(s)[i - 1], s[i])
  <2>1. i \in 1 .. Len(r) /\ i + 1 \in 1 .. Len(r) /\ (i + 1) - 1 = i /\ i \in 1 .. Len(s)
    BY <1>2, <1>3
  <2>2. \A k \in 1 .. Len(r) : Walk(r)[k] = Count(Walk(r)[k - 1], r[k])
    BY <1>3, WalkTyped
  <2>3. \A k \in 1 .. Len(s) : Walk(s)[k] = Count(Walk(s)[k - 1], s[k])
    BY <1>1, WalkTyped
  <2>4. Walk(r)[i + 1] = Count(Walk(r)[i], q)
    BY <1>3, <2>1, <2>2
  <2>5. Walk(r)[i] = Count(Walk(s)[i - 1], g)
    BY <1>3, <1>7, <2>1, <2>2
  <2> QED
    BY <2>1, <2>3, <2>4, <2>5
<1>9. PICK w \in Counts : w = Walk(s)[i - 1]
  BY <1>7
<1>10. PICK v \in Counts : v = Count(w, g)
  BY CountFacts
<1>11. s[i] \in Block
  BY <1>2
<1>12. /\ v.usedBytes = w.usedBytes + g.size /\ v.usedBlocks = w.usedBlocks + 1
       /\ Count(v, q).usedBytes = v.usedBytes + 0 /\ Count(v, q).usedBlocks = v.usedBlocks + 0
       /\ Count(w, s[i]).usedBytes = w.usedBytes + 0 /\ Count(w, s[i]).usedBlocks = w.usedBlocks + 0
  <2>1. v.usedBytes = w.usedBytes + g.size /\ v.usedBlocks = w.usedBlocks + 1
    BY <1>10, CountFacts
  <2>2. Count(v, q).usedBytes = v.usedBytes + 0 /\ Count(v, q).usedBlocks = v.usedBlocks + 0
    BY CountFacts
  <2>3. Count(w, s[i]).usedBytes = w.usedBytes + 0 /\ Count(w, s[i]).usedBlocks = w.usedBlocks + 0
    BY <1>11, CountFacts
  <2> QED
    BY <2>1, <2>2, <2>3
<1>13. w.usedBytes \in Nat /\ w.usedBlocks \in Nat /\ g.size \in Nat
  BY DEF Counts, Block
<1>14. Walk(r)[i + 1].usedBytes = Walk(s)[i].usedBytes + g.size
  BY <1>8, <1>9, <1>10, <1>12, <1>13
<1>15. Walk(r)[i + 1].usedBlocks = Walk(s)[i].usedBlocks + 1
  BY <1>8, <1>9, <1>10, <1>12, <1>13
<1> QED
  BY <1>5, <1>6, <1>7, <1>14, <1>15

(* Rounding up gives a size, and one that is large enough unless the       *)
(* addition leaves the word.                                               *)
LEMMA AlignUpFacts ==
  ASSUME NEW size \in Sizes
  PROVE  /\ size \in Nat /\ AlignUp(size) \in Nat
         /\ size + Alignment <= Word => size <= AlignUp(size)
<1>1. size \in Nat /\ Word \in Nat \ {0} /\ Alignment \in Nat \ {0}
  BY KmemAssumption
<1>2. PICK sum \in Nat : sum = (size + Alignment - 1) % Word
  BY <1>1
<1>3. PICK rem \in Nat : rem = sum % Alignment
  BY <1>1
<1>4. rem < Alignment /\ rem <= sum
  <2>1. \A m \in Nat, n \in Nat \ {0} : m % n < n /\ m % n <= m
    OBVIOUS
  <2> QED
    BY <1>1, <1>3, <2>1
<1>5. AlignUp(size) = sum - rem
  BY <1>2, <1>3 DEF AlignUp
<1>6. ASSUME size + Alignment <= Word PROVE size <= AlignUp(size)
  <2>1. \A m \in Nat, n \in Nat \ {0} : m < n => m % n = m
    OBVIOUS
  <2>2. size + Alignment - 1 \in Nat /\ size + Alignment - 1 < Word
    BY <1>1, <1>6
  <2>3. sum = size + Alignment - 1
    BY <1>1, <1>2, <2>1, <2>2
  <2> QED
    BY <1>1, <1>4, <1>5, <2>3
<1> QED
  BY <1>1, <1>4, <1>5, <1>6

-----------------------------------------------------------------------------
(* The inductive invariant.                                                *)

(* The counters that kmem_alloc and kmem_free keep are numbers.            *)
CountersTyped ==
  /\ inUse \in Nat /\ peakInUse \in Nat /\ live \in Nat /\ peakLive \in Nat
  /\ allocCount \in Nat /\ freeCount \in Nat /\ failCount \in Nat

(* They agree with the walk of kmem_stats_snapshot, and with each other.   *)
CountersAgree ==
  /\ inUse = Stats.usedBytes
  /\ live = Stats.usedBlocks
  /\ allocCount = live + freeCount
  /\ inUse <= peakInUse /\ peakInUse <= Capacity /\ live <= peakLive

(* The inductive invariant.                                                *)
KmemInv ==
  /\ TilesTo(list, ArenaSize)
  /\ Apart(list)
  /\ asked \in [0 .. (ArenaSize - 1) -> Nat]
  /\ CountersTyped
  /\ CountersAgree
  /\ LargeEnough

(* A block that kmem_split_block leaves whole fills itself.                *)
LEMMA WholeFills ==
  ASSUME NEW b \in Block, NEW g, g = [b EXCEPT !.used = TRUE]
  PROVE  Fills(b, g, <<>>) /\ g.size = b.size /\ g.size \in Nat
<1>1. /\ b.at \in Nat /\ b.size \in Nat
      /\ b = [at |-> b.at, size |-> b.size, used |-> b.used]
  BY DEF Block
<1>2. g = [at |-> b.at, size |-> b.size, used |-> TRUE]
  BY <1>1
<1>3. g \in Block /\ g.used /\ g.at = b.at /\ g.size = b.size
  BY <1>1, <1>2 DEF Block
<1>4. End(g) = End(b)
  BY <1>3 DEF End
<1> QED
  BY <1>1, <1>3, <1>4 DEF Fills

(* The two blocks that kmem_split_block cuts a block into fill it.         *)
LEMMA PartsFill ==
  ASSUME NEW b \in Block, NEW z \in Nat, b.size - z > Header + Alignment,
         NEW q, q = [at |-> b.at + Header + z, size |-> b.size - z - Header, used |-> FALSE],
         NEW g, g = [at |-> b.at, size |-> z, used |-> TRUE]
  PROVE  Fills(b, g, <<q>>) /\ g.size = z
<1>1. /\ b.at \in Nat /\ b.size \in Nat
      /\ b = [at |-> b.at, size |-> b.size, used |-> b.used]
  BY DEF Block
<1>2. b.size - z - Header \in Nat
  BY <1>1
<1>5. g \in Block /\ g.used /\ g.at = b.at /\ g.size = z
  BY <1>1 DEF Block
<1>6. q \in Block /\ ~q.used /\ q.at = b.at + Header + z /\ q.size = b.size - z - Header
  BY <1>1, <1>2 DEF Block
<1>7. q.at = End(g)
  BY <1>5, <1>6 DEF End
<1>8. q.at + Header + q.size = b.at + Header + b.size
  BY <1>1, <1>6
<1>9. End(q) = End(b)
  BY <1>8 DEF End
<1> QED
  BY <1>5, <1>6, <1>7, <1>9 DEF Fills

(* The layout after kmem_alloc.                                            *)
LEMMA FilledFacts ==
  ASSUME NEW s, NEW e, TilesTo(s, e), Apart(s), NEW i \in 1 .. Len(s), ~s[i].used,
         NEW g, NEW t, Fills(s[i], g, t), NEW r, Placed(s, i, g, t, r)
  PROVE  /\ TilesTo(r, e) /\ Apart(r)
         /\ Walk(r)[Len(r)].usedBytes = Walk(s)[Len(s)].usedBytes + g.size
         /\ Walk(r)[Len(r)].usedBlocks = Walk(s)[Len(s)].usedBlocks + 1
         /\ \A k \in 1 .. Len(r) :
              r[k].used => \/ k = i
                           \/ \E j \in 1 .. Len(s) : s[j] = r[k]
<1>1. /\ s \in Seq(Block) /\ r \in Seq(Block) /\ g \in Block /\ g.used /\ g.at = s[i].at
      /\ g.size \in Nat
  BY DEF TilesTo, Placed, Fills, Block
<1>2. PICK n \in {0, 1} : n = Len(t)
  <2>1. t = <<>> \/ \E q : t = <<q>>
    BY DEF Fills
  <2>2. Len(<<>>) = 0 /\ \A q : Len(<<q>>) = 1
    OBVIOUS
  <2>3. Len(t) = 0 \/ Len(t) = 1
    BY <2>1, <2>2
  <2> QED
    BY <2>3
<1>3. t = <<>> => n = 0
  <2>1. Len(<<>>) = 0
    OBVIOUS
  <2> QED
    BY <1>2, <2>1
<1>4. /\ Len(s) \in Nat /\ i \in Nat /\ i >= 1 /\ i <= Len(s) /\ Len(r) = Len(s) + n
      /\ i + n \in 0 .. Len(r) /\ Len(r) - (i + n) = Len(s) - i /\ i \in 0 .. Len(s)
  <2>1. Len(r) = Len(s) + Len(t)
    BY DEF Placed
  <2>2. Len(s) \in Nat
    BY <1>1
  <2> QED
    BY <1>2, <2>1, <2>2
<1>5. \A k \in 1 .. (Len(s) - i) : r[i + n + k] = s[i + k]
  BY <1>2 DEF Placed
<1>6. /\ TilesTo(r, e) /\ Apart(r) /\ Walk(s)[i] \in Counts
      /\ Walk(r)[i + n].usedBytes = Walk(s)[i].usedBytes + g.size
      /\ Walk(r)[i + n].usedBlocks = Walk(s)[i].usedBlocks + 1
  <2>1. CASE t = <<>>
    <3>1. End(g) = End(s[i]) /\ n = 0 /\ i + n = i
      BY <1>2, <1>4, <2>1 DEF Fills
    <3>2. Placed(s, i, g, <<>>, r)
      BY <2>1
    <3>3. /\ TilesTo(r, e) /\ Apart(r) /\ Walk(s)[i] \in Counts
          /\ Walk(r)[i].usedBytes = Walk(s)[i].usedBytes + g.size
          /\ Walk(r)[i].usedBlocks = Walk(s)[i].usedBlocks + 1
      BY <1>1, <3>1, <3>2, PlacedWhole
    <3> QED
      BY <3>1, <3>3
  <2>2. CASE t # <<>>
    <3>1. PICK q \in Block : t = <<q>> /\ ~q.used /\ q.at = End(g) /\ End(q) = End(s[i])
      BY <2>2 DEF Fills
    <3>2. n = 1
      BY <1>2, <3>1
    <3>3. Placed(s, i, g, <<q>>, r)
      BY <3>1
    <3>4. /\ TilesTo(r, e) /\ Apart(r) /\ Walk(s)[i] \in Counts
          /\ Walk(r)[i + 1].usedBytes = Walk(s)[i].usedBytes + g.size
          /\ Walk(r)[i + 1].usedBlocks = Walk(s)[i].usedBlocks + 1
      BY <1>1, <3>1, <3>3, PlacedSplit
    <3> QED
      BY <3>2, <3>4
  <2> QED
    BY <2>1, <2>2
<1>7. /\ Walk(r)[Len(r)].usedBytes - Walk(s)[Len(s)].usedBytes
           = Walk(r)[i + n].usedBytes - Walk(s)[i].usedBytes
      /\ Walk(r)[Len(r)].usedBlocks - Walk(s)[Len(s)].usedBlocks
           = Walk(r)[i + n].usedBlocks - Walk(s)[i].usedBlocks
  BY <1>1, <1>4, <1>5, WalkDiffers
<1>8. PICK x \in Counts : x = Walk(r)[Len(r)]
  <2>1. Walk(r) \in [0 .. Len(r) -> Counts] /\ Len(r) \in 0 .. Len(r)
    BY <1>1, WalkTyped
  <2> QED
    BY <2>1
<1>9. PICK y \in Counts : y = Walk(s)[Len(s)]
  <2>1. Walk(s) \in [0 .. Len(s) -> Counts] /\ Len(s) \in 0 .. Len(s)
    BY <1>1, WalkTyped
  <2> QED
    BY <2>1
<1>10. PICK u \in Counts : u = Walk(s)[i]
  BY <1>6
<1>11. /\ x.usedBytes \in Nat /\ x.usedBlocks \in Nat /\ y.usedBytes \in Nat /\ y.usedBlocks \in Nat
       /\ u.usedBytes \in Nat /\ u.usedBlocks \in Nat
  BY DEF Counts
<1>12. x.usedBytes - y.usedBytes = (u.usedBytes + g.size) - u.usedBytes
  BY <1>6, <1>7, <1>8, <1>9, <1>10
<1>13. x.usedBlocks - y.usedBlocks = (u.usedBlocks + 1) - u.usedBlocks
  BY <1>6, <1>7, <1>8, <1>9, <1>10
<1>14. x.usedBytes = y.usedBytes + g.size
  BY <1>1, <1>11, <1>12
<1>15. x.usedBlocks = y.usedBlocks + 1
  BY <1>11, <1>13
<1>16. ASSUME NEW k \in 1 .. Len(r), r[k].used, k # i
       PROVE  \E j \in 1 .. Len(s) : s[j] = r[k]
  <2>1. CASE k < i
    <3>1. k \in 1 .. (i - 1) /\ k \in 1 .. Len(s)
      BY <1>4, <2>1
    <3> QED
      BY <3>1 DEF Placed
  <2>2. CASE k > i /\ k <= i + n
    <3>1. k = i + 1 /\ n = 1
      BY <1>2, <1>4, <2>2
    <3>2. t # <<>>
      BY <1>3, <3>1
    <3>3. PICK q \in Block : t = <<q>> /\ ~q.used
      BY <3>2 DEF Fills
    <3>4. \A m \in 1 .. Len(t) : r[i + m] = t[m]
      BY DEF Placed
    <3>5. r[i + 1] = q
      <4>1. Len(<<q>>) = 1 /\ <<q>>[1] = q
        OBVIOUS
      <4>2. 1 \in 1 .. Len(t) /\ t[1] = q
        BY <3>3, <4>1
      <4> QED
        BY <3>4, <4>2
    <3> QED
      BY <1>16, <3>1, <3>3, <3>5
  <2>3. CASE k > i + n
    <3>1. PICK m : m = k - (i + n)
      OBVIOUS
    <3>2. m \in 1 .. (Len(s) - i) /\ i + n + m = k /\ i + m \in 1 .. Len(s)
      BY <1>2, <1>4, <2>3, <3>1
    <3>3. r[k] = s[i + m]
      BY <1>5, <3>2
    <3> QED
      BY <3>2, <3>3
  <2> QED
    BY <1>2, <1>4, <1>16, <2>1, <2>2, <2>3
<1> QED
  BY <1>6, <1>8, <1>9, <1>14, <1>15, <1>16

(* What is in use fits beside one header.                                  *)
LEMMA UsedFits ==
  ASSUME NEW s, NEW e, TilesTo(s, e)
  PROVE  Walk(s)[Len(s)].usedBytes <= e - Header
<1>1. PICK w \in Counts : w = Walk(s)[Len(s)]
  BY WalkSums
<1>2. w.freeBytes + w.usedBytes + (w.freeBlocks + w.usedBlocks) * Header = e /\ w.freeBlocks + w.usedBlocks = Len(s)
  BY <1>1, WalkSums
<1>3. PICK n \in Nat : n = Len(s) - 1
  <2>1. s \in Seq(Block) /\ s # <<>>
    BY DEF TilesTo
  <2>2. Len(s) \in Nat \ {0}
    BY <2>1, EmptySeq
  <2> QED
    BY <2>2
<1>4. (n + 1) * Header = n * Header + Header /\ n * Header \in Nat
  OBVIOUS
<1>5. PICK m \in Nat : m = n * Header
  BY <1>4
<1>6. (w.freeBlocks + w.usedBlocks) * Header = m + Header
  <2>1. w.freeBlocks + w.usedBlocks = n + 1
    <3>1. Len(s) \in Nat
      BY DEF TilesTo
    <3> QED
      BY <1>2, <1>3, <3>1
  <2> QED
    BY <1>4, <1>5, <2>1
<1>7. w.freeBytes + w.usedBytes + (m + Header) = e
  BY <1>2, <1>6
<1>8. w.freeBytes \in Nat /\ w.usedBytes \in Nat
  BY DEF Counts
<1>9. w.usedBytes <= e - Header
  BY <1>7, <1>8
<1> QED
  BY <1>1, <1>9

(* The block that kmem_alloc takes is free and fits.                       *)
LEMMA MinFits ==
  ASSUME list \in Seq(Block), NEW z \in Nat, Fitting(z) # {}
  PROVE  LET i == Min(Fitting(z))
         IN  i \in 1 .. Len(list) /\ ~list[i].used /\ list[i].size >= z
<1>1. PICK S : S = Fitting(z)
  OBVIOUS
<1>2. S \in SUBSET Nat /\ S # {}
  BY <1>1 DEF Fitting
<1>3. \E i \in S : \A j \in S : i <= j
  BY <1>2, NatMin
<1>4. Min(S) \in S
  BY <1>3 DEF Min
<1> QED
  BY <1>1, <1>4 DEF Fitting

(* A block left whole is its own first part, with nothing after it.        *)
LEMMA TailOne ==
  ASSUME NEW x
  PROVE  <<x>>[1] = x /\ Tail(<<x>>) = <<>>
<1>1. <<x>> \in Seq({x}) /\ <<x>> # <<>> /\ Len(<<x>>) = 1 /\ <<x>>[1] = x
  OBVIOUS
<1>2. Tail(<<x>>) \in Seq({x}) /\ Len(Tail(<<x>>)) = Len(<<x>>) - 1
  BY <1>1, HeadTailProperties
<1>3. Len(Tail(<<x>>)) = 0
  BY <1>1, <1>2
<1> QED
  BY <1>1, <1>2, <1>3, EmptySeq

(* The first of two parts, and the other.                                  *)
LEMMA TailTwo ==
  ASSUME NEW x, NEW y
  PROVE  <<x, y>>[1] = x /\ Tail(<<x, y>>) = <<y>>
<1>1. <<x, y>> \in Seq({x, y}) /\ <<x, y>> # <<>> /\ Len(<<x, y>>) = 2 /\ <<x, y>>[1] = x /\ <<x, y>>[2] = y
  OBVIOUS
<1> DEFINE t == Tail(<<x, y>>)
<1>2. t \in Seq({x, y}) /\ Len(t) = Len(<<x, y>>) - 1 /\ \A i \in 1 .. Len(t) : t[i] = <<x, y>>[i + 1]
  BY <1>1, HeadTailProperties
<1>3. Len(t) = 1 /\ t[1] = y
  BY <1>1, <1>2
<1>4. <<y>> \in Seq({x, y}) /\ Len(<<y>>) = 1 /\ <<y>>[1] = y
  OBVIOUS
<1> HIDE DEF t
<1>5. t = <<y>>
  BY <1>2, <1>3, <1>4, SeqEqual
<1> QED
  BY <1>1, <1>5 DEF t

(* kmem_alloc keeps the invariant.                                         *)
LEMMA AllocInv ==
  ASSUME KmemInv, NEW size \in Sizes, Alloc(size)
  PROVE  KmemInv'
<1>1. PICK z \in Nat : z = AlignUp(size)
  BY AlignUpFacts
<1>2. /\ list \in Seq(Block) /\ TilesTo(list, ArenaSize) /\ Apart(list)
      /\ asked \in [0 .. (ArenaSize - 1) -> Nat] /\ CountersTyped /\ CountersAgree /\ LargeEnough
  BY DEF KmemInv, TilesTo
<1>3. PICK i : i = Min(Fitting(z))
  OBVIOUS
<1>4. PICK parts : parts = Split(i, z)
  OBVIOUS
<1>5. PICK g : g = [parts[1] EXCEPT !.used = TRUE]
  OBVIOUS
<1>6. /\ Fitting(z) # {}
      /\ list' = SubSeq(list, 1, i - 1) \o <<g>> \o Tail(parts) \o SubSeq(list, i + 1, Len(list))
      /\ asked' = [asked EXCEPT ![g.at] = size]
      /\ inUse' = inUse + g.size
      /\ peakInUse' = MaxOf(peakInUse, inUse')
      /\ allocCount' = allocCount + 1
      /\ live' = live + 1
      /\ peakLive' = MaxOf(peakLive, live')
      /\ freeCount' = freeCount /\ failCount' = failCount
  BY <1>1, <1>3, <1>4, <1>5 DEF Alloc
<1>7. i \in 1 .. Len(list) /\ ~list[i].used /\ list[i].size >= z
  BY <1>2, <1>3, <1>6, MinFits
<1>8. PICK b \in Block : b = list[i]
  BY <1>2, <1>7
<1>9. /\ Fills(b, g, Tail(parts)) /\ g.size >= z /\ g.size \in Nat
      /\ Tail(parts) \in Seq(Block)
  <2>1. b.size \in Nat /\ b.size >= z
    BY <1>7, <1>8 DEF Block
  <2>2. CASE b.size - z <= Header + Alignment
    <3>1. parts = <<b>>
      BY <1>4, <1>8, <2>2 DEF Split
    <3>2. parts[1] = b /\ Tail(parts) = <<>> /\ <<>> \in Seq(Block)
      BY <3>1, TailOne
    <3>3. g = [b EXCEPT !.used = TRUE]
      BY <1>5, <3>2
    <3>4. Fills(b, g, <<>>) /\ g.size = b.size /\ g.size \in Nat
      BY <3>3, WholeFills
    <3> QED
      BY <2>1, <3>2, <3>4
  <2>3. CASE ~(b.size - z <= Header + Alignment)
    <3>1. PICK f : f = [b EXCEPT !.size = z]
      OBVIOUS
    <3>2. PICK q : q = [at |-> b.at + Header + z, size |-> b.size - z - Header, used |-> FALSE]
      OBVIOUS
    <3>3. parts = <<f, q>>
      BY <1>4, <1>8, <2>3, <3>1, <3>2 DEF Split
    <3>4. parts[1] = f /\ Tail(parts) = <<q>>
      BY <3>3, TailTwo
    <3>5. g = [f EXCEPT !.used = TRUE] /\ b.size - z > Header + Alignment
      BY <1>5, <2>1, <2>3, <3>4
    <3>6. Fills(b, g, <<q>>) /\ g.size = z
      <4>1. b = [at |-> b.at, size |-> b.size, used |-> b.used]
        BY DEF Block
      <4>2. f = [at |-> b.at, size |-> z, used |-> b.used]
        BY <3>1, <4>1
      <4>3. g = [at |-> b.at, size |-> z, used |-> TRUE]
        BY <3>5, <4>2
      <4> QED
        <5>1. b.size - z > Header + Alignment
          BY <3>5
        <5>2. \A h : h = [at |-> b.at, size |-> z, used |-> TRUE] => Fills(b, h, <<q>>) /\ h.size = z
          BY <3>2, <5>1, PartsFill
        <5> QED
          BY <4>3, <5>2, Zenon
    <3>7. q \in Block
      <4>1. b.at \in Nat /\ b.size \in Nat /\ b.size - z - Header \in Nat
        BY <2>1, <3>5 DEF Block
      <4> QED
        BY <3>2, <4>1 DEF Block
    <3>8. <<q>> \in Seq(Block)
      BY <3>7
    <3>9. g.size >= z /\ g.size \in Nat
      BY <3>6
    <3> QED
      BY <3>4, <3>6, <3>8, <3>9
  <2> QED
    BY <2>2, <2>3
<1>10. g \in Block /\ g.used /\ g.at = list[i].at
  BY <1>8, <1>9 DEF Fills
<1>11. Placed(list, i, g, Tail(parts), list')
  <2>1. PICK t \in Seq(Block) : t = Tail(parts)
    BY <1>9
  <2>2. list' = SubSeq(list, 1, i - 1) \o <<g>> \o t \o SubSeq(list, i + 1, Len(list))
    BY <1>6, <2>1
  <2>3. Placed(list, i, g, t, list')
    <3>1. Placed(list, i, g, t, SubSeq(list, 1, i - 1) \o <<g>> \o t \o SubSeq(list, i + 1, Len(list)))
      BY <1>2, <1>7, <1>10, Replaced, Zenon
    <3> QED
      BY <2>2, <3>1, Zenon
  <2> QED
    BY <2>1, <2>3
<1>12. /\ TilesTo(list', ArenaSize) /\ Apart(list')
       /\ Walk(list')[Len(list')].usedBytes = Walk(list)[Len(list)].usedBytes + g.size
       /\ Walk(list')[Len(list')].usedBlocks = Walk(list)[Len(list)].usedBlocks + 1
       /\ \A k \in 1 .. Len(list') :
            list'[k].used => \/ k = i
                             \/ \E j \in 1 .. Len(list) : list[j] = list'[k]
  <2>1. Fills(list[i], g, Tail(parts))
    BY <1>8, <1>9
  <2> QED
    BY <1>2, <1>7, <1>11, <2>1, FilledFacts
<1>13. g.at \in 0 .. (ArenaSize - 1)
  <2>1. End(list[i]) <= ArenaSize
    BY <1>2, <1>7, TilesInOrder
  <2>2. b.at \in Nat /\ End(b) \in Nat /\ b.at < End(b)
    BY BlockEnds
  <2> QED
    BY <1>8, <1>10, <2>1, <2>2
<1>14. asked' \in [0 .. (ArenaSize - 1) -> Nat]
  BY <1>2, <1>6, AlignUpFacts
<1>15. CountersTyped' /\ CountersAgree'
  <2>0. /\ inUse' = inUse + g.size /\ peakInUse' = MaxOf(peakInUse, inUse')
        /\ allocCount' = allocCount + 1 /\ live' = live + 1
        /\ freeCount' = freeCount /\ failCount' = failCount
    BY <1>6
  <2>1. inUse \in Nat /\ peakInUse \in Nat /\ live \in Nat /\ peakLive \in Nat
        /\ allocCount \in Nat /\ freeCount \in Nat /\ failCount \in Nat
    BY <1>2 DEF CountersTyped
  <2>2. /\ inUse = Stats.usedBytes /\ live = Stats.usedBlocks /\ allocCount = live + freeCount
        /\ inUse <= peakInUse /\ peakInUse <= Capacity /\ live <= peakLive
    BY <1>2 DEF CountersAgree
  <2>3. Stats'.usedBytes = inUse + g.size /\ Stats'.usedBlocks = live + 1
    BY <1>12, <2>2 DEF Stats
  <2>4. inUse' <= Capacity
    <3>1. Walk(list')[Len(list')].usedBytes <= ArenaSize - Header
      BY <1>12, UsedFits
    <3>2. Stats' = Walk(list')[Len(list')]
      BY DEF Stats
    <3> QED
      BY <1>6, <2>3, <3>1, <3>2 DEF Capacity
  <2>5. Capacity' = Capacity /\ Capacity \in Nat
    BY DEF Capacity
  <2>6. inUse' \in Nat /\ live' \in Nat /\ allocCount' \in Nat /\ freeCount' \in Nat /\ failCount' \in Nat
    BY <2>0, <1>9, <2>1
  <2>7. /\ peakInUse' \in Nat /\ inUse' <= peakInUse' /\ peakInUse' <= Capacity
    BY <2>0, <2>1, <2>2, <2>4, <2>6 DEF MaxOf
  <2>8. peakLive' \in Nat /\ live' <= peakLive'
    BY <1>6, <2>1, <2>6 DEF MaxOf
  <2>9. allocCount' = live' + freeCount'
    BY <1>6, <2>1, <2>2
  <2> QED
    BY <1>6, <2>3, <2>5, <2>6, <2>7, <2>8, <2>9 DEF CountersTyped, CountersAgree
<1>16. LargeEnough'
  <2>1. list' \in Seq(Block) /\ DOMAIN list' = 1 .. Len(list') /\ i \in 1 .. Len(list') /\ list'[i] = g
    <3>1. list' \in Seq(Block) /\ Len(list') = Len(list) + Len(Tail(parts)) /\ list'[i] = g
      BY <1>11 DEF Placed
    <3>2. Len(list) \in Nat /\ Len(Tail(parts)) \in Nat
      BY <1>2, <1>9
    <3> QED
      BY <1>7, <3>1, <3>2
  <2>2. SUFFICES ASSUME NEW k \in 1 .. Len(list'), list'[k].used,
                        asked'[list'[k].at] + Alignment <= Word
                 PROVE  list'[k].size >= asked'[list'[k].at]
    BY <2>1 DEF LargeEnough
  <2>3. CASE k = i
    <3>1. asked'[list'[k].at] = size /\ list'[k] = g
      BY <1>2, <1>6, <1>13, <2>1, <2>3
    <3>2. size \in Nat /\ (size + Alignment <= Word => size <= z)
      BY <1>1, AlignUpFacts
    <3> QED
      BY <1>9, <2>2, <3>1, <3>2
  <2>4. CASE k # i
    <3>1. PICK j \in 1 .. Len(list) : list[j] = list'[k]
      BY <1>12, <2>2, <2>4
    <3>2. list'[k].at # g.at
      <4>1. list'[k] \in Block
        BY <2>1
      <4>2. \/ i < k /\ End(g) <= list'[k].at
            \/ k < i /\ End(list'[k]) <= g.at
        <5>1. i < k \/ k < i
          BY <2>1, <2>4
        <5>2. \A m, n \in 1 .. Len(list') : m < n => End(list'[m]) <= list'[n].at
          BY <1>12, TilesInOrder
        <5> QED
          BY <2>1, <5>1, <5>2
      <4>3. /\ g.at \in Nat /\ End(g) \in Nat /\ g.at < End(g)
            /\ list'[k].at \in Nat /\ End(list'[k]) \in Nat /\ list'[k].at < End(list'[k])
        BY <1>10, <4>1, BlockEnds
      <4> QED
        BY <4>2, <4>3
    <3>3. asked'[list'[k].at] = asked[list'[k].at]
      <4>1. list'[k].at \in 0 .. (ArenaSize - 1)
        <5>1. End(list[j]) <= ArenaSize /\ list[j] \in Block
          BY <1>2, TilesInOrder
        <5>2. list[j].at \in Nat /\ End(list[j]) \in Nat /\ list[j].at < End(list[j])
          BY <5>1, BlockEnds
        <5> QED
          BY <3>1, <5>1, <5>2
      <4> QED
        BY <1>2, <1>6, <3>2, <4>1
    <3>4. DOMAIN list = 1 .. Len(list)
      BY <1>2
    <3> QED
      BY <1>2, <2>2, <3>1, <3>3, <3>4 DEF LargeEnough
  <2> QED
    BY <2>3, <2>4
<1> QED
  BY <1>12, <1>14, <1>15, <1>16 DEF KmemInv, TilesTo, Apart, End

-----------------------------------------------------------------------------
(* kmem_free.                                                              *)

(* r is s with its block i marked free.                                    *)
Released(s, i, r) ==
  /\ r \in Seq(Block) /\ Len(r) = Len(s)
  /\ r[i].at = s[i].at /\ r[i].size = s[i].size /\ ~r[i].used
  /\ \A k \in 1 .. Len(s) : k # i => r[k] = s[k]

(* The arena when a block is marked free, before its neighbours are        *)
(* merged.                                                                 *)
LEMMA ReleasedFacts ==
  ASSUME NEW s, NEW e, TilesTo(s, e), NEW i \in 1 .. Len(s), s[i].used,
         NEW r, Released(s, i, r)
  PROVE  /\ TilesTo(r, e)
         /\ Walk(s)[Len(s)].usedBytes = Walk(r)[Len(r)].usedBytes + s[i].size
         /\ Walk(s)[Len(s)].usedBlocks = Walk(r)[Len(r)].usedBlocks + 1
<1>1. /\ s \in Seq(Block) /\ s # <<>> /\ Len(s) \in Nat /\ s[1].at = 0 /\ End(s[Len(s)]) = e
      /\ \A k \in 1 .. (Len(s) - 1) : End(s[k]) = s[k + 1].at
  BY DEF TilesTo
<1>2. s[i] \in Block /\ i \in Nat /\ i >= 1 /\ i <= Len(s)
  BY <1>1
<1>3. /\ r \in Seq(Block) /\ Len(r) = Len(s)
      /\ r[i].at = s[i].at /\ r[i].size = s[i].size /\ ~r[i].used
      /\ \A k \in 1 .. Len(s) : k # i => r[k] = s[k]
  BY DEF Released
<1>4. \A k \in 1 .. Len(s) : r[k].at = s[k].at /\ End(r[k]) = End(s[k])
  <2> TAKE k \in 1 .. Len(s)
  <2>1. CASE k = i
    BY <1>3, <2>1 DEF End
  <2>2. CASE k # i
    BY <1>3, <2>2
  <2> QED
    BY <2>1, <2>2
<1>5. TilesTo(r, e)
  <2>1. Len(s) # 0
    BY <1>2
  <2>2. r # <<>>
    <3>1. Len(<<>>) = 0
      OBVIOUS
    <3> QED
      BY <1>3, <2>1, <3>1
  <2>3. r[1].at = 0 /\ End(r[Len(r)]) = e
    <3>1. 1 \in 1 .. Len(s) /\ Len(s) \in 1 .. Len(s)
      BY <1>1, <2>1
    <3> QED
      BY <1>1, <1>3, <1>4, <3>1
  <2>4. \A k \in 1 .. (Len(r) - 1) : End(r[k]) = r[k + 1].at
    <3> TAKE k \in 1 .. (Len(r) - 1)
    <3>1. k \in 1 .. Len(s) /\ k + 1 \in 1 .. Len(s) /\ k \in 1 .. (Len(s) - 1)
      BY <1>1, <1>3
    <3> QED
      BY <1>1, <1>3, <1>4, <3>1
  <2> QED
    BY <1>3, <2>2, <2>3, <2>4 DEF TilesTo
<1>6. PICK m \in Nat : m = i - 1
  BY <1>2
<1>7. Walk(s)[m] = Walk(r)[m]
  <2>1. m <= Len(s) /\ m <= Len(r) /\ \A k \in 1 .. m : s[k] = r[k]
    BY <1>1, <1>2, <1>3, <1>6
  <2> QED
    BY <1>1, <1>3, <2>1, WalkAgrees
<1>8. /\ Walk(s) \in [0 .. Len(s) -> Counts] /\ Walk(r) \in [0 .. Len(s) -> Counts]
      /\ Walk(s)[i] = Count(Walk(s)[m], s[i]) /\ Walk(r)[i] = Count(Walk(r)[m], r[i])
  <2>1. i \in 1 .. Len(s) /\ i \in 1 .. Len(r) /\ i - 1 = m
    BY <1>2, <1>3, <1>6
  <2>2. /\ Walk(s) \in [0 .. Len(s) -> Counts]
        /\ \A k \in 1 .. Len(s) : Walk(s)[k] = Count(Walk(s)[k - 1], s[k])
    BY <1>1, WalkTyped
  <2>3. /\ Walk(r) \in [0 .. Len(r) -> Counts]
        /\ \A k \in 1 .. Len(r) : Walk(r)[k] = Count(Walk(r)[k - 1], r[k])
    BY <1>3, WalkTyped
  <2>4. Walk(s)[i] = Count(Walk(s)[i - 1], s[i]) /\ Walk(r)[i] = Count(Walk(r)[i - 1], r[i])
    BY <2>1, <2>2, <2>3, Zenon
  <2> QED
    BY <1>3, <2>1, <2>2, <2>3, <2>4
<1>9. PICK w \in Counts : w = Walk(s)[m]
  <2>1. m \in 0 .. Len(s)
    BY <1>2, <1>6
  <2> QED
    BY <1>8, <2>1
<1>10. Walk(s)[i].usedBytes = w.usedBytes + s[i].size /\ Walk(s)[i].usedBlocks = w.usedBlocks + 1
  <2>1. Count(w, s[i]).usedBytes = w.usedBytes + s[i].size /\ Count(w, s[i]).usedBlocks = w.usedBlocks + 1
    BY <1>2, CountFacts
  <2> QED
    BY <1>8, <1>9, <2>1
<1>11. Walk(r)[i].usedBytes = w.usedBytes /\ Walk(r)[i].usedBlocks = w.usedBlocks
  <2>1. PICK g \in Block : g = r[i]
    BY <1>2, <1>3
  <2>2. Count(w, g).usedBytes = w.usedBytes + 0 /\ Count(w, g).usedBlocks = w.usedBlocks + 0
    BY <1>3, <2>1, CountFacts
  <2>3. w.usedBytes + 0 = w.usedBytes /\ w.usedBlocks + 0 = w.usedBlocks
    BY DEF Counts
  <2> QED
    BY <1>7, <1>8, <1>9, <2>1, <2>2, <2>3
<1>12. /\ Walk(r)[Len(r)].usedBytes - Walk(s)[Len(s)].usedBytes
            = Walk(r)[i].usedBytes - Walk(s)[i].usedBytes
       /\ Walk(r)[Len(r)].usedBlocks - Walk(s)[Len(s)].usedBlocks
            = Walk(r)[i].usedBlocks - Walk(s)[i].usedBlocks
  <2>1. i \in 0 .. Len(s) /\ i \in 0 .. Len(r) /\ Len(r) - i = Len(s) - i
    BY <1>1, <1>2, <1>3
  <2>2. \A k \in 1 .. (Len(s) - i) : r[i + k] = s[i + k]
    <3> TAKE k \in 1 .. (Len(s) - i)
    <3>1. i + k \in 1 .. Len(s) /\ i + k # i
      BY <1>1, <1>2
    <3> QED
      BY <1>3, <3>1
  <2>3. r \in Seq(Block) /\ s \in Seq(Block)
    BY <1>1, <1>3
  <2> QED
    BY <2>1, <2>2, <2>3, WalkDiffers, Zenon
<1>13. PICK x \in Counts : x = Walk(r)[Len(r)]
  <2>1. Len(r) \in 0 .. Len(s)
    BY <1>1, <1>3
  <2> QED
    BY <1>8, <2>1
<1>14. PICK y \in Counts : y = Walk(s)[Len(s)]
  <2>1. Len(s) \in 0 .. Len(s)
    BY <1>1
  <2> QED
    BY <1>8, <2>1
<1>15. PICK z \in Nat : z = s[i].size
  BY <1>2 DEF Block
<1>16. /\ x.usedBytes \in Nat /\ x.usedBlocks \in Nat /\ y.usedBytes \in Nat /\ y.usedBlocks \in Nat
       /\ w.usedBytes \in Nat /\ w.usedBlocks \in Nat
  BY DEF Counts
<1>17. x.usedBytes - y.usedBytes = w.usedBytes - (w.usedBytes + z)
  BY <1>15, <1>10, <1>11, <1>12, <1>13, <1>14
<1>18. x.usedBlocks - y.usedBlocks = w.usedBlocks - (w.usedBlocks + 1)
  BY <1>10, <1>11, <1>12, <1>13, <1>14
<1>19. y.usedBytes = x.usedBytes + z
  <2>1. PICK xb \in Nat, yb \in Nat, wb \in Nat :
          xb = x.usedBytes /\ yb = y.usedBytes /\ wb = w.usedBytes
    BY <1>16
  <2>2. xb - yb = wb - (wb + z)
    BY <1>17, <2>1
  <2>3. yb = xb + z
    BY <2>2
  <2> QED
    BY <2>1, <2>3
<1>20. y.usedBlocks = x.usedBlocks + 1
  BY <1>16, <1>18
<1> QED
  BY <1>5, <1>13, <1>14, <1>19, <1>20, <1>15

(* kmem_free keeps the invariant.                                          *)
LEMMA FreeInv ==
  ASSUME KmemInv, NEW i \in DOMAIN list, Free(i)
  PROVE  KmemInv'
<1>1. /\ list \in Seq(Block) /\ TilesTo(list, ArenaSize) /\ Apart(list) /\ i \in 1 .. Len(list)
      /\ asked \in [0 .. (ArenaSize - 1) -> Nat] /\ CountersTyped /\ CountersAgree /\ LargeEnough
  BY DEF KmemInv, TilesTo
<1>2. PICK b \in Block : b = list[i]
  BY <1>1
<1>3. PICK r : r = [list EXCEPT ![i].used = FALSE]
  OBVIOUS
<1>4. /\ b.used
      /\ list' = Coalesce(r)
      /\ asked' = [asked EXCEPT ![b.at] = 0]
      /\ inUse' = IF inUse >= b.size THEN inUse - b.size ELSE 0
      /\ live' = IF live # 0 THEN live - 1 ELSE 0
      /\ freeCount' = freeCount + 1
      /\ peakInUse' = peakInUse /\ allocCount' = allocCount /\ failCount' = failCount /\ peakLive' = peakLive
  BY <1>2, <1>3 DEF Free, Decremented
<1>6. /\ r \in Seq(Block) /\ Len(r) = Len(list)
      /\ r[i].at = b.at /\ r[i].size = b.size /\ ~r[i].used
      /\ \A k \in 1 .. Len(list) : k # i => r[k] = list[k]
  <2>1. b = [at |-> b.at, size |-> b.size, used |-> b.used] /\ b.at \in Nat /\ b.size \in Nat
    BY DEF Block
  <2>2. PICK f : f = [b EXCEPT !.used = FALSE]
    OBVIOUS
  <2>3. f = [at |-> b.at, size |-> b.size, used |-> FALSE]
    BY <2>1, <2>2
  <2>4. f \in Block /\ f.at = b.at /\ f.size = b.size /\ ~f.used
    BY <2>1, <2>3 DEF Block
  <2>5. r = [list EXCEPT ![i] = f]
    BY <1>2, <1>3, <2>2
  <2>6. r \in Seq(Block) /\ Len(r) = Len(list) /\ r[i] = f
    BY <1>1, <2>4, <2>5
  <2>7. \A k \in 1 .. Len(list) : k # i => r[k] = list[k]
    BY <1>1, <2>5
  <2> QED
    BY <2>4, <2>6, <2>7
<1>7. /\ TilesTo(r, ArenaSize)
      /\ Walk(list)[Len(list)].usedBytes = Walk(r)[Len(r)].usedBytes + list[i].size
      /\ Walk(list)[Len(list)].usedBlocks = Walk(r)[Len(r)].usedBlocks + 1
  <2>1. Released(list, i, r) /\ list[i].used
    BY <1>2, <1>4, <1>6 DEF Released
  <2> QED
    BY <1>1, <2>1, ReleasedFacts
<1>8. /\ TilesTo(list', ArenaSize) /\ Apart(list')
      /\ Walk(list')[Len(list')].usedBytes = Walk(r)[Len(r)].usedBytes
      /\ Walk(list')[Len(list')].usedBlocks = Walk(r)[Len(r)].usedBlocks
      /\ \A k \in 1 .. Len(list') : list'[k].used => \E j \in 1 .. Len(r) : r[j] = list'[k]
  BY <1>4, <1>7, CoalesceFacts
<1>9. b.at \in 0 .. (ArenaSize - 1)
  <2>1. End(list[i]) <= ArenaSize
    BY <1>1, TilesInOrder
  <2>2. b.at \in Nat /\ End(b) \in Nat /\ b.at < End(b)
    BY BlockEnds
  <2> QED
    BY <1>2, <2>1, <2>2
<1>10. asked' \in [0 .. (ArenaSize - 1) -> Nat]
  BY <1>1, <1>4
<1>11. CountersTyped' /\ CountersAgree'
  <2>1. /\ inUse \in Nat /\ peakInUse \in Nat /\ live \in Nat /\ peakLive \in Nat
        /\ allocCount \in Nat /\ freeCount \in Nat /\ failCount \in Nat
    BY <1>1 DEF CountersTyped
  <2>2. /\ inUse = Stats.usedBytes /\ live = Stats.usedBlocks /\ allocCount = live + freeCount
        /\ inUse <= peakInUse /\ peakInUse <= Capacity /\ live <= peakLive
    BY <1>1 DEF CountersAgree
  <2>3. PICK x \in Counts : x = Walk(r)[Len(r)]
    BY <1>7, WalkSums
  <2>4. x.usedBytes \in Nat /\ x.usedBlocks \in Nat /\ b.size \in Nat
    BY DEF Counts, Block
  <2>5. inUse = x.usedBytes + b.size /\ live = x.usedBlocks + 1
    BY <1>2, <1>7, <2>2, <2>3 DEF Stats
  <2>6. Stats'.usedBytes = x.usedBytes /\ Stats'.usedBlocks = x.usedBlocks
    BY <1>8, <2>3 DEF Stats
  <2>7. inUse' = x.usedBytes
    BY <1>4, <2>1, <2>4, <2>5
  <2>8. live' = x.usedBlocks
    BY <1>4, <2>1, <2>4, <2>5
  <2>9. freeCount' = freeCount + 1 /\ peakInUse' = peakInUse /\ allocCount' = allocCount
        /\ failCount' = failCount /\ peakLive' = peakLive /\ Capacity' = Capacity
    BY <1>4 DEF Capacity
  <2>10. inUse' <= peakInUse' /\ peakInUse' <= Capacity'
    <3>1. Capacity \in Nat
      BY DEF Capacity
    <3> QED
      BY <2>1, <2>2, <2>4, <2>5, <2>7, <2>9, <3>1
  <2>11. live' <= peakLive' /\ allocCount' = live' + freeCount'
    <3>1. PICK n \in Nat : n = x.usedBlocks
      BY <2>4
    <3>2. live = n + 1 /\ live' = n /\ allocCount = live + freeCount /\ live <= peakLive
      BY <2>2, <2>5, <2>8, <3>1
    <3> QED
      BY <2>1, <2>9, <3>2
  <2>12. CountersTyped'
    BY <2>1, <2>4, <2>7, <2>8, <2>9 DEF CountersTyped
  <2> QED
    BY <2>6, <2>7, <2>8, <2>10, <2>11, <2>12 DEF CountersAgree
<1>12. LargeEnough'
  <2>1. list' \in Seq(Block) /\ DOMAIN list' = 1 .. Len(list')
    BY <1>8 DEF TilesTo
  <2>2. SUFFICES ASSUME NEW k \in 1 .. Len(list'), list'[k].used,
                        asked'[list'[k].at] + Alignment <= Word
                 PROVE  list'[k].size >= asked'[list'[k].at]
    BY <2>1 DEF LargeEnough
  <2>3. PICK j \in 1 .. Len(r) : r[j] = list'[k]
    BY <1>8, <2>2
  <2>4. j \in 1 .. Len(list)
    BY <1>6, <2>3
  <2>5. j # i
    BY <1>6, <2>2, <2>3
  <2>6. list[j] = list'[k]
    BY <1>6, <2>3, <2>4, <2>5
  <2>7. PICK c \in Block : c = list[j]
    BY <1>1, <2>4
  <2>8. c.at # b.at
    <3>1. /\ b.at \in Nat /\ End(b) \in Nat /\ b.at < End(b)
          /\ c.at \in Nat /\ End(c) \in Nat /\ c.at < End(c)
      BY BlockEnds
    <3>2. \A m, n \in 1 .. Len(list) : m < n => End(list[m]) <= list[n].at
      BY <1>1, TilesInOrder
    <3>3. i < j \/ j < i
      BY <1>1, <2>4, <2>5
    <3>4. End(b) <= c.at \/ End(c) <= b.at
      BY <1>1, <1>2, <2>4, <2>7, <3>2, <3>3
    <3> QED
      BY <3>1, <3>4
  <2>9. asked'[c.at] = asked[c.at]
    <3>1. c.at \in 0 .. (ArenaSize - 1)
      <4>1. End(c) <= ArenaSize
        BY <1>1, <2>4, <2>7, TilesInOrder
      <4>2. c.at \in Nat /\ End(c) \in Nat /\ c.at < End(c)
        BY BlockEnds
      <4> QED
        BY <4>1, <4>2
    <3> QED
      BY <1>1, <1>4, <2>8, <3>1
  <2>10. c.used /\ asked[c.at] + Alignment <= Word
    BY <2>2, <2>6, <2>7, <2>9
  <2>11. c.size >= asked[c.at]
    <3>1. DOMAIN list = 1 .. Len(list)
      BY <1>1
    <3>2. \A m \in DOMAIN list :
            list[m].used /\ asked[list[m].at] + Alignment <= Word => list[m].size >= asked[list[m].at]
      BY <1>1 DEF LargeEnough
    <3> QED
      BY <2>4, <2>7, <2>10, <3>1, <3>2
  <2> QED
    BY <2>6, <2>7, <2>9, <2>11
<1> QED
  BY <1>8, <1>10, <1>11, <1>12 DEF KmemInv

-----------------------------------------------------------------------------
(* The theorems.                                                           *)

(* kmem_init establishes the invariant.                                    *)
LEMMA KmemInvInit == Init => KmemInv
<1> SUFFICES ASSUME Init PROVE KmemInv
  OBVIOUS
<1>1. Capacity \in Nat /\ Header + Capacity = ArenaSize
  BY DEF Capacity
<1>2. PICK b : b = [at |-> 0, size |-> Capacity, used |-> FALSE]
  OBVIOUS
<1>3. b \in Block /\ b.at = 0 /\ b.size = Capacity /\ ~b.used
  BY <1>1, <1>2 DEF Block
<1>4. list = <<b>> /\ <<b>> \in Seq(Block) /\ Len(<<b>>) = 1 /\ <<b>>[1] = b /\ <<b>> # <<>>
  BY <1>2, <1>3 DEF Init
<1>5. list \in Seq(Block) /\ Len(list) = 1 /\ list[1] = b /\ list # <<>>
  BY <1>4
<1>6. TilesTo(list, ArenaSize)
  <2>1. End(b) = ArenaSize
    BY <1>1, <1>3 DEF End
  <2> QED
    BY <1>3, <1>5, <2>1 DEF TilesTo
<1>7. Apart(list)
  BY <1>5 DEF Apart
<1>8. asked \in [0 .. (ArenaSize - 1) -> Nat]
  BY DEF Init
<1>9. Stats.usedBytes = 0 /\ Stats.usedBlocks = 0
  <2>1. 1 \in 1 .. Len(list)
    BY <1>5
  <2>2. Walk(list)[1] = Count(Walk(list)[1 - 1], list[1]) /\ Walk(list)[0] = NoBlocks
    BY <1>5, <2>1, WalkTyped
  <2>3. Stats = Count(NoBlocks, b)
    BY <1>5, <2>2 DEF Stats
  <2>4. NoBlocks \in Counts /\ NoBlocks.usedBytes = 0 /\ NoBlocks.usedBlocks = 0
    BY DEF NoBlocks, Counts
  <2>5. Count(NoBlocks, b).usedBytes = 0 + 0 /\ Count(NoBlocks, b).usedBlocks = 0 + 0
    BY <1>3, <2>4, CountFacts
  <2> QED
    BY <2>3, <2>5
<1>10. CountersTyped /\ CountersAgree
  BY <1>1, <1>9 DEF Init, CountersTyped, CountersAgree
<1>11. LargeEnough
  <2>1. \A i \in DOMAIN list : ~list[i].used
    BY <1>3, <1>5
  <2> QED
    BY <2>1 DEF LargeEnough
<1> QED
  BY <1>6, <1>7, <1>8, <1>10, <1>11 DEF KmemInv

(* A call that fails only counts itself.                                   *)
LEMMA AllocFailsInv ==
  ASSUME KmemInv, NEW size \in Sizes, AllocFails(size)
  PROVE  KmemInv'
<1>1. /\ list' = list /\ asked' = asked /\ inUse' = inUse /\ peakInUse' = peakInUse
      /\ allocCount' = allocCount /\ freeCount' = freeCount /\ live' = live /\ peakLive' = peakLive
      /\ failCount' = failCount + 1
  BY DEF AllocFails
<1>2. CountersTyped'
  BY <1>1 DEF KmemInv, CountersTyped
<1>3. CountersAgree'
  BY <1>1 DEF KmemInv, CountersAgree, Stats, Capacity
<1>4. LargeEnough'
  BY <1>1 DEF KmemInv, LargeEnough
<1> QED
  BY <1>1, <1>2, <1>3, <1>4 DEF KmemInv

(* Every call keeps the invariant.                                         *)
LEMMA KmemInvNext == KmemInv /\ [Next]_vars => KmemInv'
<1> SUFFICES ASSUME KmemInv, [Next]_vars PROVE KmemInv'
  OBVIOUS
<1>1. ASSUME NEW size \in Sizes, Alloc(size) PROVE KmemInv'
  BY <1>1, AllocInv
<1>2. ASSUME NEW size \in Sizes, AllocFails(size) PROVE KmemInv'
  BY <1>2, AllocFailsInv
<1>3. ASSUME NEW i \in DOMAIN list, Free(i) PROVE KmemInv'
  BY <1>3, FreeInv
<1>4. CASE UNCHANGED vars
  <2>1. /\ list' = list /\ asked' = asked /\ inUse' = inUse /\ peakInUse' = peakInUse
        /\ allocCount' = allocCount /\ freeCount' = freeCount /\ live' = live /\ peakLive' = peakLive
        /\ failCount' = failCount
    BY <1>4 DEF vars, counters
  <2>2. CountersTyped' /\ CountersAgree' /\ LargeEnough'
    BY <2>1 DEF KmemInv, CountersTyped, CountersAgree, LargeEnough, Stats, Capacity
  <2> QED
    BY <2>1, <2>2 DEF KmemInv
<1> QED
  BY <1>1, <1>2, <1>3, <1>4 DEF Next

(* What the invariant says of the arena, its neighbours and its counts.    *)
LEMMA KmemInvMeans ==
  ASSUME KmemInv
  PROVE  Tiled /\ Coalesced /\ StatsAddUp /\ LargeEnough
<1>1. TilesTo(list, ArenaSize) /\ Apart(list) /\ CountersTyped /\ CountersAgree /\ LargeEnough
  BY DEF KmemInv
<1>2. /\ list \in Seq(Block) /\ Len(list) \in Nat /\ list[1].at = 0 /\ End(list[Len(list)]) = ArenaSize
      /\ \A i \in 1 .. (Len(list) - 1) : End(list[i]) = list[i + 1].at
  BY <1>1 DEF TilesTo
<1>3. Tiled
  <2>1. ASSUME NEW i \in DOMAIN list
        PROVE  list[i].at + Header + list[i].size = IF i = Len(list) THEN ArenaSize ELSE list[i + 1].at
    <3>1. i \in 1 .. Len(list)
      BY <1>2
    <3>2. CASE i = Len(list)
      BY <1>2, <3>2 DEF End
    <3>3. CASE i # Len(list)
      <4>1. i \in 1 .. (Len(list) - 1)
        BY <1>2, <3>1, <3>3
      <4> QED
        BY <1>2, <3>3, <4>1 DEF End
    <3> QED
      BY <3>2, <3>3
  <2> QED
    BY <1>2, <2>1 DEF Tiled
<1>4. Coalesced
  BY <1>1 DEF Coalesced, Apart
<1>5. PICK w \in Counts : w = Walk(list)[Len(list)]
  BY <1>1, WalkSums
<1>6. /\ w.freeBytes + w.usedBytes + (w.freeBlocks + w.usedBlocks) * Header = ArenaSize
      /\ w.largestFree <= w.freeBytes
  BY <1>1, <1>5, WalkSums
<1>7. /\ inUse = w.usedBytes /\ live = w.usedBlocks /\ allocCount = live + freeCount
      /\ inUse <= peakInUse /\ peakInUse <= Capacity /\ live <= peakLive
  BY <1>1, <1>5 DEF CountersAgree, Stats
<1>8. live = allocCount - freeCount
  BY <1>1, <1>7 DEF CountersTyped
<1>9. StatsAddUp
  BY <1>5, <1>6, <1>7, <1>8 DEF StatsAddUp, Stats
<1> QED
  BY <1>1, <1>3, <1>4, <1>9

(* The invariant holds in every reachable state.                           *)
LEMMA KmemInvAlways == Spec => []KmemInv
BY KmemInvInit, KmemInvNext, PTL DEF Spec

(* Every split and every merge leaves the blocks side by side from the     *)
(* start of the arena to its end (kmem_split_block, kmem_coalesce).        *)
THEOREM ArenaTiled == Spec => []Tiled
BY KmemInvAlways, KmemInvMeans, PTL

(* In whatever order blocks are released, no two free ones stay next to    *)
(* each other (kmem_coalesce).                                             *)
THEOREM FreeNeighboursMerged == Spec => []Coalesced
BY KmemInvAlways, KmemInvMeans, PTL

(* The counters kept call by call agree with the walk of the list, and     *)
(* headers, free bytes and bytes in use add up to the arena                *)
(* (kmem_stats_snapshot).                                                  *)
THEOREM StatisticsAddUp == Spec => []StatsAddUp
BY KmemInvAlways, KmemInvMeans, PTL

(* A caller holds at least what it asked for, whatever was split, merged   *)
(* or released since (kmem_alloc).                                         *)
THEOREM RequestsGranted == Spec => []LargeEnough
BY KmemInvAlways, KmemInvMeans, PTL
=============================================================================
