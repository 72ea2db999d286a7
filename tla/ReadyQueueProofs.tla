-------------------------- MODULE ReadyQueueProofs --------------------------
(***************************************************************************)
(* Proofs about ReadyQueue, for any number of slots and any vruntimes.     *)
(*                                                                         *)
(* The inductive invariant is local: it speaks of a node and its children, *)
(* never of whole subtrees.  The search order is carried by an interval of *)
(* keys for each node, in which the intervals of its children are nested,  *)
(* and the balance by a number for each node, its black height.  Neither   *)
(* is in the program; a rotation changes either at two nodes only.  That   *)
(* walks along the links end follows from the widths of the intervals.     *)
(***************************************************************************)
EXTENDS ReadyQueue, NatLemmas

Link == Slot \cup {Nil}
Color == {"red", "black"}
Tree == [up : [Slot -> Link], down : [Side -> [Slot -> Link]], color : [Slot -> Color], root : Link]

(* Nil is no slot, and the sides are each other's other side.              *)
LEMMA Sides ==
  /\ Nil \notin Slot /\ Slot \subseteq Nat /\ Nil \in Nat
  /\ "left" \in Side /\ "right" \in Side
  /\ Other("left") = "right" /\ Other("right") = "left"
  /\ \A d \in Side : /\ Other(d) \in Side /\ Other(d) # d /\ Other(Other(d)) = d
                     /\ \A f \in Side : f = d \/ f = Other(d)
BY ReadyQueueAssumption DEF Slot, Nil, Side, Other

-----------------------------------------------------------------------------
(* Walks.                                                                  *)

\* A step from a member of S leads to a member of S with a smaller measure
\* (or, with the measure negated, a larger one), or to Nil.
Falls(step, S, m) ==
  \A n \in S : step[n] # Nil => step[n] \in S /\ m[step[n]] < m[n]

IsWalk(node, step, s) ==
  /\ node \in [0 .. MaxProcesses -> Link]
  /\ node[0] = s
  /\ \A k \in 1 .. MaxProcesses :
       node[k] = IF node[k - 1] = Nil THEN Nil ELSE step[node[k - 1]]

(* The recursive function in Walk is such a function.                      *)
LEMMA WalkIs ==
  ASSUME NEW step \in [Slot -> Link], NEW s \in Link
  PROVE  \E node : /\ IsWalk(node, step, s)
                   /\ Walk(step, s) = {node[n] : n \in 0 .. MaxProcesses} \ {Nil}
<1> DEFINE N == MaxProcesses
           F == [x \in (1 .. N) \X Link |-> IF x[2] = Nil THEN Nil ELSE step[x[2]]]
           at == CHOOSE g : g = [k \in 0 .. N |->
                   IF k = 0 THEN s ELSE IF g[k - 1] = Nil THEN Nil ELSE step[g[k - 1]]]
<1>1. N \in Nat /\ Nil \in Link
  BY ReadyQueueAssumption DEF Link
<1>2. F \in [(1 .. N) \X Link -> Link]
  BY DEF Link
<1>3. \E g : g = [k \in 0 .. N |->
                   IF k = 0 THEN s ELSE IF g[k - 1] = Nil THEN Nil ELSE step[g[k - 1]]]
  <2>1. PICK g : IsIteration(g, Link, s, N, F)
    <3> HIDE DEF F, at
    <3> QED
      BY <1>1, <1>2, IterateExists
  <2>2. g \in [0 .. N -> Link] /\ g[0] = s /\ \A k \in 1 .. N : g[k] = F[<<k, g[k - 1]>>]
    <3> HIDE DEF F, at
    <3> QED
      BY <2>1 DEF IsIteration
  <2>3. \A k \in 1 .. N : g[k] = IF g[k - 1] = Nil THEN Nil ELSE step[g[k - 1]]
    <3> TAKE k \in 1 .. N
    <3>1. k - 1 \in 0 .. N
      BY <1>1
    <3>2. g[k - 1] \in Link
      BY <2>2, <3>1
    <3>3. F[<<k, g[k - 1]>>] = IF g[k - 1] = Nil THEN Nil ELSE step[g[k - 1]]
      BY <3>2
    <3> QED
      BY <2>2, <3>3
  <2>4. \A k \in 0 .. N : k = 0 \/ k \in 1 .. N
    BY <1>1
  <2>5. g = [k \in 0 .. N |-> g[k]]
    BY <2>2
  <2>6. g = [k \in 0 .. N |->
              IF k = 0 THEN s ELSE IF g[k - 1] = Nil THEN Nil ELSE step[g[k - 1]]]
    BY <2>2, <2>3, <2>4, <2>5
  <2> QED
    BY <2>6
<1>4. at = [k \in 0 .. N |->
              IF k = 0 THEN s ELSE IF at[k - 1] = Nil THEN Nil ELSE step[at[k - 1]]]
  BY <1>3
<1>5. Walk(step, s) = {at[n] : n \in 0 .. N} \ {Nil}
  BY DEF Walk
<1> HIDE DEF at
<1>6. at = [k \in 0 .. N |-> at[k]] /\ at[0] = s
  BY <1>1, <1>4
<1>7. \A k \in 1 .. N : at[k] = IF at[k - 1] = Nil THEN Nil ELSE step[at[k - 1]]
  <2> TAKE k \in 1 .. N
  <2>1. k \in 0 .. N /\ k # 0
    BY <1>1
  <2>2. at[k] = [j \in 0 .. N |->
           IF j = 0 THEN s ELSE IF at[j - 1] = Nil THEN Nil ELSE step[at[j - 1]]][k]
    BY <1>4
  <2> QED
    BY <2>1, <2>2
<1>8. at \in [0 .. N -> Link]
  <2>1. \A k \in 1 .. N : at[k - 1] \in Link => at[k] \in Link
    BY <1>1, <1>7 DEF Link
  <2>2. at[0] \in Link
    BY <1>6
  <2> QED
    BY <1>1, <1>6, <2>1, <2>2, IterateTyped
<1>9. IsWalk(at, step, s)
  BY <1>6, <1>7, <1>8 DEF IsWalk
<1> QED
  BY <1>5, <1>9

(* Along a walk the measure falls, as long as it does not end.             *)
LEMMA WalkFalls ==
  ASSUME NEW step \in [Slot -> Link], NEW S \in SUBSET Slot, NEW m \in [S -> Int],
         Falls(step, S, m), NEW s \in S, NEW node, IsWalk(node, step, s)
  PROVE  \A j \in 0 .. MaxProcesses : node[j] # Nil =>
           node[j] \in S /\ \A i \in 0 .. (j - 1) : node[i] \in S /\ m[node[j]] < m[node[i]]
<1> DEFINE N == MaxProcesses
           P(j) == node[j] # Nil =>
             node[j] \in S /\ \A i \in 0 .. (j - 1) : node[i] \in S /\ m[node[j]] < m[node[i]]
           D == {j \in Nat : j <= N => P(j)}
<1>1. N \in Nat
  BY ReadyQueueAssumption
<1>2. 0 \in D
  BY DEF IsWalk
<1>3. ASSUME NEW j \in Nat, j \in D PROVE j + 1 \in D
  <2> SUFFICES ASSUME j + 1 <= N, node[j + 1] # Nil PROVE P(j + 1)
    OBVIOUS
  <2>1. j + 1 \in 1 .. N /\ (j + 1) - 1 = j /\ P(j)
    BY <1>1, <1>3
  <2>2. node[j + 1] = IF node[j] = Nil THEN Nil ELSE step[node[j]]
    BY <2>1 DEF IsWalk
  <2>3. node[j] # Nil /\ step[node[j]] = node[j + 1] /\ node[j] \in S
    BY <2>1, <2>2
  <2>4. node[j + 1] \in S /\ m[node[j + 1]] < m[node[j]]
    BY <2>3 DEF Falls
  <2>5. \A i \in 0 .. ((j + 1) - 1) : i = j \/ i \in 0 .. (j - 1)
    OBVIOUS
  <2>6. ASSUME NEW i \in 0 .. ((j + 1) - 1) PROVE node[i] \in S /\ m[node[j + 1]] < m[node[i]]
    <3>1. CASE i = j
      BY <2>3, <2>4, <3>1
    <3>2. CASE i \in 0 .. (j - 1)
      <4>1. node[i] \in S /\ m[node[j]] < m[node[i]] /\ i <= N
        BY <1>1, <2>1, <2>3, <3>2
      <4> QED
        BY <2>3, <2>4, <4>1
    <3> QED
      BY <2>5, <3>1, <3>2
  <2> QED
    BY <2>4, <2>6
<1>4. Nat \subseteq D
  <2> HIDE DEF D
  <2> QED
    BY <1>2, <1>3, NatSetInduction
<1> QED
  BY <1>1, <1>4

(* A walk along falling measures is the least set that holds its start and *)
(* the successor of each of its members, and it ends.                      *)
LEMMA WalkLeast ==
  ASSUME NEW step \in [Slot -> Link], NEW S \in SUBSET Slot, NEW m \in [S -> Int],
         Falls(step, S, m), NEW s \in S
  PROVE  /\ s \in Walk(step, s) /\ Walk(step, s) \subseteq S
         /\ \A n \in Walk(step, s) : step[n] # Nil => step[n] \in Walk(step, s)
         /\ \E n \in Walk(step, s) : step[n] = Nil
         /\ \A A : (/\ s \in A
                   /\ \A n \in A \cap Walk(step, s) : step[n] # Nil => step[n] \in A)
                  => Walk(step, s) \subseteq A
<1> DEFINE N == MaxProcesses
<1>1. N \in Nat /\ s \in Link /\ Nil \notin S
  BY ReadyQueueAssumption, Sides DEF Link
<1>2. PICK node : IsWalk(node, step, s) /\ Walk(step, s) = {node[n] : n \in 0 .. N} \ {Nil}
  BY <1>1, WalkIs
<1>3. \A j \in 0 .. N : node[j] # Nil =>
           node[j] \in S /\ \A i \in 0 .. (j - 1) : node[i] \in S /\ m[node[j]] < m[node[i]]
  BY <1>2, WalkFalls
<1>4. node \in [0 .. N -> Link] /\ node[0] = s
  BY <1>2 DEF IsWalk
<1>5. \A k \in 1 .. N : node[k] = IF node[k - 1] = Nil THEN Nil ELSE step[node[k - 1]]
  BY <1>2 DEF IsWalk
<1>6. node[N] = Nil
  <2> SUFFICES ASSUME node[N] # Nil PROVE FALSE
    OBVIOUS
  <2>1. N \in 0 .. N /\ \A k \in 0 .. N : k = N \/ k \in 0 .. (N - 1)
    BY <1>1
  <2>2. \A k \in 0 .. N : node[k] \in Slot
    BY <1>3, <2>1
  <2> DEFINE T == 0 .. N
  <2>3. node \in [T -> Slot]
    BY <1>4, <2>2
  <2>4. IsFiniteSet(T) /\ Cardinality(T) = N + 1
    BY <1>1, FS_Interval
  <2>5. IsFiniteSet(Slot) /\ Cardinality(Slot) = N
    BY <1>1, FS_Interval, ReadyQueueAssumption DEF Slot
  <2>6. Cardinality(Slot) < Cardinality(T)
    BY <1>1, <2>4, <2>5
  <2>7. PICK x, y \in T : x # y /\ node[x] = node[y]
    <3> HIDE DEF T
    <3> QED
      BY <2>3, <2>4, <2>5, <2>6, FS_PigeonHole
  <2>8. x \in 0 .. (y - 1) \/ y \in 0 .. (x - 1)
    BY <2>7
  <2>9. \A k \in 0 .. N : node[k] # Nil /\ m[node[k]] \in Int
    <3>1. \A k \in 0 .. N : node[k] # Nil
      BY <2>2, Sides
    <3>2. \A k \in 0 .. N : node[k] \in S
      BY <1>3, <3>1
    <3> QED
      BY <3>1, <3>2
  <2>10. m[node[x]] < m[node[y]] \/ m[node[y]] < m[node[x]]
    BY <1>3, <2>8, <2>9
  <2> QED
    BY <2>7, <2>9, <2>10
<1>7. s \in Walk(step, s)
  BY <1>1, <1>2, <1>4
<1>8. Walk(step, s) \subseteq S
  BY <1>2, <1>3
<1>9. ASSUME NEW n \in Walk(step, s), step[n] # Nil PROVE step[n] \in Walk(step, s)
  <2>1. PICK k \in 0 .. N : n = node[k] /\ n # Nil
    BY <1>2
  <2>2. k + 1 \in 1 .. N /\ k + 1 \in 0 .. N /\ (k + 1) - 1 = k
    BY <1>1, <1>6, <2>1
  <2>3. node[k + 1] = step[n]
    BY <1>5, <2>1, <2>2
  <2> QED
    BY <1>2, <1>9, <2>2, <2>3
<1>10. \E n \in Walk(step, s) : step[n] = Nil
  <2> DEFINE Z == {k \in 0 .. N : node[k] = Nil}
  <2>1. Z \in SUBSET Nat /\ Z # {}
    <3>1. N \in Z
      BY <1>1, <1>6
    <3> QED
      BY <3>1
  <2>2. PICK k \in Z : \A j \in Z : k <= j
    <3> HIDE DEF Z
    <3> QED
      BY <2>1, NatMin
  <2>3. k # 0
    BY <1>1, <1>4, <2>2
  <2>4. k \in 1 .. N /\ k - 1 \in 0 .. N /\ ~(k <= k - 1)
    BY <1>1, <2>2, <2>3
  <2>5. node[k - 1] # Nil
    BY <2>2, <2>4
  <2>6. step[node[k - 1]] = Nil
    BY <1>5, <2>2, <2>4, <2>5
  <2> QED
    BY <1>2, <2>4, <2>5, <2>6
<1>11. ASSUME NEW A, s \in A, \A n \in A \cap Walk(step, s) : step[n] # Nil => step[n] \in A
       PROVE  Walk(step, s) \subseteq A
  <2> DEFINE D == {k \in Nat : k <= N => (node[k] # Nil => node[k] \in A)}
  <2>1. 0 \in D
    BY <1>4, <1>11
  <2>2. ASSUME NEW k \in Nat, k \in D PROVE k + 1 \in D
    <3> SUFFICES ASSUME k + 1 <= N, node[k + 1] # Nil PROVE node[k + 1] \in A
      OBVIOUS
    <3>1. k + 1 \in 1 .. N /\ (k + 1) - 1 = k /\ k \in 0 .. N
      BY <1>1
    <3>2. node[k] # Nil /\ node[k + 1] = step[node[k]]
      BY <1>5, <3>1
    <3>3. node[k] \in A /\ node[k] \in Walk(step, s)
      BY <1>2, <2>2, <3>1, <3>2
    <3> QED
      BY <1>11, <3>2, <3>3
  <2>3. Nat \subseteq D
    <3> HIDE DEF D
    <3> QED
      BY <2>1, <2>2, NatSetInduction
  <2>4. \A k \in 0 .. N : node[k] # Nil => node[k] \in A
    BY <1>1, <2>3
  <2> QED
    BY <1>2, <2>4
<1>12. \A n \in Walk(step, s) : step[n] # Nil => step[n] \in Walk(step, s)
  BY <1>9
<1>13. \A A : (/\ s \in A
               /\ \A n \in A \cap Walk(step, s) : step[n] # Nil => step[n] \in A)
              => Walk(step, s) \subseteq A
  BY <1>11
<1> QED
  BY <1>7, <1>8, <1>10, <1>12, <1>13

-----------------------------------------------------------------------------
(* The parts of the invariant that are about the links and the order.      *)

\* The order as numbers: Keys[a] < Keys[b] when a comes before b.
Keys == [s \in Slot |-> vruntime[s] * MaxProcesses + s]

(* They are the order that the tree is searched by.                        *)
LEMMA BeforeIs ==
  ASSUME vruntime \in [Slot -> Nat]
  PROVE  /\ Keys \in [Slot -> Int]
         /\ \A a, b \in Slot : Before(a, b) <=> Keys[a] < Keys[b]
         /\ \A a, b \in Slot : a # b => Keys[a] # Keys[b]
<1> DEFINE N == MaxProcesses
<1>1. N \in Nat \ {0} /\ \A s \in Slot : s \in Nat /\ s < N /\ vruntime[s] \in Nat
  BY ReadyQueueAssumption DEF Slot
<1> HIDE DEF N
<1>2. \A s \in Slot : Keys[s] = vruntime[s] * N + s
  BY DEF Keys, N
<1>3. \A v \in Nat : v * N \in Nat
  BY <1>1
<1>4. \A v, w \in Nat : v < w => v * N + N <= w * N
  BY <1>1, MultiplesApart
<1>5. Keys \in [Slot -> Int]
  <2>1. \A s \in Slot : vruntime[s] * N + s \in Int
    BY <1>1, <1>3
  <2> QED
    BY <2>1 DEF Keys, N
<1>6. ASSUME NEW a \in Slot, NEW b \in Slot
      PROVE  (Before(a, b) <=> Keys[a] < Keys[b]) /\ (a # b => Keys[a] # Keys[b])
  <2> DEFINE x == vruntime[a] * N
             y == vruntime[b] * N
  <2>1. /\ x \in Nat /\ y \in Nat /\ a \in Nat /\ b \in Nat /\ a < N /\ b < N /\ N \in Nat
        /\ vruntime[a] \in Nat /\ vruntime[b] \in Nat
    BY <1>1, <1>3
  <2>2. vruntime[a] < vruntime[b] => x + N <= y
    BY <1>1, <1>4
  <2>3. vruntime[b] < vruntime[a] => y + N <= x
    BY <1>1, <1>4
  <2>4. vruntime[a] = vruntime[b] => x = y
    OBVIOUS
  <2>5. Keys[a] = x + a /\ Keys[b] = y + b
    BY <1>2
  <2> HIDE DEF x, y
  <2> QED
    BY <2>1, <2>2, <2>3, <2>4, <2>5 DEF Before
<1> QED
  BY <1>5, <1>6

\* The links of the nodes S agree, and the others have none.
RootLinked(t, S) == t.root \in S \cup {Nil} /\ (S = {} <=> t.root = Nil)
UpLinked(t, S) ==
  \A s \in S : IF s = t.root THEN t.up[s] = Nil
              ELSE t.up[s] \in S /\ \E d \in Side : t.down[d][t.up[s]] = s
DownLinked(t, S) ==
  \A p \in S, d \in Side : t.down[d][p] # Nil =>
    /\ t.down[d][p] \in S /\ t.up[t.down[d][p]] = p
    /\ t.down[Other(d)][p] # t.down[d][p]
Unlinks(t, S) == \A s \in Slot \ S : t.up[s] = Nil /\ \A d \in Side : t.down[d][s] = Nil
Links(t, S) == RootLinked(t, S) /\ UpLinked(t, S) /\ DownLinked(t, S) /\ Unlinks(t, S)

\* Each node has an interval of keys around its own, and what is below it on
\* a side has its interval on that side of its key.
Ordered(t, S, key, lo, hi) ==
  /\ lo \in [Slot -> Int] /\ hi \in [Slot -> Int]
  /\ \A p \in S : lo[p] < key[p] /\ key[p] < hi[p]
  /\ \A p \in S : t.down["left"][p] # Nil =>
       lo[p] <= lo[t.down["left"][p]] /\ hi[t.down["left"][p]] <= key[p]
  /\ \A p \in S : t.down["right"][p] # Nil =>
       key[p] <= lo[t.down["right"][p]] /\ hi[t.down["right"][p]] <= hi[p]

\* A tree whose links and order are right
Sorted(t, S, key) == t \in Tree /\ Links(t, S) /\ \E lo, hi : Ordered(t, S, key, lo, hi)

(* The interval of a child is narrower than that of its parent.            *)
LEMMA Narrower ==
  ASSUME NEW t \in Tree, NEW S \in SUBSET Slot, Links(t, S), NEW key \in [Slot -> Int],
         NEW lo, NEW hi, Ordered(t, S, key, lo, hi),
         NEW p \in S, NEW d \in Side, t.down[d][p] # Nil
  PROVE  /\ t.down[d][p] \in S /\ t.up[t.down[d][p]] = p
         /\ hi[t.down[d][p]] - lo[t.down[d][p]] < hi[p] - lo[p]
         /\ t.down[d][p] # p
         /\ t.down[Other(d)][p] # t.down[d][p]
<1> DEFINE c == t.down[d][p]
<1>1. c \in S /\ t.up[c] = p /\ t.down[Other(d)][p] # c
  BY DEF Links, DownLinked
<1>2. /\ lo[p] \in Int /\ hi[p] \in Int /\ key[p] \in Int /\ key[c] \in Int
      /\ lo[c] \in Int /\ hi[c] \in Int
  BY <1>1 DEF Ordered
<1>3. lo[p] < key[p] /\ key[p] < hi[p] /\ lo[c] < key[c] /\ key[c] < hi[c]
  BY <1>1 DEF Ordered
<1>4. (lo[p] <= lo[c] /\ hi[c] <= key[p]) \/ (key[p] <= lo[c] /\ hi[c] <= hi[p])
  BY DEF Ordered, Side
<1> HIDE DEF c
<1>5. hi[c] - lo[c] < hi[p] - lo[p] /\ c # p
  BY <1>2, <1>3, <1>4
<1> QED
  BY <1>1, <1>5 DEF c

-----------------------------------------------------------------------------
(* Rotations.                                                              *)

\* t after a rotation of s down to side d
Rotated(t, s, d, u) ==
  LET e == Other(d)
      c == t.down[e][s]
      inner == t.down[d][c]
      p == t.up[s]
  IN  /\ u \in Tree /\ u.color = t.color
      /\ u.root = IF p = Nil THEN c ELSE t.root
      /\ u.up = [n \in Slot |-> IF n = c THEN p ELSE IF n = s THEN c
                                ELSE IF n = inner THEN s ELSE t.up[n]]
      /\ \A f \in Side, n \in Slot :
           u.down[f][n] = IF n = s /\ f = e THEN inner
                          ELSE IF n = c /\ f = d THEN s
                          ELSE IF n = p /\ t.down[f][n] = s THEN c ELSE t.down[f][n]

(* In the place of a child another one is put, the others stay.            *)
LEMMA RelinkIs ==
  ASSUME NEW t \in Tree, NEW p \in Link, NEW d \in Side, NEW old, NEW new \in Link,
         p # Nil => \E f \in Side : t.down[f][p] = old /\ t.down[Other(f)][p] # old
  PROVE  LET u == Relink(t, p, d, old, new)
         IN  /\ u \in Tree /\ u.color = t.color /\ u.up = t.up
             /\ u.root = IF p = Nil THEN new ELSE t.root
             /\ \A f \in Side, n \in Slot :
                  u.down[f][n] = IF n = p /\ t.down[f][n] = old THEN new ELSE t.down[f][n]
<1> DEFINE u == Relink(t, p, d, old, new)
<1>0. Nil \notin Slot /\ Other(d) \in Side /\ Other(d) # d /\ \A f \in Side : f = d \/ f = Other(d)
  BY Sides
<1>1. CASE p = Nil
  <2>1. u = [t EXCEPT !.root = new]
    BY <1>1 DEF Relink
  <2> QED
    BY <1>0, <1>1, <2>1 DEF Tree
<1>2. CASE p # Nil /\ t.down[d][p] = old
  <2>1. u = [t EXCEPT !.down[d][p] = new]
    BY <1>2 DEF Relink
  <2>2. p \in Slot /\ t.down[Other(d)][p] # old
    BY <1>0, <1>2, Sides DEF Link
  <2>3. u.color = t.color /\ u.up = t.up /\ u.root = t.root
    BY <2>1 DEF Tree
  <2>4. \A f \in Side, n \in Slot :
          u.down[f][n] = IF n = p /\ f = d THEN new ELSE t.down[f][n]
    BY <2>1, <2>2 DEF Tree
  <2>5. u \in Tree
    <3>1. [t.down EXCEPT ![d] = [@ EXCEPT ![p] = new]] \in [Side -> [Slot -> Link]]
      BY <1>0, <2>2 DEF Tree
    <3>2. u = [t EXCEPT !.down = [t.down EXCEPT ![d] = [@ EXCEPT ![p] = new]]]
      BY <2>1
    <3> QED
      BY <3>1, <3>2 DEF Tree
  <2> HIDE DEF u
  <2>6. \A f \in Side, n \in Slot :
          u.down[f][n] = IF n = p /\ t.down[f][n] = old THEN new ELSE t.down[f][n]
    BY <1>0, <1>2, <2>2, <2>4
  <2> QED
    BY <1>2, <2>3, <2>5, <2>6 DEF u
<1>3. CASE p # Nil /\ t.down[d][p] # old
  <2>1. u = [t EXCEPT !.down[Other(d)][p] = new]
    BY <1>3 DEF Relink
  <2>2. p \in Slot /\ t.down[Other(d)][p] = old
    BY <1>0, <1>3, Sides DEF Link
  <2>3. u.color = t.color /\ u.up = t.up /\ u.root = t.root
    BY <2>1 DEF Tree
  <2>4. \A f \in Side, n \in Slot :
          u.down[f][n] = IF n = p /\ f = Other(d) THEN new ELSE t.down[f][n]
    BY <2>1, <2>2 DEF Tree
  <2>5. u \in Tree
    <3>1. [t.down EXCEPT ![Other(d)] = [@ EXCEPT ![p] = new]] \in [Side -> [Slot -> Link]]
      BY <1>0, <2>2 DEF Tree
    <3>2. u = [t EXCEPT !.down = [t.down EXCEPT ![Other(d)] = [@ EXCEPT ![p] = new]]]
      BY <2>1
    <3> QED
      BY <3>1, <3>2 DEF Tree
  <2> HIDE DEF u
  <2>6. \A f \in Side, n \in Slot :
          u.down[f][n] = IF n = p /\ t.down[f][n] = old THEN new ELSE t.down[f][n]
    BY <1>0, <1>3, <2>2, <2>4
  <2> QED
    BY <1>3, <2>3, <2>5, <2>6 DEF u
<1> QED
  BY <1>1, <1>2, <1>3

(* What a rotation does to each link.                                      *)
LEMMA RotateIs ==
  ASSUME NEW t \in Tree, NEW s \in Slot, NEW d \in Side,
         t.down[Other(d)][s] \in Slot, t.down[Other(d)][s] # s,
         t.up[s] # s, t.up[s] # t.down[Other(d)][s],
         t.down[d][t.down[Other(d)][s]] \notin {s, t.down[Other(d)][s]},
         t.up[s] # Nil => \E f \in Side : /\ t.down[f][t.up[s]] = s
                                           /\ t.down[Other(f)][t.up[s]] # s
  PROVE  Rotated(t, s, d, Rotate(t, s, d))
<1> DEFINE e == Other(d)
           c == t.down[e][s]
           inner == t.down[d][c]
           p == t.up[s]
           r == Relink(t, p, d, s, c)
           U == [n \in Slot |-> CASE n = c -> p [] n = s -> c [] n = inner -> s [] OTHER -> t.up[n]]
           u == Rotate(t, s, d)
<1>0. Nil \notin Slot /\ e \in Side /\ e # d /\ \A f \in Side : f = d \/ f = e
  BY Sides
<1>1. p \in Link /\ c \in Slot /\ inner \in Link /\ c \in Link
  BY <1>0 DEF Tree, Link
<1>2. /\ r \in Tree /\ r.color = t.color /\ r.up = t.up
      /\ r.root = IF p = Nil THEN c ELSE t.root
      /\ \A f \in Side, n \in Slot :
           r.down[f][n] = IF n = p /\ t.down[f][n] = s THEN c ELSE t.down[f][n]
  BY <1>1, RelinkIs
<1>3. u = [r EXCEPT !.down[e][s] = inner, !.down[d][c] = s, !.up = U]
  BY DEF Rotate
<1>4. U \in [Slot -> Link]
  BY <1>1 DEF Tree, Link
<1>5. U = [n \in Slot |-> IF n = c THEN p ELSE IF n = s THEN c
                          ELSE IF n = inner THEN s ELSE t.up[n]]
  <2>1. \A n \in Slot : U[n] = IF n = c THEN p ELSE IF n = s THEN c
                               ELSE IF n = inner THEN s ELSE t.up[n]
    <3>1. c # s /\ inner # s /\ inner # c
      OBVIOUS
    <3> HIDE DEF c, inner, p
    <3> QED
      BY <3>1
  <2> HIDE DEF c, inner, p
  <2> QED
    BY <2>1
<1> HIDE DEF r, U, u, e, c, inner, p
<1>6. u.color = t.color /\ u.root = r.root /\ u.up = U
  BY <1>2, <1>3 DEF Tree
<1>7. \A f \in Side, n \in Slot :
           u.down[f][n] = IF n = s /\ f = e THEN inner
                          ELSE IF n = c /\ f = d THEN s ELSE r.down[f][n]
  BY <1>0, <1>1, <1>2, <1>3 DEF Tree
<1>8. u \in Tree
  <2>1. inner \in Link /\ s \in Link /\ r \in Tree /\ U \in [Slot -> Link]
    BY <1>1, <1>2, <1>4 DEF Link
  <2> QED
    BY <1>0, <1>1, <1>3, <2>1 DEF Tree
<1>9. \A f \in Side, n \in Slot :
           u.down[f][n] = IF n = s /\ f = e THEN inner
                          ELSE IF n = c /\ f = d THEN s
                          ELSE IF n = p /\ t.down[f][n] = s THEN c ELSE t.down[f][n]
  BY <1>2, <1>7
<1> QED
  BY <1>2, <1>5, <1>6, <1>8, <1>9 DEF Rotated, u, e, c, inner, p

\* The nodes that a rotation of s down to side d relinks are distinct.
Apart(t, S, s, d) ==
  LET c == t.down[Other(d)][s]
      inner == t.down[d][c]
      p == t.up[s]
  IN  /\ s \in Slot /\ c \in S /\ c # s /\ t.up[c] = s /\ p # s /\ p # c
      /\ t.down[d][s] # c /\ t.down[d][s] # s
      /\ inner \notin {s, c, p} \/ inner = Nil
      /\ inner # Nil => inner \in S /\ t.up[inner] = c
      /\ s = t.root <=> p = Nil
      /\ p # Nil => /\ p \in S
                    /\ \E f \in Side : t.down[f][p] = s /\ t.down[Other(f)][p] # s

(* In a sorted tree they are.                                              *)
LEMMA KinApart ==
  ASSUME NEW S \in SUBSET Slot, NEW key \in [Slot -> Int], NEW t, Sorted(t, S, key),
         NEW s \in S, NEW d \in Side, t.down[Other(d)][s] # Nil
  PROVE  Apart(t, S, s, d)
<1>0. Nil \notin Slot /\ Other(d) \in Side /\ Other(d) # d /\ t \in Tree /\ Links(t, S)
  BY Sides DEF Sorted
<1>1. PICK lo, hi : Ordered(t, S, key, lo, hi)
  BY DEF Sorted
<1> DEFINE c == t.down[Other(d)][s]
           inner == t.down[d][c]
           p == t.up[s]
           w(n) == hi[n] - lo[n]
<1>2. c \in S /\ t.up[c] = s /\ w(c) < w(s) /\ c # s /\ t.down[Other(Other(d))][s] # c
  BY <1>0, <1>1, Narrower
<1>3. inner # Nil => inner \in S /\ t.up[inner] = c /\ w(inner) < w(c) /\ inner # c
  BY <1>0, <1>1, <1>2, Narrower
<1>4. \A n \in S : w(n) \in Int
  BY <1>1 DEF Ordered
<1>5. s = t.root <=> p = Nil
  BY <1>0 DEF Links, UpLinked
<1>6. p # Nil => p \in S /\ \E f \in Side : t.down[f][p] = s
  BY <1>0 DEF Links, UpLinked
<1>7. p # Nil => /\ w(s) < w(p)
                 /\ \E f \in Side : t.down[f][p] = s /\ t.down[Other(f)][p] # s
  <2> SUFFICES ASSUME p # Nil
               PROVE  /\ w(s) < w(p)
                      /\ \E f \in Side : t.down[f][p] = s /\ t.down[Other(f)][p] # s
    OBVIOUS
  <2>1. PICK f \in Side : t.down[f][p] = s
    BY <1>6
  <2>2. p \in S /\ t.down[f][p] # Nil
    BY <1>0, <1>6, <2>1
  <2> HIDE DEF p
  <2> QED
    BY <1>0, <1>1, <2>1, <2>2, Narrower
<1>8. t.down[d][s] # c /\ t.down[d][s] # s
  <2>1. t.down[d][s] # Nil => t.down[d][s] # s
    BY <1>0, <1>1, Narrower
  <2> QED
    BY <1>0, <1>2, <2>1, Sides
<1> HIDE DEF c, inner, p, w
<1>9. p # s /\ p # c /\ (inner \notin {s, c, p} \/ inner = Nil)
  BY <1>0, <1>2, <1>3, <1>4, <1>6, <1>7
<1> QED
  BY <1>0, <1>2, <1>3, <1>5, <1>6, <1>7, <1>8, <1>9 DEF Apart, c, inner, p

(* A rotation keeps the links.                                             *)
LEMMA RotateLinks ==
  ASSUME NEW S \in SUBSET Slot, NEW t \in Tree, Links(t, S), NEW s \in S, NEW d \in Side,
         Apart(t, S, s, d), NEW u, Rotated(t, s, d, u)
  PROVE  Links(u, S)
<1> DEFINE e == Other(d)
           c == t.down[e][s]
           inner == t.down[d][c]
           p == t.up[s]
<1>0. /\ Nil \notin Slot /\ e \in Side /\ e # d /\ Other(e) = d
      /\ \A f \in Side : Other(f) \in Side /\ Other(f) # f /\ (f = d \/ f = e)
  BY Sides
<1>1. /\ c \in S /\ c # s /\ t.up[c] = s /\ p # s /\ p # c
      /\ t.down[d][s] # c /\ t.down[d][s] # s
      /\ inner \notin {s, c, p} \/ inner = Nil
      /\ inner # Nil => inner \in S /\ t.up[inner] = c
      /\ s = t.root <=> p = Nil
      /\ p # Nil => /\ p \in S
                    /\ \E f \in Side : t.down[f][p] = s /\ t.down[Other(f)][p] # s
  BY DEF Apart
<1>2. /\ u.root = IF p = Nil THEN c ELSE t.root
      /\ \A n \in Slot : u.up[n] = IF n = c THEN p ELSE IF n = s THEN c
                                ELSE IF n = inner THEN s ELSE t.up[n]
  BY DEF Rotated
<1>3. \A f \in Side, n \in Slot :
           u.down[f][n] = IF n = s /\ f = e THEN inner
                          ELSE IF n = c /\ f = d THEN s
                          ELSE IF n = p /\ t.down[f][n] = s THEN c ELSE t.down[f][n]
  BY DEF Rotated
<1>4. /\ t.root \in S \cup {Nil} /\ (S = {} <=> t.root = Nil)
      /\ \A n \in S : IF n = t.root THEN t.up[n] = Nil
              ELSE t.up[n] \in S /\ \E f \in Side : t.down[f][t.up[n]] = n
      /\ \A q \in S, f \in Side : t.down[f][q] # Nil =>
           /\ t.down[f][q] \in S /\ t.up[t.down[f][q]] = q
           /\ t.down[Other(f)][q] # t.down[f][q]
      /\ \A n \in Slot \ S : t.up[n] = Nil /\ \A f \in Side : t.down[f][n] = Nil
  BY DEF Links, RootLinked, UpLinked, DownLinked, Unlinks
<1>5. c = t.down[e][s] /\ inner = t.down[d][c] /\ p = t.up[s]
  OBVIOUS
<1> HIDE DEF c, inner, p, e
<1>6. RootLinked(u, S)
  BY <1>0, <1>1, <1>2, <1>4 DEF RootLinked
<1>7. Unlinks(u, S)
  BY <1>0, <1>1, <1>2, <1>3, <1>4 DEF Unlinks
<1>8. DownLinked(u, S)
  <2> SUFFICES ASSUME NEW q \in S, NEW f \in Side, u.down[f][q] # Nil
               PROVE  /\ u.down[f][q] \in S /\ u.up[u.down[f][q]] = q
                      /\ u.down[Other(f)][q] # u.down[f][q]
    BY DEF DownLinked
  <2>1. CASE q = s
    BY <1>0, <1>1, <1>2, <1>3, <1>4, <1>5, <2>1
  <2>2. CASE q = c
    BY <1>0, <1>1, <1>2, <1>3, <1>4, <1>5, <2>2
  <2>3. CASE q = p
    <3>1. PICK g \in Side : t.down[g][p] = s /\ t.down[Other(g)][p] # s
      BY <1>0, <1>1, <2>3
    <3>2. f = g \/ (f # g /\ f = Other(g))
      BY Sides
    <3>3. p # Nil /\ p \in Slot /\ s \in Slot /\ c \in Slot /\ Other(f) \in Side
      BY <1>0, <1>1, <2>3
    <3>4. u.down[g][p] = c /\ u.down[Other(g)][p] = t.down[Other(g)][p]
      BY <1>0, <1>1, <1>3, <3>1, <3>3
    <3>5. t.down[Other(g)][p] # Nil => /\ t.down[Other(g)][p] \in S
                                       /\ t.up[t.down[Other(g)][p]] = p
      BY <1>0, <1>4, <2>3
    <3>6. t.down[Other(g)][p] # Nil => t.down[Other(g)][p] \notin {s, c, inner}
      BY <1>0, <1>1, <1>5, <3>1, <3>5
    <3>7. CASE f = g
      BY <1>2, <2>3, <3>3, <3>4, <3>6, <3>7, <1>1, <1>0
    <3>8. CASE f = Other(g)
      <4>1. Other(f) = g
        BY <3>8, Sides
      <4> QED
        BY <1>2, <2>3, <3>3, <3>4, <3>5, <3>6, <3>8, <4>1, <1>1, <1>0
    <3> QED
      BY <3>2, <3>7, <3>8
  <2>4. CASE q \notin {s, c, p}
    BY <1>0, <1>1, <1>2, <1>3, <1>4, <1>5, <2>4
  <2> QED
    BY <2>1, <2>2, <2>3, <2>4
<1>9. UpLinked(u, S)
  <2> SUFFICES ASSUME NEW n \in S
               PROVE  IF n = u.root THEN u.up[n] = Nil
                      ELSE u.up[n] \in S /\ \E f \in Side : u.down[f][u.up[n]] = n
    BY DEF UpLinked
  <2>1. CASE n = s
    BY <1>0, <1>1, <1>2, <1>3, <1>4, <1>5, <2>1
  <2>2. CASE n = c
    BY <1>0, <1>1, <1>2, <1>3, <1>4, <1>5, <2>2
  <2>3. CASE n = inner
    <3>1. inner # Nil /\ inner \in Slot /\ inner # s /\ inner # c /\ t.up[inner] = c /\ s \in Slot
      BY <1>0, <1>1, <2>3
    <3>2. u.up[n] = s /\ u.down[e][s] = inner
      BY <1>0, <1>2, <1>3, <2>3, <3>1
    <3>3. n # u.root
      BY <1>0, <1>1, <1>2, <1>4, <2>3, <3>1
    <3> QED
      BY <1>0, <2>3, <3>2, <3>3
  <2>4. CASE n \notin {s, c, inner}
    <3>1. u.up[n] = t.up[n] /\ (n = u.root <=> n = t.root)
      BY <1>1, <1>2, <2>4
    <3>2. CASE n = t.root
      BY <1>4, <3>1, <3>2
    <3>3. CASE n # t.root
      <4>1. PICK f \in Side : t.up[n] \in S /\ t.down[f][t.up[n]] = n
        BY <1>4, <3>3
      <4>2. u.down[f][t.up[n]] = n
        BY <1>0, <1>1, <1>3, <1>5, <2>4, <4>1
      <4> QED
        BY <3>1, <3>3, <4>1, <4>2
    <3> QED
      BY <3>2, <3>3
  <2> QED
    BY <2>1, <2>2, <2>3, <2>4
<1> QED
  BY <1>6, <1>7, <1>8, <1>9 DEF Links

(* A rotation keeps the order: the child takes the interval of s, and s    *)
(* keeps what is on its side of the child.                                 *)
LEMMA RotateOrdered ==
  ASSUME NEW S \in SUBSET Slot, NEW key \in [Slot -> Int], NEW t \in Tree, Links(t, S),
         NEW lo, NEW hi, Ordered(t, S, key, lo, hi), NEW s \in S, NEW d \in Side,
         Apart(t, S, s, d), NEW u, Rotated(t, s, d, u)
  PROVE  \E lo2, hi2 : Ordered(u, S, key, lo2, hi2)
<1> DEFINE e == Other(d)
           c == t.down[e][s]
           inner == t.down[d][c]
           p == t.up[s]
           lo2 == [lo EXCEPT ![c] = lo[s], ![s] = IF d = "left" THEN lo[s] ELSE key[c]]
           hi2 == [hi EXCEPT ![c] = hi[s], ![s] = IF d = "left" THEN key[c] ELSE hi[s]]
<1>0. /\ Nil \notin Slot /\ "left" \in Side /\ "right" \in Side /\ e \in Side
      /\ d = "left" => e = "right"
      /\ d # "left" => e = "left" /\ d = "right"
  BY Sides DEF Other, Side
<1>1. /\ c \in S /\ c # s /\ p # s /\ p # c
      /\ t.down[d][s] # c /\ t.down[d][s] # s
      /\ inner \notin {s, c, p} \/ inner = Nil
      /\ inner # Nil => inner \in S
  BY DEF Apart
<1>2. \A f \in Side, n \in Slot :
           u.down[f][n] = IF n = s /\ f = e THEN inner
                          ELSE IF n = c /\ f = d THEN s
                          ELSE IF n = p /\ t.down[f][n] = s THEN c ELSE t.down[f][n]
  BY DEF Rotated
<1>3. \A q \in S, f \in Side : t.down[f][q] # Nil =>
           /\ t.down[f][q] \in S /\ t.up[t.down[f][q]] = q
  BY DEF Links, DownLinked
<1>4. /\ \A n \in Slot : lo[n] \in Int /\ hi[n] \in Int /\ key[n] \in Int
      /\ \A n \in S : lo[n] < key[n] /\ key[n] < hi[n]
      /\ \A q \in S : t.down["left"][q] # Nil =>
           lo[q] <= lo[t.down["left"][q]] /\ hi[t.down["left"][q]] <= key[q]
      /\ \A q \in S : t.down["right"][q] # Nil =>
           key[q] <= lo[t.down["right"][q]] /\ hi[t.down["right"][q]] <= hi[q]
  BY DEF Ordered
<1>5. c = t.down[e][s] /\ inner = t.down[d][c] /\ p = t.up[s] /\ t.up[c] = s
  BY <1>0, <1>1, <1>3
<1>6. lo2 \in [Slot -> Int] /\ hi2 \in [Slot -> Int]
  BY <1>1, <1>4 DEF Ordered
<1>7. \A n \in Slot : /\ lo2[n] = IF n = s THEN (IF d = "left" THEN lo[s] ELSE key[c])
                                  ELSE IF n = c THEN lo[s] ELSE lo[n]
                      /\ hi2[n] = IF n = s THEN (IF d = "left" THEN key[c] ELSE hi[s])
                                  ELSE IF n = c THEN hi[s] ELSE hi[n]
  BY <1>1 DEF Ordered
<1> HIDE DEF c, inner, p, e, lo2, hi2
<1>8. d = "left" => key[s] <= lo[c] /\ hi[c] <= hi[s]
  BY <1>0, <1>1, <1>4, <1>5
<1>9. d # "left" => lo[s] <= lo[c] /\ hi[c] <= key[s]
  BY <1>0, <1>1, <1>4, <1>5
<1>10. \A n \in S : lo2[n] < key[n] /\ key[n] < hi2[n]
  BY <1>1, <1>4, <1>7, <1>8, <1>9
<1>11. ASSUME NEW q \in S, u.down["left"][q] # Nil
       PROVE  lo2[q] <= lo2[u.down["left"][q]] /\ hi2[u.down["left"][q]] <= key[q]
  <2>1. CASE q = s
    BY <1>0, <1>1, <1>2, <1>3, <1>4, <1>5, <1>7, <1>8, <1>9, <1>11, <2>1
  <2>2. CASE q = c
    BY <1>0, <1>1, <1>2, <1>3, <1>4, <1>5, <1>7, <1>8, <1>9, <1>11, <2>2
  <2>3. CASE q \notin {s, c}
    <3> DEFINE x == t.down["left"][q]
    <3>1. x # Nil /\ x \in S /\ t.up[x] = q /\ x # c
      BY <1>0, <1>1, <1>2, <1>3, <1>5, <1>11, <2>3
    <3>2. u.down["left"][q] = IF x = s THEN c ELSE x
      BY <1>0, <1>2, <1>5, <2>3, <3>1
    <3>3. lo[q] <= lo[x] /\ hi[x] <= key[q]
      BY <1>4, <3>1
    <3> HIDE DEF x
    <3> QED
      BY <1>1, <1>4, <1>7, <2>3, <3>1, <3>2, <3>3
  <2> QED
    BY <2>1, <2>2, <2>3
<1>12. ASSUME NEW q \in S, u.down["right"][q] # Nil
       PROVE  key[q] <= lo2[u.down["right"][q]] /\ hi2[u.down["right"][q]] <= hi2[q]
  <2>1. CASE q = s
    BY <1>0, <1>1, <1>2, <1>3, <1>4, <1>5, <1>7, <1>8, <1>9, <1>12, <2>1
  <2>2. CASE q = c
    BY <1>0, <1>1, <1>2, <1>3, <1>4, <1>5, <1>7, <1>8, <1>9, <1>12, <2>2
  <2>3. CASE q \notin {s, c}
    <3> DEFINE x == t.down["right"][q]
    <3>1. x # Nil /\ x \in S /\ t.up[x] = q /\ x # c
      BY <1>0, <1>1, <1>2, <1>3, <1>5, <1>12, <2>3
    <3>2. u.down["right"][q] = IF x = s THEN c ELSE x
      BY <1>0, <1>2, <1>5, <2>3, <3>1
    <3>3. key[q] <= lo[x] /\ hi[x] <= hi[q]
      BY <1>4, <3>1
    <3> HIDE DEF x
    <3> QED
      BY <1>1, <1>4, <1>7, <2>3, <3>1, <3>2, <3>3
  <2> QED
    BY <2>1, <2>2, <2>3
<1>13. Ordered(u, S, key, lo2, hi2)
  BY <1>6, <1>10, <1>11, <1>12 DEF Ordered
<1> QED
  BY <1>13

(* A rotation in a sorted tree leaves a sorted tree.                       *)
LEMMA RotateSorted ==
  ASSUME NEW S \in SUBSET Slot, NEW key \in [Slot -> Int], NEW t, Sorted(t, S, key),
         NEW s \in S, NEW d \in Side, t.down[Other(d)][s] # Nil
  PROVE  /\ Rotated(t, s, d, Rotate(t, s, d)) /\ Apart(t, S, s, d)
         /\ Sorted(Rotate(t, s, d), S, key)
<1>1. Apart(t, S, s, d) /\ t \in Tree /\ Links(t, S)
  BY KinApart DEF Sorted
<1>2. Rotated(t, s, d, Rotate(t, s, d))
  <2>1. /\ t.down[Other(d)][s] \in Slot /\ t.down[Other(d)][s] # s
        /\ t.up[s] # s /\ t.up[s] # t.down[Other(d)][s]
        /\ t.down[d][t.down[Other(d)][s]] \notin {s, t.down[Other(d)][s]}
        /\ t.up[s] # Nil => \E f \in Side : /\ t.down[f][t.up[s]] = s
                                             /\ t.down[Other(f)][t.up[s]] # s
    BY <1>1, Sides DEF Apart
  <2> QED
    BY <1>1, <2>1, RotateIs
<1>3. PICK lo, hi : Ordered(t, S, key, lo, hi)
  BY DEF Sorted
<1>4. Rotate(t, s, d) \in Tree
  BY <1>2 DEF Rotated
<1> QED
  BY <1>1, <1>2, <1>3, <1>4, RotateLinks, RotateOrdered DEF Sorted

-----------------------------------------------------------------------------
(* Colours.                                                                *)

(* Painting changes no link.                                               *)
LEMMA PaintIs ==
  ASSUME NEW t \in Tree, NEW s \in Link, NEW c \in Color
  PROVE  LET u == Paint(t, s, c)
         IN  /\ u \in Tree /\ u.up = t.up /\ u.down = t.down /\ u.root = t.root
             /\ \A n \in Slot : u.color[n] = IF n = s THEN c ELSE t.color[n]
<1>1. CASE s = Nil
  BY <1>1, Sides DEF Paint
<1>2. CASE s # Nil
  <2>1. s \in Slot /\ Paint(t, s, c) = [t EXCEPT !.color[s] = c]
    BY <1>2 DEF Paint, Link
  <2> QED
    BY <2>1 DEF Tree
<1> QED
  BY <1>1, <1>2

\* t with s painted in colour c
Painted(t, s, c, u) ==
  /\ u \in Tree /\ u.up = t.up /\ u.down = t.down /\ u.root = t.root
  /\ \A n \in Slot : u.color[n] = IF n = s THEN c ELSE t.color[n]

(* The same under that name.                                               *)
LEMMA Paints ==
  \A t \in Tree, s \in Link, c \in Color : Painted(t, s, c, Paint(t, s, c))
BY PaintIs DEF Painted

(* So the painted tree is sorted like the other.                           *)
LEMMA SameSorted ==
  ASSUME NEW S, NEW key, NEW t, Sorted(t, S, key), NEW u \in Tree,
         u.up = t.up, u.down = t.down, u.root = t.root
  PROVE  Sorted(u, S, key)
<1>1. Links(u, S)
  BY DEF Sorted, Links, RootLinked, UpLinked, DownLinked, Unlinks
<1>2. PICK lo, hi : Ordered(t, S, key, lo, hi)
  BY DEF Sorted
<1>3. Ordered(u, S, key, lo, hi)
  BY <1>2 DEF Ordered
<1> QED
  BY <1>1, <1>3 DEF Sorted

\* The black nodes on the way down from n, n included, as bh numbers those
\* below each node
BlackHeight(t, bh, n) ==
  IF n = Nil THEN 0 ELSE IF t.color[n] = "black" THEN bh[n] + 1 ELSE bh[n]

\* Both children of a node have the same black height; only at the node a, on
\* the side g, one is missing.
Balanced(t, S, bh, a, g) ==
  /\ bh \in [Slot -> Nat]
  /\ \A p \in S, f \in Side :
       bh[p] = BlackHeight(t, bh, t.down[f][p]) + (IF p = a /\ f = g THEN 1 ELSE 0)

\* The red nodes, except x, are not at the root and have no red parent,
\* except y.
Reds(t, S, x, y) ==
  \A s \in S : t.color[s] = "red" /\ s # x =>
    s # t.root /\ (t.color[t.up[s]] = "red" => t.up[s] = y)

\* A tree into which s was inserted, or which was painted red at s
Inserted(t, S, key, bh, s) ==
  /\ Sorted(t, S, key) /\ Balanced(t, S, bh, Nil, Nil) /\ Reds(t, S, s, Nil)
  /\ s \in S /\ t.color[s] = "red"

\* s and its parent p are red, and the black g is the parent of p.
Line(t, S, d, s, p, g) ==
  /\ p \in S /\ g \in S /\ s # p /\ s # g /\ p # g
  /\ t.up[s] = p /\ t.up[p] = g /\ p # t.root
  /\ t.color[p] = "red" /\ t.color[g] = "black"
  /\ t.down[d][g] = p /\ t.down[Other(d)][g] \notin {p, s, g}

(* If the parent of s is red, it has a black parent.                       *)
LEMMA Kin ==
  ASSUME NEW S \in SUBSET Slot, NEW key \in [Slot -> Int], NEW t, NEW bh, NEW s,
         Inserted(t, S, key, bh, s), s # t.root, Red(t, t.up[s]),
         NEW d, d = IF t.down["left"][t.up[t.up[s]]] = t.up[s] THEN "left" ELSE "right"
  PROVE  d \in Side /\ Line(t, S, d, s, t.up[s], t.up[t.up[s]])
<1> DEFINE p == t.up[s]
           g == t.up[p]
<1>0. Nil \notin Slot /\ "left" \in Side /\ "right" \in Side /\ d \in Side /\ t \in Tree
  BY Sides DEF Inserted, Sorted
<1>1. PICK lo, hi : Ordered(t, S, key, lo, hi)
  BY DEF Inserted, Sorted
<1>2. Links(t, S) /\ s \in S
  BY DEF Inserted, Sorted
<1>3. p \in S /\ \E f \in Side : t.down[f][p] = s
  BY <1>2 DEF Links, UpLinked
<1>4. \A q \in S, f \in Side : t.down[f][q] # Nil =>
        /\ t.down[f][q] \in S /\ t.up[t.down[f][q]] = q /\ t.down[f][q] # q
        /\ hi[t.down[f][q]] - lo[t.down[f][q]] < hi[q] - lo[q]
        /\ t.down[Other(f)][q] # t.down[f][q]
  BY <1>0, <1>1, <1>2, Narrower
<1>5. \A q \in S : hi[q] - lo[q] \in Int
  BY <1>1 DEF Ordered
<1>6. s # p /\ hi[s] - lo[s] < hi[p] - lo[p]
  BY <1>0, <1>2, <1>3, <1>4
<1>7. t.color[p] = "red" /\ p # t.root
  BY <1>3, <1>6 DEF Inserted, Reds, Red
<1>8. g \in S /\ \E f \in Side : t.down[f][g] = p
  BY <1>2, <1>3, <1>7 DEF Links, UpLinked
<1>9. p # g /\ hi[p] - lo[p] < hi[g] - lo[g]
  <2>1. PICK f \in Side : t.down[f][g] = p
    BY <1>8
  <2>2. p # Nil /\ g \in S
    BY <1>0, <1>3, <1>8
  <2> HIDE DEF p, g
  <2> QED
    BY <1>4, <2>1, <2>2
<1>10. t.color[g] = "black"
  <2>1. t.color[g] # "red"
    BY <1>0, <1>3, <1>6, <1>7, <1>8 DEF Inserted, Reds
  <2> QED
    BY <1>0, <1>8, <2>1 DEF Tree, Color
<1>11. t.down[d][g] = p
  BY <1>0, <1>8 DEF Side
<1>12. t.down[Other(d)][g] \notin {p, s, g}
  <2>1. t.down[Other(d)][g] # p
    BY <1>0, <1>3, <1>4, <1>8, <1>11
  <2>2. t.down[Other(d)][g] # Nil =>
          t.up[t.down[Other(d)][g]] = g /\ t.down[Other(d)][g] # g
    BY <1>4, <1>8, <1>0, Sides
  <2> QED
    BY <1>0, <1>2, <1>8, <1>9, <2>1, <2>2
<1>13. s # g
  BY <1>2, <1>3, <1>5, <1>6, <1>8, <1>9
<1> QED
  BY <1>0, <1>3, <1>6, <1>7, <1>8, <1>9, <1>10, <1>11, <1>12, <1>13 DEF Line

(* The inner rotation of the zig-zag case: s and p change places.          *)
LEMMA InnerTurn ==
  ASSUME NEW S \in SUBSET Slot, NEW key \in [Slot -> Int], NEW t, NEW bh, NEW s, NEW p, NEW g,
         NEW d \in Side, Inserted(t, S, key, bh, s), Line(t, S, d, s, p, g),
         t.down[Other(d)][p] = s, NEW u, u = Rotate(t, p, d)
  PROVE  /\ Inserted(u, S, key, bh, p) /\ Line(u, S, d, p, s, g)
         /\ u.down[d][s] = p /\ u.down[Other(d)][g] = t.down[Other(d)][g] /\ u.color = t.color
<1> DEFINE e == Other(d)
           inner == t.down[d][s]
<1>0. /\ Nil \notin Slot /\ e \in Side /\ e # d /\ s \in S /\ s # Nil
      /\ \A f \in Side : f = d \/ f = e
  BY Sides DEF Inserted
<1>1. /\ p \in S /\ g \in S /\ s # p /\ s # g /\ p # g
      /\ t.up[s] = p /\ t.up[p] = g /\ p # t.root
      /\ t.color[p] = "red" /\ t.color[g] = "black" /\ t.color[s] = "red"
      /\ t.down[d][g] = p /\ t.down[e][g] \notin {p, s, g} /\ t.down[e][p] = s
  BY DEF Line, Inserted
<1>2. Rotated(t, p, d, u) /\ Apart(t, S, p, d) /\ Sorted(u, S, key) /\ Sorted(t, S, key)
  BY <1>0, <1>1, RotateSorted DEF Inserted
<1>3. /\ u.color = t.color /\ u.root = t.root
      /\ \A n \in Slot : u.up[n] = IF n = s THEN g ELSE IF n = p THEN s
                                   ELSE IF n = inner THEN p ELSE t.up[n]
      /\ \A f \in Side, n \in Slot :
           u.down[f][n] = IF n = p /\ f = e THEN inner ELSE IF n = s /\ f = d THEN p
                          ELSE IF n = g /\ t.down[f][n] = p THEN s ELSE t.down[f][n]
  BY <1>0, <1>1, <1>2 DEF Rotated
<1>4. inner # Nil => inner \in S /\ t.up[inner] = s /\ inner \notin {s, p, g}
  BY <1>1, <1>2 DEF Apart
<1>5. /\ bh \in [Slot -> Nat]
      /\ \A q \in S, f \in Side : bh[q] = BlackHeight(t, bh, t.down[f][q])
  <2>1. Nil \notin S /\ bh \in [Slot -> Nat]
    BY <1>0 DEF Inserted, Balanced
  <2>2. ASSUME NEW q \in S, NEW f \in Side PROVE bh[q] = BlackHeight(t, bh, t.down[f][q])
    <3>1. bh[q] = BlackHeight(t, bh, t.down[f][q]) + 0
      BY <2>1 DEF Inserted, Balanced
    <3>2. t.down[f][q] \in Link
      BY <1>2 DEF Sorted, Tree
    <3>3. BlackHeight(t, bh, t.down[f][q]) \in Nat
      BY <2>1, <3>2 DEF BlackHeight, Link
    <3> QED
      BY <3>1, <3>3
  <2> QED
    BY <2>1, <2>2
<1> HIDE DEF e, inner
<1>6. Reds(u, S, p, Nil)
  <2> SUFFICES ASSUME NEW n \in S, u.color[n] = "red", n # p
               PROVE  n # u.root /\ (u.color[u.up[n]] = "red" => u.up[n] = Nil)
    BY DEF Reds
  <2>1. \A m \in S : t.color[m] = "red" /\ m # s =>
          m # t.root /\ (t.color[t.up[m]] = "red" => t.up[m] = Nil)
    BY DEF Inserted, Reds
  <2>2. CASE n = s
    <3>1. s # t.root
      BY <1>0, <1>1, <1>2 DEF Sorted, Links, UpLinked
    <3> QED
      BY <1>1, <1>3, <2>2, <3>1
  <2>3. CASE n = inner
    BY <1>0, <1>1, <1>3, <1>4, <2>1, <2>3
  <2>4. CASE n \notin {s, inner}
    BY <1>3, <2>1, <2>4
  <2> QED
    BY <2>2, <2>3, <2>4
<1>7. Balanced(u, S, bh, Nil, Nil)
  <2>1. bh[p] = bh[s] /\ bh[s] = BlackHeight(t, bh, inner) /\ bh[g] = bh[p]
    BY <1>0, <1>1, <1>5 DEF BlackHeight, inner
  <2>2. \A n : BlackHeight(u, bh, n) = BlackHeight(t, bh, n)
    BY <1>3 DEF BlackHeight
  <2>3. ASSUME NEW q \in S, NEW f \in Side PROVE bh[q] = BlackHeight(t, bh, u.down[f][q])
    <3>1. u.down[f][q] = IF q = p /\ f = e THEN inner ELSE IF q = s /\ f = d THEN p
                          ELSE IF q = g /\ t.down[f][q] = p THEN s ELSE t.down[f][q]
      BY <1>3
    <3>2. BlackHeight(t, bh, p) = bh[p] /\ BlackHeight(t, bh, s) = bh[s]
      BY <1>0, <1>1 DEF BlackHeight
    <3> QED
      BY <1>5, <2>1, <3>1, <3>2
  <2>4. ASSUME NEW q \in S, NEW f \in Side
        PROVE  bh[q] = BlackHeight(u, bh, u.down[f][q])
                       + (IF q = Nil /\ f = Nil THEN 1 ELSE 0)
    <3>1. bh[q] \in Nat /\ q # Nil
      BY <1>0, <1>5
    <3> QED
      BY <2>2, <2>3, <3>1
  <2> QED
    BY <1>5, <2>4 DEF Balanced
<1>8. Line(u, S, d, p, s, g) /\ u.down[d][s] = p /\ u.down[e][g] = t.down[e][g]
  <2>1. /\ u.up[p] = s /\ u.up[s] = g /\ s # u.root
    BY <1>0, <1>1, <1>2, <1>3 DEF Sorted, Links, UpLinked
  <2>2. u.down[d][g] = s /\ u.down[e][g] = t.down[e][g] /\ u.down[d][s] = p
    BY <1>0, <1>1, <1>3
  <2> QED
    BY <1>0, <1>1, <1>3, <2>1, <2>2 DEF Line, e
<1> QED
  BY <1>1, <1>2, <1>3, <1>6, <1>7, <1>8 DEF Inserted, e

(* Without an exception, both children have the black height of the node.  *)
LEMMA PlainBalanced ==
  ASSUME NEW S \in SUBSET Slot, NEW t \in Tree, NEW bh \in [Slot -> Nat]
  PROVE  /\ \A n \in Link : BlackHeight(t, bh, n) \in Nat
         /\ \A a, g : a \notin S =>
              (Balanced(t, S, bh, a, g) <=>
                 \A q \in S, f \in Side : bh[q] = BlackHeight(t, bh, t.down[f][q]))
<1>1. \A n \in Link : BlackHeight(t, bh, n) \in Nat
  BY DEF BlackHeight, Link
<1>2. \A q \in S, f \in Side : t.down[f][q] \in Link
  BY DEF Tree
<1>3. ASSUME NEW a, NEW g, a \notin S
      PROVE  Balanced(t, S, bh, a, g) <=>
               \A q \in S, f \in Side : bh[q] = BlackHeight(t, bh, t.down[f][q])
  <2>1. ASSUME NEW q \in S, NEW f \in Side
        PROVE  BlackHeight(t, bh, t.down[f][q])
                 + (IF q = a /\ f = g THEN 1 ELSE 0) = BlackHeight(t, bh, t.down[f][q])
    BY <1>1, <1>2, <1>3
  <2> QED
    BY <2>1 DEF Balanced
<1> QED
  BY <1>1, <1>3

(* The outer rotation, which ends the repair: p comes up, black, with s    *)
(* and g under it, red.                                                    *)
LEMMA OuterTurn ==
  ASSUME NEW S \in SUBSET Slot, NEW key \in [Slot -> Int], NEW t, NEW bh, NEW s, NEW p, NEW g,
         NEW d \in Side, Inserted(t, S, key, bh, s), Line(t, S, d, s, p, g),
         t.down[d][p] = s, ~Red(t, t.down[Other(d)][g]),
         NEW u, u = Rotate(Paint(Paint(t, p, "black"), g, "red"), g, Other(d))
  PROVE  Inserted(u, S, key, bh, s) /\ u.up[s] = p /\ u.color[p] = "black"
<1> DEFINE e == Other(d)
           v == Paint(Paint(t, p, "black"), g, "red")
           inner == t.down[e][p]
           uncle == t.down[e][g]
           top == t.up[g]
<1>0. /\ Nil \notin Slot /\ e \in Side /\ e # d /\ Other(e) = d /\ s \in S /\ s # Nil
      /\ "red" \in Color /\ "black" \in Color /\ "red" # "black"
      /\ \A f \in Side : f = d \/ f = e
  BY Sides DEF Inserted, Color
<1>1. /\ p \in S /\ g \in S /\ s # p /\ s # g /\ p # g
      /\ t.up[s] = p /\ t.up[p] = g /\ p # t.root
      /\ t.color[p] = "red" /\ t.color[g] = "black" /\ t.color[s] = "red"
      /\ t.down[d][g] = p /\ uncle \notin {p, s, g} /\ t.down[d][p] = s
  BY DEF Line, Inserted
<1>2. Sorted(t, S, key) /\ t \in Tree /\ Links(t, S) /\ p \in Link /\ g \in Link /\ p \in Slot /\ g \in Slot
  BY <1>1 DEF Inserted, Sorted, Link
<1>3. /\ v \in Tree /\ v.up = t.up /\ v.down = t.down /\ v.root = t.root
      /\ \A n \in Slot : v.color[n] = IF n = g THEN "red" ELSE IF n = p THEN "black" ELSE t.color[n]
  <2> DEFINE w == Paint(t, p, "black")
  <2>1. /\ w \in Tree /\ w.up = t.up /\ w.down = t.down /\ w.root = t.root
        /\ \A n \in Slot : w.color[n] = IF n = p THEN "black" ELSE t.color[n]
    BY <1>0, <1>2, PaintIs
  <2> HIDE DEF w
  <2>2. /\ Paint(w, g, "red") \in Tree /\ Paint(w, g, "red").up = w.up
        /\ Paint(w, g, "red").down = w.down /\ Paint(w, g, "red").root = w.root
        /\ \A n \in Slot : Paint(w, g, "red").color[n] = IF n = g THEN "red" ELSE w.color[n]
    BY <1>0, <1>2, <2>1, PaintIs
  <2>3. v = Paint(w, g, "red")
    BY DEF w
  <2> HIDE DEF v
  <2> QED
    BY <2>1, <2>2, <2>3
<1>4. Sorted(v, S, key)
  BY <1>2, <1>3, SameSorted
<1>5. u = Rotate(v, g, e)
  OBVIOUS
<1> HIDE DEF v
<1>6. Rotated(v, g, e, u) /\ Apart(v, S, g, e) /\ Sorted(u, S, key)
  <2>1. v.down[Other(e)][g] # Nil
    BY <1>0, <1>1, <1>2, <1>3
  <2> QED
    BY <1>0, <1>1, <1>4, <1>5, <2>1, RotateSorted
<1>7. /\ u.color = v.color /\ u.root = IF top = Nil THEN p ELSE t.root
      /\ \A n \in Slot : u.up[n] = IF n = p THEN top ELSE IF n = g THEN p
                                   ELSE IF n = inner THEN g ELSE t.up[n]
      /\ \A f \in Side, n \in Slot :
           u.down[f][n] = IF n = g /\ f = d THEN inner ELSE IF n = p /\ f = e THEN g
                          ELSE IF n = top /\ t.down[f][n] = g THEN p ELSE t.down[f][n]
  BY <1>0, <1>1, <1>3, <1>6 DEF Rotated
<1>8. /\ inner # Nil => inner \in S /\ t.up[inner] = p /\ inner \notin {g, p, top}
      /\ g = t.root <=> top = Nil
      /\ top # g /\ top # p
      /\ top # Nil => top \in S
  BY <1>0, <1>1, <1>3, <1>6 DEF Apart
<1>9. inner # s
  <2>1. t.down[d][p] # Nil => t.down[Other(d)][p] # t.down[d][p]
    BY <1>1, <1>2 DEF Links, DownLinked
  <2> QED
    BY <1>0, <1>1, <2>1
<1>10. /\ bh \in [Slot -> Nat] /\ Nil \notin S
       /\ \A q \in S, f \in Side : bh[q] = BlackHeight(t, bh, t.down[f][q])
  <2>1. bh \in [Slot -> Nat] /\ Balanced(t, S, bh, Nil, Nil) /\ Nil \notin S
    BY <1>0 DEF Inserted, Balanced
  <2> QED
    BY <1>2, <2>1, PlainBalanced
<1>11. \A m \in S : t.color[m] = "red" /\ m # s =>
          m # t.root /\ (t.color[t.up[m]] = "red" => t.up[m] = Nil)
  BY DEF Inserted, Reds
<1>12. uncle # Nil => uncle \in S /\ t.up[uncle] = g /\ t.color[uncle] # "red"
  <2>1. uncle # Nil => uncle \in S /\ t.up[uncle] = g
    BY <1>0, <1>1, <1>2 DEF Links, DownLinked
  <2> QED
    BY <2>1 DEF Red
<1>13. u \in Tree
  BY <1>6 DEF Sorted
<1>14. \A q \in S, f \in Side : t.down[f][q] # Nil => t.down[f][q] \in S /\ t.up[t.down[f][q]] = q
  BY <1>2 DEF Links, DownLinked
<1>15. inner = t.down[e][p] /\ uncle = t.down[e][g] /\ top = t.up[g]
  OBVIOUS
<1> HIDE DEF e, inner, uncle, top
<1>16. Reds(u, S, s, Nil)
  <2> SUFFICES ASSUME NEW n \in S, u.color[n] = "red", n # s
               PROVE  n # u.root /\ (u.color[u.up[n]] = "red" => u.up[n] = Nil)
    BY DEF Reds
  <2>1. CASE n = g
    BY <1>0, <1>1, <1>2, <1>3, <1>7, <1>8, <2>1
  <2>2. CASE n # g
    <3>1. n # p /\ t.color[n] = "red" /\ n # t.root /\ (t.color[t.up[n]] = "red" => t.up[n] = Nil)
      BY <1>0, <1>2, <1>3, <1>7, <1>11, <2>2
    <3>2. CASE n = inner
      BY <1>0, <1>1, <1>8, <1>2, <3>1, <3>2
    <3>3. CASE n # inner
      <4>1. u.up[n] = t.up[n] /\ n # u.root
        BY <1>2, <1>7, <2>2, <3>1, <3>3
      <4>2. t.up[n] \in S /\ \E f \in Side : t.down[f][t.up[n]] = n
        BY <1>2, <3>1 DEF Links, UpLinked
      <4>3. t.up[n] # g
        BY <1>0, <1>1, <1>12, <1>15, <3>1, <4>2
      <4> QED
        BY <1>3, <1>7, <3>1, <4>1, <4>2, <4>3
    <3> QED
      BY <3>2, <3>3
  <2> QED
    BY <2>1, <2>2
<1>17. Balanced(u, S, bh, Nil, Nil)
  <2>1. /\ bh[p] = BlackHeight(t, bh, inner) /\ bh[g] = bh[p]
        /\ bh[g] = BlackHeight(t, bh, uncle)
    BY <1>0, <1>1, <1>10, <1>15 DEF BlackHeight
  <2>2. \A n \in Link : n \notin {p, g} => BlackHeight(u, bh, n) = BlackHeight(t, bh, n)
    BY <1>3, <1>7 DEF BlackHeight, Link
  <2>3. /\ BlackHeight(u, bh, p) = bh[p] + 1 /\ BlackHeight(u, bh, g) = bh[g]
        /\ BlackHeight(t, bh, g) = bh[g] + 1
    BY <1>0, <1>1, <1>2, <1>3, <1>7 DEF BlackHeight
  <2>4. ASSUME NEW q \in S, NEW f \in Side PROVE bh[q] = BlackHeight(u, bh, u.down[f][q])
    <3>1. u.down[f][q] = IF q = g /\ f = d THEN inner ELSE IF q = p /\ f = e THEN g
                          ELSE IF q = top /\ t.down[f][q] = g THEN p ELSE t.down[f][q]
      BY <1>7
    <3>2. t.down[f][q] \in Link /\ inner \in Link
      BY <1>0, <1>1, <1>2, <1>15 DEF Tree
    <3>3. inner \notin {p, g}
      BY <1>0, <1>1, <1>8
    <3>4. bh[q] = BlackHeight(t, bh, t.down[f][q])
      BY <1>10
    <3>5. CASE q = g
      BY <1>0, <1>1, <1>8, <1>15, <2>1, <2>2, <3>1, <3>2, <3>3, <3>5
    <3>6. CASE q = p
      BY <1>0, <1>1, <1>8, <1>15, <2>1, <2>2, <2>3, <3>1, <3>2, <3>3, <3>4, <3>6, <1>14
    <3>7. CASE q \notin {p, g}
      <4>1. t.down[f][q] # p
        BY <1>0, <1>1, <1>2, <1>14, <3>7
      <4>2. t.down[f][q] = g => q = top
        BY <1>0, <1>1, <1>2, <1>14, <1>15
      <4> QED
        BY <2>1, <2>2, <2>3, <3>1, <3>2, <3>4, <3>7, <4>1, <4>2
    <3> QED
      BY <3>5, <3>6, <3>7
  <2> QED
    BY <1>10, <1>13, <2>4, PlainBalanced
<1>18. u.up[s] = p /\ u.color[p] = "black" /\ u.color[s] = "red"
  BY <1>0, <1>1, <1>2, <1>3, <1>7, <1>9
<1> QED
  BY <1>0, <1>6, <1>16, <1>17, <1>18 DEF Inserted

(* A red uncle: p and its sibling turn black, and g is red instead.        *)
LEMMA RecolorTurn ==
  ASSUME NEW S \in SUBSET Slot, NEW key \in [Slot -> Int], NEW t, NEW bh, NEW s, NEW p, NEW g,
         NEW d \in Side, Inserted(t, S, key, bh, s), Line(t, S, d, s, p, g),
         NEW uncle, uncle = t.down[Other(d)][g], Red(t, uncle),
         NEW u, u = Paint(Paint(Paint(t, p, "black"), uncle, "black"), g, "red")
  PROVE  u.up = t.up /\ \E bh2 : Inserted(u, S, key, bh2, g)
<1> DEFINE e == Other(d)
           bh2 == [bh EXCEPT ![g] = bh[g] + 1]
<1>0. /\ Nil \notin Slot /\ e \in Side /\ e # d /\ s \in S /\ s # Nil
      /\ "red" \in Color /\ "black" \in Color /\ "red" # "black"
      /\ \A f \in Side : f = d \/ f = e
  BY Sides DEF Inserted, Color
<1>1. /\ p \in S /\ g \in S /\ s # p /\ s # g /\ p # g
      /\ t.up[s] = p /\ t.up[p] = g /\ p # t.root
      /\ t.color[p] = "red" /\ t.color[g] = "black" /\ t.color[s] = "red"
      /\ t.down[d][g] = p /\ uncle \notin {p, s, g} /\ t.down[e][g] = uncle
  BY DEF Line, Inserted
<1>2. /\ Sorted(t, S, key) /\ t \in Tree /\ Links(t, S)
      /\ uncle # Nil /\ uncle \in S /\ t.up[uncle] = g /\ t.color[uncle] = "red"
  <2>1. Sorted(t, S, key) /\ t \in Tree /\ Links(t, S) /\ uncle # Nil /\ t.color[uncle] = "red"
    BY DEF Inserted, Sorted, Red
  <2> QED
    BY <1>0, <1>1, <2>1 DEF Links, DownLinked
<1>3. /\ u \in Tree /\ u.up = t.up /\ u.down = t.down /\ u.root = t.root
      /\ \A n \in Slot : u.color[n] = IF n = g THEN "red" ELSE IF n = uncle THEN "black"
                                      ELSE IF n = p THEN "black" ELSE t.color[n]
  <2>1. /\ p \in Link /\ g \in Link /\ uncle \in Link /\ t \in Tree
        /\ "red" \in Color /\ "black" \in Color
    BY <1>0, <1>1, <1>2 DEF Link
  <2> DEFINE v == Paint(t, p, "black")
             w == Paint(v, uncle, "black")
  <2>2. u = Paint(w, g, "red")
    OBVIOUS
  <2>3. Painted(t, p, "black", v)
    BY <2>1, Paints
  <2>4. Painted(v, uncle, "black", w)
    <3>1. v \in Tree
      BY <2>3 DEF Painted
    <3> QED
      BY <2>1, <3>1, Paints
  <2>5. Painted(w, g, "red", u)
    <3>1. w \in Tree
      BY <2>4 DEF Painted
    <3> QED
      BY <2>1, <2>2, <3>1, Paints
  <2> HIDE DEF v, w
  <2> QED
    BY <2>3, <2>4, <2>5 DEF Painted
<1>4. Sorted(u, S, key)
  BY <1>2, <1>3, SameSorted
<1>5. /\ bh \in [Slot -> Nat] /\ Nil \notin S
      /\ \A q \in S, f \in Side : bh[q] = BlackHeight(t, bh, t.down[f][q])
  <2>1. bh \in [Slot -> Nat] /\ Balanced(t, S, bh, Nil, Nil) /\ Nil \notin S
    BY <1>0 DEF Inserted, Balanced
  <2> QED
    BY <1>2, <2>1, PlainBalanced
<1>6. bh2 \in [Slot -> Nat] /\ \A n \in Slot : bh2[n] = IF n = g THEN bh[g] + 1 ELSE bh[n]
  BY <1>1, <1>5
<1>7. \A m \in S : t.color[m] = "red" /\ m # s =>
          m # t.root /\ (t.color[t.up[m]] = "red" => t.up[m] = Nil)
  BY DEF Inserted, Reds
<1>8. \A q \in S, f \in Side : t.down[f][q] # Nil =>
        t.down[f][q] \in S /\ t.up[t.down[f][q]] = q
  BY <1>2 DEF Links, DownLinked
<1> HIDE DEF e, bh2
<1>9. Reds(u, S, g, Nil)
  <2> SUFFICES ASSUME NEW n \in S, u.color[n] = "red", n # g
               PROVE  n # u.root /\ (u.color[u.up[n]] = "red" => u.up[n] = Nil)
    BY DEF Reds
  <2>1. t.color[n] = "red" /\ n \notin {g, p, uncle}
    BY <1>0, <1>3
  <2>2. CASE n = s
    <3>1. s # t.root
      BY <1>0, <1>1, <1>2 DEF Links, UpLinked
    <3> QED
      BY <1>0, <1>1, <1>3, <2>2, <3>1
  <2>3. CASE n # s
    <3>1. n # t.root /\ (t.color[t.up[n]] = "red" => t.up[n] = Nil)
      BY <1>7, <2>1, <2>3
    <3>2. t.up[n] \in S /\ \E f \in Side : t.down[f][t.up[n]] = n
      BY <1>2, <3>1 DEF Links, UpLinked
    <3>3. t.up[n] # g
      BY <1>0, <1>1, <2>1, <3>2
    <3> QED
      BY <1>3, <3>1, <3>2, <3>3
  <2> QED
    BY <2>2, <2>3
<1>10. Balanced(u, S, bh2, Nil, Nil)
  <2>1. bh[g] = bh[p] /\ bh[g] = bh[uncle]
    BY <1>0, <1>1, <1>2, <1>5 DEF BlackHeight
  <2>2. \A n \in Link : n \notin {p, g, uncle} => BlackHeight(u, bh2, n) = BlackHeight(t, bh, n)
    BY <1>3, <1>6 DEF BlackHeight, Link
  <2>3. /\ BlackHeight(u, bh2, p) = bh[p] + 1 /\ BlackHeight(u, bh2, uncle) = bh[uncle] + 1
        /\ BlackHeight(u, bh2, g) = bh[g] + 1 /\ BlackHeight(t, bh, g) = bh[g] + 1
    BY <1>0, <1>1, <1>2, <1>3, <1>6 DEF BlackHeight
  <2>4. ASSUME NEW q \in S, NEW f \in Side PROVE bh2[q] = BlackHeight(u, bh2, u.down[f][q])
    <3>1. u.down[f][q] = t.down[f][q] /\ t.down[f][q] \in Link
      BY <1>2, <1>3 DEF Tree
    <3>2. bh[q] = BlackHeight(t, bh, t.down[f][q])
      BY <1>5
    <3>3. CASE q = g
      BY <1>0, <1>1, <1>6, <2>1, <2>3, <3>1, <3>3
    <3>4. CASE q # g
      <4>1. t.down[f][q] \notin {p, uncle}
        BY <1>0, <1>1, <1>2, <1>8, <3>4
      <4> QED
        BY <1>6, <2>2, <2>3, <3>1, <3>2, <3>4, <4>1
    <3> QED
      BY <3>3, <3>4
  <2> QED
    BY <1>3, <1>5, <1>6, <2>4, PlainBalanced
<1>11. Inserted(u, S, key, bh2, g)
  BY <1>0, <1>1, <1>3, <1>4, <1>9, <1>10 DEF Inserted
<1> QED
  BY <1>3, <1>11

(* One turn of the loop keeps the tree sorted, with red nodes under red    *)
(* ones at its new index only, two nodes up; or it is the last turn.       *)
LEMMA InsertTurnKeeps ==
  ASSUME NEW S \in SUBSET Slot, NEW key \in [Slot -> Int], NEW t, NEW bh, NEW s,
         Inserted(t, S, key, bh, s), s # t.root, Red(t, t.up[s]),
         NEW u, u = InsertTurn(t, s)[1], NEW v, v = InsertTurn(t, s)[2]
  PROVE  /\ \E bh2 : Inserted(u, S, key, bh2, v)
         /\ \/ u.up = t.up /\ v = t.up[t.up[s]] /\ t.up[s] \in S
            \/ ~Red(u, u.up[v])
<1> DEFINE p == t.up[s]
           g == t.up[p]
           d == IF t.down["left"][g] = p THEN "left" ELSE "right"
           uncle == t.down[Other(d)][g]
           inner == t.down[Other(d)][p] = s
           w == IF inner THEN Rotate(t, p, d) ELSE t
           s2 == IF inner THEN p ELSE s
           p2 == w.up[s2]
           g2 == w.up[p2]
<1>1. d \in Side /\ Line(t, S, d, s, p, g)
  BY Kin
<1>2. CASE Red(t, uncle)
  <2>1. u = Paint(Paint(Paint(t, p, "black"), uncle, "black"), g, "red") /\ v = g
    BY <1>2 DEF InsertTurn
  <2>2. u.up = t.up /\ \E bh2 : Inserted(u, S, key, bh2, g)
    <3> HIDE DEF p, g, d
    <3> QED
      BY <1>1, <1>2, <2>1, RecolorTurn
  <2>3. p \in S
    BY <1>1 DEF Line
  <2> QED
    BY <2>1, <2>2, <2>3
<1>3. CASE ~Red(t, uncle)
  <2>1. u = Rotate(Paint(Paint(w, p2, "black"), g2, "red"), g2, Other(d)) /\ v = s2
    BY <1>3 DEF InsertTurn
  <2>2. /\ Inserted(w, S, key, bh, s2) /\ Line(w, S, d, s2, p2, g)
        /\ w.down[d][p2] = s2 /\ ~Red(w, w.down[Other(d)][g]) /\ g2 = g
    <3>1. CASE inner
      <4>1. w = Rotate(t, p, d) /\ s2 = p
        BY <3>1
      <4>2. /\ Inserted(w, S, key, bh, p) /\ Line(w, S, d, p, s, g)
            /\ w.down[d][s] = p /\ w.down[Other(d)][g] = uncle /\ w.color = t.color
        <5> HIDE DEF p, g, d, w
        <5> QED
          BY <1>1, <3>1, <4>1, InnerTurn
      <4>3. p2 = s /\ g2 = g
        <5> HIDE DEF w
        <5> QED
          BY <4>1, <4>2 DEF Line
      <4> HIDE DEF w, p2, g2, s2, uncle, g, p
      <4> QED
        BY <1>3, <4>1, <4>2, <4>3 DEF Red
    <3>2. CASE ~inner
      <4>1. w = t /\ s2 = s /\ p2 = p /\ g2 = g
        BY <3>2
      <4>2. t.down[d][p] = s
        <5>1. s # t.root /\ s \in S /\ Links(t, S)
          BY DEF Inserted, Sorted
        <5>2. \E f \in Side : t.down[f][p] = s
          BY <5>1 DEF Links, UpLinked
        <5> HIDE DEF p, d
        <5> QED
          BY <1>1, <3>2, <5>2, Sides
      <4> QED
        BY <1>1, <1>3, <4>1, <4>2
    <3> QED
      BY <3>1, <3>2
  <2> HIDE DEF w, s2, p2, g2, g, d
  <2>3. Inserted(u, S, key, bh, s2) /\ u.up[s2] = p2 /\ u.color[p2] = "black"
    <3>1. u = Rotate(Paint(Paint(w, p2, "black"), g, "red"), g, Other(d))
      BY <2>1, <2>2
    <3> QED
      BY <1>1, <2>2, <3>1, OuterTurn
  <2> QED
    BY <2>1, <2>3 DEF Red
<1> QED
  BY <1>2, <1>3

-----------------------------------------------------------------------------
(* The fix-up of a removal.                                                *)

\* A tree without the slot that was removed: below a, on side g, where x is,
\* one black node is missing, and x counts as black.
Short(t, S, key, bh, x, a, g) ==
  /\ Sorted(t, S, key) /\ Balanced(t, S, bh, a, g) /\ Reds(t, S, x, x)
  /\ a \in S \cup {Nil}
  /\ IF a = Nil THEN x = t.root ELSE g \in Side /\ t.down[g][a] = x

\* What a rotation of s down to side d does: only s and its child c get other
\* children, and c takes the place of s.
Turned(t, S, s, d, c, u) ==
  LET inner == t.down[d][c]
  IN  /\ c \in S /\ c # s /\ c = t.down[Other(d)][s] /\ t.up[c] = s /\ t.up[s] \notin {s, c}
      /\ inner # Nil => inner \in S /\ inner \notin {s, c} /\ t.up[inner] = c
      /\ u.down[d][s] = t.down[d][s] /\ u.down[Other(d)][s] = inner
      /\ u.down[d][c] = s /\ u.down[Other(d)][c] = t.down[Other(d)][c]
      /\ \A q \in S, f \in Side : q \notin {s, c} =>
           u.down[f][q] = IF t.down[f][q] = s THEN c ELSE t.down[f][q]
      /\ \A n \in S : u.up[n] = IF n = s THEN c ELSE IF n = c THEN t.up[s]
                                ELSE IF n = inner THEN s ELSE t.up[n]
      /\ u.root = IF s = t.root THEN c ELSE t.root

\* u is t, painted as in w and then rotated at s, whose child c comes up.
Repainted(t, w, s, d, c, u) ==
  /\ w \in Tree /\ w.up = t.up /\ w.down = t.down /\ w.root = t.root
  /\ c = t.down[Other(d)][s] /\ c # Nil
  /\ u = Rotate(w, s, d)

(* A rotation after some nodes were painted.                               *)
LEMMA PaintedRotation ==
  ASSUME NEW S \in SUBSET Slot, NEW key \in [Slot -> Int], NEW t, Sorted(t, S, key),
         NEW s \in S, NEW d \in Side, NEW c, NEW u, NEW w, Repainted(t, w, s, d, c, u)
  PROVE  Sorted(u, S, key) /\ u.color = w.color /\ Turned(t, S, s, d, c, u)
<1> DEFINE e == Other(d)
           inner == t.down[d][c]
           top == t.up[s]
<1>0. /\ Nil \notin Slot /\ e \in Side /\ e # d /\ Other(e) = d
      /\ \A f \in Side : f = d \/ f = e
      /\ t \in Tree /\ Links(t, S) /\ Nil \notin S
  BY Sides DEF Sorted
<1>a. /\ w \in Tree /\ w.up = t.up /\ w.down = t.down /\ w.root = t.root
      /\ c = t.down[e][s] /\ c # Nil /\ u = Rotate(w, s, d)
  BY DEF Repainted
<1>1. Sorted(w, S, key)
  BY <1>a, SameSorted
<1>2. Rotated(w, s, d, u) /\ Apart(w, S, s, d) /\ Sorted(u, S, key)
  <2>1. w.down[Other(d)][s] # Nil
    BY <1>0, <1>a
  <2> QED
    BY <1>a, <1>1, <2>1, RotateSorted
<1>3. /\ u.color = w.color
      /\ u.root = IF top = Nil THEN c ELSE t.root
      /\ \A n \in Slot : u.up[n] = IF n = c THEN top ELSE IF n = s THEN c
                                   ELSE IF n = inner THEN s ELSE t.up[n]
      /\ \A f \in Side, n \in Slot :
           u.down[f][n] = IF n = s /\ f = e THEN inner ELSE IF n = c /\ f = d THEN s
                          ELSE IF n = top /\ t.down[f][n] = s THEN c ELSE t.down[f][n]
  BY <1>2, <1>a DEF Rotated
<1>4. /\ c \in S /\ c # s /\ t.up[c] = s /\ top # s /\ top # c
      /\ inner \notin {s, c, top} \/ inner = Nil
      /\ inner # Nil => inner \in S /\ t.up[inner] = c
      /\ s = t.root <=> top = Nil
      /\ top # Nil => top \in S
  BY <1>2, <1>a DEF Apart
<1>5. \A q \in S, f \in Side : t.down[f][q] # Nil =>
        t.down[f][q] \in S /\ t.up[t.down[f][q]] = q
  BY <1>0 DEF Links, DownLinked
<1>6. top = t.up[s] /\ inner = t.down[d][c]
  OBVIOUS
<1> HIDE DEF e, inner, top
<1>7. \A q \in S, f \in Side : q \notin {s, c} =>
        u.down[f][q] = IF t.down[f][q] = s THEN c ELSE t.down[f][q]
  BY <1>0, <1>3, <1>5, <1>6
<1>8. /\ u.down[d][s] = t.down[d][s] /\ u.down[e][s] = inner
      /\ u.down[d][c] = s /\ u.down[e][c] = t.down[e][c]
  <2>1. t.down[e][c] # s
    BY <1>0, <1>4, <1>5, <1>6
  <2>2. s \in Slot /\ c \in Slot /\ s # top /\ c # top
    BY <1>4
  <2> QED
    BY <1>0, <1>3, <1>4, <2>1, <2>2
<1>9. \A n \in S : u.up[n] = IF n = s THEN c ELSE IF n = c THEN t.up[s]
                              ELSE IF n = inner THEN s ELSE t.up[n]
  BY <1>0, <1>3, <1>4, <1>6
<1>10. u.root = IF s = t.root THEN c ELSE t.root
  BY <1>3, <1>4
<1> QED
  BY <1>a, <1>2, <1>3, <1>4, <1>7, <1>8, <1>9, <1>10 DEF e, inner, top, Turned

\* Only s, its children and those of c were painted, and c has the black
\* height that s had.
Nearby(t, S, s, c, bh, u, bh2) ==
  /\ \A n \in S : n \notin {s, c} => bh2[n] = bh[n]
  /\ \A n \in S : u.color[n] = t.color[n] \/ t.up[n] \in {s, c} \/ n = s
  /\ BlackHeight(u, bh2, c) = BlackHeight(t, bh, s)

\* The black heights below the other nodes stay.
Elsewhere(t, S, s, c, bh, u, bh2) ==
  \A q \in S, f \in Side : q \notin {s, c} =>
    /\ BlackHeight(u, bh2, u.down[f][q]) = BlackHeight(t, bh, t.down[f][q])
    /\ bh2[q] = bh[q]

(* They do, when nothing was painted but nearby.                           *)
LEMMA TurnedHeights ==
  ASSUME NEW S \in SUBSET Slot, NEW t \in Tree, Links(t, S), NEW s \in S, NEW d \in Side,
         NEW c, NEW u, Turned(t, S, s, d, c, u), NEW bh, NEW bh2,
         Nearby(t, S, s, c, bh, u, bh2)
  PROVE  Elsewhere(t, S, s, c, bh, u, bh2)
<1>0. /\ \A n \in S : n \notin {s, c} => bh2[n] = bh[n]
      /\ \A n \in S : u.color[n] = t.color[n] \/ t.up[n] \in {s, c} \/ n = s
      /\ BlackHeight(u, bh2, c) = BlackHeight(t, bh, s)
  BY DEF Nearby
<1> SUFFICES ASSUME NEW q \in S, NEW f \in Side, q \notin {s, c}
             PROVE  /\ BlackHeight(u, bh2, u.down[f][q]) = BlackHeight(t, bh, t.down[f][q])
                    /\ bh2[q] = bh[q]
  BY DEF Elsewhere
<1> DEFINE n == t.down[f][q]
<1>1. u.down[f][q] = IF n = s THEN c ELSE n
  BY DEF Turned
<1>2. n # Nil => n \in S /\ t.up[n] = q
  BY DEF Links, DownLinked
<1>3. t.up[c] = s
  BY DEF Turned
<1> HIDE DEF n
<1>4. CASE n = s
  BY <1>0, <1>1, <1>4 DEF n
<1>5. CASE n = Nil
  BY <1>0, <1>1, <1>5, Sides DEF n, BlackHeight
<1>6. CASE n \notin {s, Nil}
  <2>1. u.color[n] = t.color[n] /\ bh2[n] = bh[n]
    BY <1>0, <1>2, <1>3, <1>6
  <2>2. BlackHeight(u, bh2, n) = BlackHeight(t, bh, n)
    BY <2>1 DEF BlackHeight
  <2> QED
    BY <1>0, <1>1, <1>6, <2>2 DEF n
<1> QED
  BY <1>4, <1>5, <1>6

(* And no red node has a red parent, if none of those was made red.        *)
LEMMA TurnedReds ==
  ASSUME NEW S \in SUBSET Slot, NEW t \in Tree, Links(t, S), NEW s \in S, NEW d \in Side,
         NEW c, NEW u, Turned(t, S, s, d, c, u), Reds(t, S, Nil, Nil),
         \A n \in S : n \notin {s, c} /\ u.color[n] = "red" => t.color[n] = "red",
         u.color[c] = "red" => /\ t.color[s] = "red" /\ u.color[s] # "red"
                               /\ ~Red(u, t.down[Other(d)][c]),
         u.color[s] = "red" => ~Red(u, t.down[d][c]) /\ ~Red(u, t.down[d][s])
  PROVE  Reds(u, S, Nil, Nil)
<1> DEFINE e == Other(d)
           inner == t.down[d][c]
<1>0. /\ Nil \notin S /\ e \in Side /\ \A f \in Side : f = d \/ f = e
  BY Sides
<1>1. /\ c \in S /\ c # s /\ c = t.down[e][s] /\ t.up[c] = s /\ t.up[s] \notin {s, c}
      /\ inner # Nil => inner \in S /\ inner \notin {s, c} /\ t.up[inner] = c
      /\ \A n \in S : u.up[n] = IF n = s THEN c ELSE IF n = c THEN t.up[s]
                                ELSE IF n = inner THEN s ELSE t.up[n]
      /\ u.root = IF s = t.root THEN c ELSE t.root
  BY DEF Turned
<1>2. \A n \in S : t.color[n] = "red" => n # t.root /\ t.color[t.up[n]] # "red"
  <2> TAKE n \in S
  <2> HAVE t.color[n] = "red"
  <2>1. n # t.root /\ (t.color[t.up[n]] = "red" => t.up[n] = Nil)
    BY <1>0 DEF Reds
  <2>2. t.up[n] \in S
    BY <2>1 DEF Links, UpLinked
  <2> QED
    BY <1>0, <2>1, <2>2
<1>3. \A n \in S : n # t.root => t.up[n] \in S /\ \E f \in Side : t.down[f][t.up[n]] = n
  BY DEF Links, UpLinked
<1>4. c # t.root /\ (inner # t.root \/ inner = Nil)
  BY <1>0, <1>1 DEF Links, UpLinked
<1>5. c # t.root
  BY <1>0, <1>1 DEF Links, UpLinked
<1>6. SUFFICES ASSUME NEW n \in S, u.color[n] = "red"
               PROVE  n # u.root /\ u.color[u.up[n]] # "red"
  BY DEF Reds
<1> HIDE DEF e, inner
<1>7. CASE n = s
  BY <1>1, <1>6, <1>7
<1>8. CASE n = c
  <2>1. s # t.root /\ t.color[t.up[s]] # "red" /\ t.up[s] \in S
    BY <1>2, <1>3, <1>6, <1>8
  <2> QED
    BY <1>1, <1>5, <1>8, <2>1
<1>9. CASE n = inner
  BY <1>0, <1>1, <1>4, <1>6, <1>9 DEF Red, inner
<1>10. CASE n \notin {s, c, inner}
  <2>1. t.color[n] = "red" /\ n # t.root /\ t.color[t.up[n]] # "red" /\ t.up[n] \in S
    BY <1>2, <1>3, <1>6, <1>10
  <2>2. u.up[n] = t.up[n] /\ n # u.root
    BY <1>1, <1>10, <2>1
  <2>3. PICK f \in Side : t.down[f][t.up[n]] = n
    BY <1>3, <2>1
  <2>4. t.up[n] = s => n = t.down[d][s]
    BY <1>0, <1>1, <1>10, <2>3
  <2>5. t.up[n] = c => n = t.down[e][c]
    BY <1>0, <1>1, <1>10, <2>3 DEF inner
  <2>6. t.up[n] = s => u.color[s] # "red"
    BY <1>0, <1>6, <2>4 DEF Red
  <2>7. t.up[n] = c => u.color[c] # "red"
    BY <1>0, <1>6, <2>5 DEF Red, e
  <2> QED
    BY <2>1, <2>2, <2>6, <2>7
<1> QED
  BY <1>7, <1>8, <1>9, <1>10

\* What the loop finds when it has not ended: the node p on whose side d the
\* black node is missing has a child sib on the other side.
Missing(t, S, key, bh, x, p, d, sib) ==
  /\ t \in Tree /\ Sorted(t, S, key) /\ Links(t, S) /\ Reds(t, S, Nil, Nil) /\ ~Red(t, x)
  /\ p \in S /\ sib \in S /\ sib # p /\ sib # x /\ x # p
  /\ t.down[d][p] = x /\ t.down[Other(d)][p] = sib /\ t.up[sib] = p
  /\ x # Nil => x \in S /\ t.up[x] = p
  /\ bh \in [Slot -> Nat] /\ bh[p] = BlackHeight(t, bh, sib) /\ bh[p] = BlackHeight(t, bh, x) + 1
  /\ \A q \in S, f \in Side : q # p \/ f # d => bh[q] = BlackHeight(t, bh, t.down[f][q])

(* It finds one.                                                           *)
LEMMA Sibling ==
  ASSUME NEW S \in SUBSET Slot, NEW key \in [Slot -> Int], NEW t, NEW bh, NEW x,
         NEW p \in S, NEW d, Short(t, S, key, bh, x, p, d), ~Red(t, x)
  PROVE  d \in Side /\ Missing(t, S, key, bh, x, p, d, t.down[Other(d)][p])
<1> DEFINE sib == t.down[Other(d)][p]
<1>0. /\ Nil \notin S /\ t \in Tree /\ Sorted(t, S, key) /\ Links(t, S) /\ bh \in [Slot -> Nat]
      /\ d \in Side /\ t.down[d][p] = x
  BY Sides DEF Short, Sorted, Balanced
<1>1. Other(d) \in Side /\ Other(d) # d
  BY <1>0, Sides
<1>2. \A n \in Link : BlackHeight(t, bh, n) \in Nat
  BY <1>0, PlainBalanced
<1>3. \A q \in S, f \in Side : t.down[f][q] \in Link
  BY <1>0 DEF Tree
<1>4. bh[p] = BlackHeight(t, bh, x) + 1 /\ BlackHeight(t, bh, x) \in Nat
  <2>1. bh[p] = BlackHeight(t, bh, t.down[d][p]) + (IF p = p /\ d = d THEN 1 ELSE 0)
    BY <1>0 DEF Short, Balanced
  <2> QED
    BY <1>0, <1>2, <1>3, <2>1
<1>5. ASSUME NEW q \in S, NEW f \in Side, q # p \/ f # d
      PROVE  bh[q] = BlackHeight(t, bh, t.down[f][q])
  <2>1. bh[q] = BlackHeight(t, bh, t.down[f][q]) + (IF q = p /\ f = d THEN 1 ELSE 0)
    BY DEF Short, Balanced
  <2>2. BlackHeight(t, bh, t.down[f][q]) \in Nat
    BY <1>2, <1>3
  <2> QED
    BY <1>5, <2>1, <2>2
<1>6. bh[p] = BlackHeight(t, bh, sib)
  BY <1>1, <1>5
<1>7. sib # Nil
  <2>1. BlackHeight(t, bh, Nil) = 0
    BY DEF BlackHeight
  <2> HIDE DEF sib
  <2> QED
    BY <1>4, <1>6, <2>1
<1>8. PICK lo, hi : Ordered(t, S, key, lo, hi)
  BY <1>0 DEF Sorted
<1>9. sib \in S /\ t.up[sib] = p /\ sib # p /\ t.down[Other(Other(d))][p] # sib
  BY <1>0, <1>1, <1>7, <1>8, Narrower
<1>10. sib # x
  BY <1>0, <1>9, Sides
<1>11. x # Nil => x \in S /\ t.up[x] = p /\ x # p
  BY <1>0, <1>8, Narrower
<1>12. Reds(t, S, Nil, Nil)
  <2> SUFFICES ASSUME NEW n \in S, t.color[n] = "red"
               PROVE  n # t.root /\ t.color[t.up[n]] # "red"
    BY DEF Reds
  <2>1. n # x
    BY <1>0 DEF Red
  <2>2. n # t.root /\ (t.color[t.up[n]] = "red" => t.up[n] = x)
    BY <2>1 DEF Short, Reds
  <2>3. t.up[n] \in S
    BY <1>0, <2>2 DEF Links, UpLinked
  <2> QED
    BY <1>0, <2>2, <2>3 DEF Red
<1> QED
  BY <1>0, <1>4, <1>5, <1>6, <1>9, <1>10, <1>11, <1>12 DEF Missing

\* The first part of a turn with a red sibling
RedStep(t, d, p, sib, u) ==
  /\ Red(t, sib)
  /\ u = Rotate(Paint(Paint(t, sib, "black"), p, "red"), p, d)

(* A red sibling is rotated up: the new sibling is black.                  *)
LEMMA RedSibling ==
  ASSUME NEW S \in SUBSET Slot, NEW key \in [Slot -> Int], NEW t, NEW bh, NEW x, NEW p,
         NEW d \in Side, NEW sib, Missing(t, S, key, bh, x, p, d, sib),
         NEW u, RedStep(t, d, p, sib, u)
  PROVE  /\ Missing(u, S, key, bh, x, p, d, u.down[Other(d)][p])
         /\ ~Red(u, u.down[Other(d)][p]) /\ u.color[p] = "red"
<1> DEFINE e == Other(d)
           near == t.down[d][sib]
           far == t.down[e][sib]
           v == Paint(t, sib, "black")
           w == Paint(v, p, "red")
<1>0. /\ Nil \notin S /\ e \in Side /\ e # d /\ \A f \in Side : f = d \/ f = e
      /\ "red" \in Color /\ "black" \in Color /\ "red" # "black" /\ S \subseteq Link
  BY Sides DEF Color, Link
<1>1. /\ t \in Tree /\ Sorted(t, S, key) /\ Links(t, S) /\ Reds(t, S, Nil, Nil) /\ ~Red(t, x)
      /\ p \in S /\ sib \in S /\ sib # p /\ sib # x /\ x # p
      /\ t.down[d][p] = x /\ t.down[e][p] = sib /\ t.up[sib] = p
      /\ x # Nil => x \in S /\ t.up[x] = p
      /\ bh \in [Slot -> Nat] /\ bh[p] = BlackHeight(t, bh, sib)
      /\ bh[p] = BlackHeight(t, bh, x) + 1
      /\ \A q \in S, f \in Side : q # p \/ f # d => bh[q] = BlackHeight(t, bh, t.down[f][q])
  BY DEF Missing
<1>2. Painted(t, sib, "black", v) /\ Painted(v, p, "red", w)
  <2>1. Painted(t, sib, "black", v)
    BY <1>0, <1>1, Paints
  <2>2. v \in Tree
    BY <2>1 DEF Painted
  <2> QED
    BY <1>0, <1>1, <2>1, <2>2, Paints
<1>3. u = Rotate(w, p, d)
  BY DEF RedStep
<1> HIDE DEF v, w
<1>4. /\ w \in Tree /\ w.up = t.up /\ w.down = t.down /\ w.root = t.root
      /\ \A n \in Slot : w.color[n] = IF n = p THEN "red" ELSE IF n = sib THEN "black" ELSE t.color[n]
  BY <1>2 DEF Painted
<1>5. Sorted(u, S, key) /\ u.color = w.color /\ Turned(t, S, p, d, sib, u)
  <2>1. Repainted(t, w, p, d, sib, u)
    BY <1>0, <1>1, <1>3, <1>4 DEF Repainted
  <2>2. p \in S /\ Sorted(t, S, key)
    BY <1>1
  <2> QED
    BY <2>1, <2>2, PaintedRotation
<1>7. /\ t.color[sib] = "red" /\ t.color[p] = "black"
      /\ \A n \in S : t.color[n] = "red" => n # t.root /\ t.color[t.up[n]] # "red"
  <2>1. \A n \in S : t.color[n] = "red" => n # t.root /\ t.color[t.up[n]] # "red"
    <3> TAKE n \in S
    <3> HAVE t.color[n] = "red"
    <3>1. n # t.root /\ (t.color[t.up[n]] = "red" => t.up[n] = Nil)
      BY <1>0, <1>1 DEF Reds
    <3>2. t.up[n] \in S
      BY <1>1, <3>1 DEF Links, UpLinked
    <3> QED
      BY <1>0, <3>1, <3>2
  <2>2. t.color[sib] = "red"
    BY DEF Red, RedStep
  <2>3. t.color[p] # "red"
    BY <1>1, <2>1, <2>2
  <2> QED
    BY <1>1, <2>1, <2>2, <2>3 DEF Tree, Color
<1>8. /\ near # Nil /\ near \in S /\ t.color[near] = "black" /\ t.up[near] = sib
      /\ near \notin {sib, p, x}
      /\ far # Nil => far \in S /\ t.color[far] = "black" /\ far # p /\ far # sib
  <2>1. bh[sib] = BlackHeight(t, bh, near) /\ bh[p] = bh[sib] /\ bh[p] # 0
    <3>1. BlackHeight(t, bh, x) \in Nat
      <4>1. x \in Link
        BY <1>1, <1>0 DEF Link
      <4> QED
        BY <1>1, <4>1, PlainBalanced
    <3>2. bh[sib] = BlackHeight(t, bh, near)
      BY <1>1
    <3>3. BlackHeight(t, bh, sib) = bh[sib]
      BY <1>0, <1>1, <1>7 DEF BlackHeight
    <3>4. bh[p] = BlackHeight(t, bh, sib) /\ bh[p] = BlackHeight(t, bh, x) + 1
      BY <1>1
    <3> QED
      BY <3>1, <3>2, <3>3, <3>4
  <2>2. near # Nil
    BY <2>1 DEF BlackHeight
  <2>3. \A n \in S, f \in Side : t.down[f][n] # Nil => t.down[f][n] \in S /\ t.up[t.down[f][n]] = n
    BY <1>1 DEF Links, DownLinked
  <2>4. near \in S /\ t.up[near] = sib /\ (far # Nil => far \in S /\ t.up[far] = sib)
    BY <1>0, <1>1, <2>2, <2>3
  <2>5. t.color[near] # "red" /\ (far # Nil => t.color[far] # "red")
    BY <1>7, <2>4
  <2>6. t.up[p] \notin {p, sib}
    BY <1>5 DEF Turned
  <2> QED
    BY <1>0, <1>1, <2>2, <2>4, <2>5, <2>6 DEF Tree, Color
<1>9. near = t.down[d][sib] /\ far = t.down[e][sib]
  OBVIOUS
<1>10. /\ u.down[d][p] = x /\ u.down[e][p] = near /\ u.down[d][sib] = p /\ u.down[e][sib] = far
       /\ u.up[near] = p /\ (x # Nil => u.up[x] = p)
  BY <1>0, <1>1, <1>5, <1>8 DEF Turned
<1> HIDE DEF near, far, e
<1>11. Reds(u, S, Nil, Nil)
  <2>1. \A n \in S : n \notin {p, sib} /\ u.color[n] = "red" => t.color[n] = "red"
    BY <1>4, <1>5
  <2>2. u.color[sib] # "red" /\ ~Red(u, near) /\ ~Red(u, x)
    BY <1>0, <1>1, <1>4, <1>5, <1>8 DEF Red
  <2> QED
    BY <1>1, <1>5, <1>9, <2>1, <2>2, TurnedReds
<1>12. /\ BlackHeight(u, bh, sib) = bh[sib] + 1 /\ BlackHeight(u, bh, p) = bh[p]
       /\ BlackHeight(u, bh, near) = BlackHeight(t, bh, near)
       /\ BlackHeight(u, bh, far) = BlackHeight(t, bh, far)
       /\ BlackHeight(u, bh, x) = BlackHeight(t, bh, x)
       /\ BlackHeight(t, bh, p) = bh[p] + 1 /\ BlackHeight(t, bh, sib) = bh[sib]
  BY <1>0, <1>1, <1>4, <1>5, <1>7, <1>8 DEF BlackHeight
<1>13. ASSUME NEW q \in S, NEW f \in Side, q # p \/ f # d
       PROVE  bh[q] = BlackHeight(u, bh, u.down[f][q])
  <2>1. bh[sib] = BlackHeight(t, bh, near) /\ bh[sib] = BlackHeight(t, bh, far) /\ bh[p] = bh[sib]
    BY <1>0, <1>1, <1>9, <1>12
  <2>2. CASE q = p
    BY <1>0, <1>10, <1>12, <1>13, <2>1, <2>2
  <2>3. CASE q = sib
    BY <1>0, <1>10, <1>12, <2>1, <2>3
  <2>4. CASE q \notin {p, sib}
    <3>1. \A n \in S : u.color[n] = t.color[n] \/ t.up[n] \in {p, sib} \/ n = p
      BY <1>1, <1>4, <1>5
    <3>2. BlackHeight(u, bh, sib) = BlackHeight(t, bh, p)
      BY <1>12, <2>1
    <3>3. Nearby(t, S, p, sib, bh, u, bh)
      BY <3>1, <3>2 DEF Nearby
    <3>4. p \in S /\ t \in Tree /\ Links(t, S) /\ Turned(t, S, p, d, sib, u)
      BY <1>1, <1>5
    <3>5. Elsewhere(t, S, p, sib, bh, u, bh)
      BY <3>3, <3>4, TurnedHeights
    <3> QED
      BY <1>1, <2>4, <3>5 DEF Elsewhere
  <2> QED
    BY <2>2, <2>3, <2>4
<1>14. /\ u \in Tree /\ Links(u, S) /\ ~Red(u, x) /\ ~Red(u, near) /\ u.color[p] = "red"
  BY <1>0, <1>1, <1>4, <1>5, <1>8 DEF Red, Sorted
<1>15. bh[p] = BlackHeight(u, bh, near) /\ bh[p] = BlackHeight(u, bh, x) + 1
  BY <1>0, <1>1, <1>10, <1>12, <1>13
<1>16. Missing(u, S, key, bh, x, p, d, near)
  BY <1>0, <1>1, <1>5, <1>8, <1>10, <1>11, <1>13, <1>14, <1>15 DEF Missing, e
<1> QED
  BY <1>10, <1>14, <1>16 DEF e

(* The reds of a whole tree, node by node.                                 *)
LEMMA NoRedPair ==
  ASSUME NEW S \in SUBSET Slot, NEW t, Links(t, S), Reds(t, S, Nil, Nil)
  PROVE  \A n \in S : t.color[n] = "red" =>
           n # t.root /\ t.up[n] \in S /\ t.color[t.up[n]] # "red"
<1> TAKE n \in S
<1> HAVE t.color[n] = "red"
<1>1. n # t.root /\ (t.color[t.up[n]] = "red" => t.up[n] = Nil) /\ Nil \notin S
  BY Sides DEF Reds
<1>2. t.up[n] \in S
  BY <1>1 DEF Links, UpLinked
<1> QED
  BY <1>1, <1>2

(* The children of a node have it as their parent.                         *)
LEMMA Children ==
  ASSUME NEW S \in SUBSET Slot, NEW t, Links(t, S)
  PROVE  \A n \in S, f \in Side : t.down[f][n] # Nil => t.down[f][n] \in S /\ t.up[t.down[f][n]] = n
BY DEF Links, DownLinked

\* The turn with a red near nephew, up to the last rotation
NearStep(t, d, sib, near, u) ==
  /\ near = t.down[d][sib] /\ Red(t, near) /\ ~Red(t, t.down[Other(d)][sib])
  /\ u = Rotate(Paint(Paint(t, near, "black"), sib, "red"), sib, Other(d))

(* The near nephew is rotated up: then the far one is red.                 *)
LEMMA NearTurn ==
  ASSUME NEW S \in SUBSET Slot, NEW key \in [Slot -> Int], NEW t, NEW bh, NEW x, NEW p,
         NEW d \in Side, NEW sib, Missing(t, S, key, bh, x, p, d, sib), ~Red(t, sib),
         NEW near, NEW u, NearStep(t, d, sib, near, u)
  PROVE  /\ Missing(u, S, key, bh, x, p, d, near) /\ ~Red(u, near)
         /\ u.down[Other(d)][near] = sib /\ Red(u, sib)
<1> DEFINE e == Other(d)
           inner == t.down[e][near]
           far == t.down[e][sib]
           v == Paint(t, near, "black")
           w == Paint(v, sib, "red")
<1>0. /\ Nil \notin S /\ e \in Side /\ e # d /\ Other(e) = d /\ \A f \in Side : f = d \/ f = e
      /\ "red" \in Color /\ "black" \in Color /\ "red" # "black" /\ S \subseteq Link
  BY Sides DEF Color, Link
<1>1. /\ t \in Tree /\ Sorted(t, S, key) /\ Links(t, S) /\ Reds(t, S, Nil, Nil) /\ ~Red(t, x)
      /\ p \in S /\ sib \in S /\ sib # p /\ sib # x /\ x # p
      /\ t.down[d][p] = x /\ t.down[e][p] = sib /\ t.up[sib] = p
      /\ x # Nil => x \in S /\ t.up[x] = p
      /\ bh \in [Slot -> Nat] /\ bh[p] = BlackHeight(t, bh, sib)
      /\ bh[p] = BlackHeight(t, bh, x) + 1
      /\ \A q \in S, f \in Side : q # p \/ f # d => bh[q] = BlackHeight(t, bh, t.down[f][q])
  BY DEF Missing
<1>2. near # Nil /\ t.color[near] = "red" /\ near \in S /\ t.up[near] = sib /\ near # x
  <2>1. near # Nil /\ t.color[near] = "red" /\ near = t.down[d][sib]
    BY DEF Red, NearStep
  <2> QED
    BY <1>0, <1>1, <2>1, Children
<1>3. Painted(t, near, "black", v) /\ Painted(v, sib, "red", w)
  <2>1. Painted(t, near, "black", v)
    BY <1>0, <1>1, <1>2, Paints
  <2>2. v \in Tree
    BY <2>1 DEF Painted
  <2> QED
    BY <1>0, <1>1, <2>1, <2>2, Paints
<1>4. u = Rotate(w, sib, e)
  BY DEF NearStep
<1> HIDE DEF v, w, e
<1>5. /\ w \in Tree /\ w.up = t.up /\ w.down = t.down /\ w.root = t.root
      /\ \A n \in Slot : w.color[n] = IF n = sib THEN "red" ELSE IF n = near THEN "black" ELSE t.color[n]
  BY <1>3 DEF Painted
<1>6. Sorted(u, S, key) /\ u.color = w.color /\ Turned(t, S, sib, e, near, u)
  <2>1. e \in Side /\ sib \in S /\ Sorted(t, S, key)
    BY <1>0, <1>1
  <2>2. Repainted(t, w, sib, e, near, u)
    BY <1>0, <1>2, <1>4, <1>5 DEF Repainted, NearStep
  <2> QED
    BY <2>1, <2>2, PaintedRotation
<1>7. /\ near # sib /\ near # p
      /\ inner # Nil => inner \in S /\ inner \notin {sib, near} /\ t.up[inner] = near
      /\ u.down[e][sib] = far /\ u.down[d][sib] = inner
      /\ u.down[e][near] = sib /\ u.down[d][near] = t.down[d][near]
      /\ \A q \in S, f \in Side : q \notin {sib, near} =>
           u.down[f][q] = IF t.down[f][q] = sib THEN near ELSE t.down[f][q]
      /\ \A n \in S : u.up[n] = IF n = sib THEN near ELSE IF n = near THEN p
                                ELSE IF n = inner THEN sib ELSE t.up[n]
  BY <1>0, <1>1, <1>6 DEF Turned
<1>8. \A n \in S : t.color[n] = "red" => n # t.root /\ t.up[n] \in S /\ t.color[t.up[n]] # "red"
  BY <1>1, NoRedPair
<1>9. t.color[sib] = "black"
  BY <1>0, <1>1 DEF Red, Tree, Color
<1>10. inner = t.down[e][near] /\ far = t.down[e][sib] /\ near = t.down[d][sib] /\ ~Red(t, far)
  BY DEF NearStep, e
<1> HIDE DEF inner, far, e
<1>11. /\ inner # Nil => t.color[inner] # "red"
       /\ far # Nil => far \in S /\ t.up[far] = sib /\ t.color[far] # "red" /\ far # near
  <2>1. inner # Nil => t.color[inner] # "red"
    BY <1>2, <1>7, <1>8
  <2>2. far # Nil => far \in S /\ t.up[far] = sib
    BY <1>0, <1>1, <1>10, Children
  <2> QED
    BY <1>2, <1>10, <2>1, <2>2 DEF Red
<1>12. Reds(u, S, Nil, Nil)
  <2>1. \A n \in S : n \notin {sib, near} /\ u.color[n] = "red" => t.color[n] = "red"
    BY <1>5, <1>6
  <2>2. u.color[near] # "red" /\ ~Red(u, inner) /\ ~Red(u, far)
    BY <1>0, <1>1, <1>2, <1>5, <1>6, <1>7, <1>11 DEF Red
  <2> QED
    BY <1>0, <1>1, <1>6, <1>10, <2>1, <2>2, TurnedReds
<1>13. /\ BlackHeight(u, bh, near) = bh[near] + 1 /\ BlackHeight(u, bh, sib) = bh[sib]
       /\ BlackHeight(t, bh, near) = bh[near] /\ BlackHeight(t, bh, sib) = bh[sib] + 1
       /\ BlackHeight(u, bh, inner) = BlackHeight(t, bh, inner)
       /\ BlackHeight(u, bh, far) = BlackHeight(t, bh, far)
       /\ BlackHeight(u, bh, x) = BlackHeight(t, bh, x)
  BY <1>0, <1>1, <1>2, <1>5, <1>6, <1>7, <1>9, <1>11 DEF BlackHeight
<1>14. /\ bh[near] = bh[sib] /\ bh[sib] = BlackHeight(t, bh, inner)
       /\ bh[sib] = BlackHeight(t, bh, far)
       /\ bh[near] = BlackHeight(t, bh, t.down[d][near])
  <2>1. bh[sib] = BlackHeight(t, bh, near) /\ bh[sib] = BlackHeight(t, bh, far)
    BY <1>0, <1>1, <1>10
  <2>2. bh[near] = BlackHeight(t, bh, inner) /\ bh[near] = BlackHeight(t, bh, t.down[d][near])
    BY <1>0, <1>1, <1>2, <1>7, <1>10
  <2> QED
    BY <1>13, <2>1, <2>2
<1>15. Elsewhere(t, S, sib, near, bh, u, bh)
  <2>1. \A n \in S : u.color[n] = t.color[n] \/ t.up[n] \in {sib, near} \/ n = sib
    BY <1>2, <1>5, <1>6
  <2>2. Nearby(t, S, sib, near, bh, u, bh)
    BY <1>13, <1>14, <2>1 DEF Nearby
  <2>3. sib \in S /\ t \in Tree /\ Links(t, S) /\ Turned(t, S, sib, e, near, u)
    BY <1>1, <1>6
  <2> QED
    BY <1>0, <2>2, <2>3, TurnedHeights
<1>16. ASSUME NEW q \in S, NEW f \in Side, q # p \/ f # d
       PROVE  bh[q] = BlackHeight(u, bh, u.down[f][q])
  <2>1. CASE q = sib
    BY <1>0, <1>7, <1>13, <1>14, <2>1
  <2>2. CASE q = near
    <3>1. f = e => bh[q] = BlackHeight(u, bh, u.down[f][q])
      BY <1>0, <1>7, <1>13, <1>14, <2>2
    <3>2. t.down[d][near] # Nil => t.down[d][near] \in S /\ t.up[t.down[d][near]] = near
      BY <1>1, <1>2, Children
    <3>3. t.up[sib] = p /\ t.up[near] = sib /\ near # p /\ near # sib
      BY <1>1, <1>2, <1>7
    <3>4. BlackHeight(u, bh, t.down[d][near]) = BlackHeight(t, bh, t.down[d][near])
      BY <1>0, <1>5, <1>6, <3>2, <3>3 DEF BlackHeight
    <3>5. f = d => bh[q] = BlackHeight(u, bh, u.down[f][q])
      BY <1>7, <1>14, <2>2, <3>4
    <3> QED
      BY <1>0, <3>1, <3>5
  <2>3. CASE q \notin {sib, near}
    BY <1>1, <1>15, <1>16, <2>3 DEF Elsewhere
  <2> QED
    BY <2>1, <2>2, <2>3
<1>17. /\ u \in Tree /\ Links(u, S) /\ ~Red(u, x) /\ ~Red(u, near) /\ Red(u, sib)
  BY <1>0, <1>1, <1>2, <1>5, <1>6, <1>7 DEF Red, Sorted
<1>18. /\ u.down[d][p] = x /\ u.down[e][p] = near /\ u.up[near] = p
       /\ x # Nil => u.up[x] = p
  <2>1. x # inner \/ x = Nil
    BY <1>1, <1>7
  <2> QED
    BY <1>0, <1>1, <1>2, <1>7, <2>1
<1>19. bh[p] = BlackHeight(u, bh, near) /\ bh[p] = BlackHeight(u, bh, x) + 1
  BY <1>0, <1>1, <1>13, <1>16, <1>18
<1>20. Missing(u, S, key, bh, x, p, d, near)
  BY <1>0, <1>1, <1>2, <1>6, <1>7, <1>12, <1>16, <1>17, <1>18, <1>19 DEF Missing, e
<1> QED
  BY <1>7, <1>17, <1>20 DEF e

(* A tree without red nodes under red ones has none apart from x either.   *)
LEMMA WeakerReds ==
  ASSUME NEW S \in SUBSET Slot, NEW t, Links(t, S), Reds(t, S, Nil, Nil)
  PROVE  \A x : Reds(t, S, x, x)
BY NoRedPair DEF Reds

\* The last part of a turn, with a red far nephew
FarStep(t, d, p, sib, u) ==
  /\ Red(t, t.down[Other(d)][sib])
  /\ u = Rotate(Paint(Paint(Paint(t, sib, t.color[p]), p, "black"),
                      t.down[Other(d)][sib], "black"), p, d)

(* It restores the balance: the sibling takes the place of p, and p and    *)
(* the nephew are black below it.                                          *)
LEMMA FarTurn ==
  ASSUME NEW S \in SUBSET Slot, NEW key \in [Slot -> Int], NEW t, NEW bh, NEW x, NEW p,
         NEW d \in Side, NEW sib, Missing(t, S, key, bh, x, p, d, sib), ~Red(t, sib),
         NEW u, FarStep(t, d, p, sib, u)
  PROVE  \E bh2 : Short(u, S, key, bh2, u.root, Nil, Nil)
<1> DEFINE e == Other(d)
           near == t.down[d][sib]
           far == t.down[e][sib]
           v1 == Paint(t, sib, t.color[p])
           v2 == Paint(v1, p, "black")
           w == Paint(v2, far, "black")
           bh2 == [bh EXCEPT ![p] = bh[sib], ![sib] = bh[p]]
<1>0. /\ Nil \notin S /\ e \in Side /\ e # d /\ \A f \in Side : f = d \/ f = e
      /\ "red" \in Color /\ "black" \in Color /\ "red" # "black" /\ S \subseteq Link
  BY Sides DEF Color, Link
<1>1. /\ t \in Tree /\ Sorted(t, S, key) /\ Links(t, S) /\ Reds(t, S, Nil, Nil) /\ ~Red(t, x)
      /\ p \in S /\ sib \in S /\ sib # p /\ sib # x /\ x # p
      /\ t.down[d][p] = x /\ t.down[e][p] = sib /\ t.up[sib] = p
      /\ x # Nil => x \in S /\ t.up[x] = p
      /\ bh \in [Slot -> Nat] /\ bh[p] = BlackHeight(t, bh, sib)
      /\ bh[p] = BlackHeight(t, bh, x) + 1
      /\ \A q \in S, f \in Side : q # p \/ f # d => bh[q] = BlackHeight(t, bh, t.down[f][q])
  BY DEF Missing
<1>2. /\ far # Nil /\ far \in S /\ t.color[far] = "red" /\ t.up[far] = sib /\ far # sib
      /\ t.color[p] \in Color /\ t.color[sib] = "black"
  <2>1. far # Nil /\ t.color[far] = "red"
    BY DEF FarStep, Red
  <2>2. far \in S /\ t.up[far] = sib
    BY <1>0, <1>1, <2>1, Children
  <2>3. t.color[p] \in Color
    BY <1>1 DEF Tree
  <2>4. t.color[sib] = "black"
    BY <1>0, <1>1 DEF Tree, Color, Red
  <2> QED
    BY <1>0, <1>1, <2>1, <2>2, <2>3, <2>4
<1>3. Painted(t, sib, t.color[p], v1) /\ Painted(v1, p, "black", v2) /\ Painted(v2, far, "black", w)
  <2>1. p \in Link /\ sib \in Link /\ far \in Link
    BY <1>0, <1>1, <1>2
  <2>2. Painted(t, sib, t.color[p], v1)
    BY <1>1, <1>2, <2>1, Paints
  <2>3. v1 \in Tree
    BY <2>2 DEF Painted
  <2> HIDE DEF v1, far
  <2>4. Painted(v1, p, "black", v2)
    BY <1>0, <2>1, <2>3, Paints
  <2>5. v2 \in Tree
    BY <2>4 DEF Painted
  <2> HIDE DEF v2
  <2>6. Painted(v2, far, "black", w)
    BY <1>0, <2>1, <2>5, Paints
  <2> QED
    BY <2>2, <2>4, <2>6
<1>4. u = Rotate(w, p, d)
  BY DEF FarStep
<1>5. near = t.down[d][sib] /\ far = t.down[e][sib]
  OBVIOUS
<1> HIDE DEF v1, v2, w, near, far
<1>6. /\ w \in Tree /\ w.up = t.up /\ w.down = t.down /\ w.root = t.root
      /\ \A n \in Slot : w.color[n] = IF n = far THEN "black" ELSE IF n = p THEN "black"
                                      ELSE IF n = sib THEN t.color[p] ELSE t.color[n]
  BY <1>3 DEF Painted
<1>7. Sorted(u, S, key) /\ u.color = w.color /\ Turned(t, S, p, d, sib, u)
  <2>1. Repainted(t, w, p, d, sib, u)
    BY <1>0, <1>1, <1>4, <1>6 DEF Repainted
  <2>2. p \in S /\ Sorted(t, S, key)
    BY <1>1
  <2> QED
    BY <2>1, <2>2, PaintedRotation
<1>8. /\ near # Nil => near \in S /\ near \notin {p, sib} /\ t.up[near] = sib
      /\ u.down[d][p] = x /\ u.down[e][p] = near /\ u.down[d][sib] = p /\ u.down[e][sib] = far
      /\ t.up[p] \notin {p, sib}
  BY <1>0, <1>1, <1>5, <1>7 DEF Turned
<1>9. far # p /\ far # x /\ (near # Nil => near # far)
  <2>1. t.down[d][sib] # Nil => t.down[Other(d)][sib] # t.down[d][sib]
    BY <1>1 DEF Links, DownLinked
  <2> QED
    BY <1>1, <1>2, <1>5, <1>8, <2>1
<1> HIDE DEF e
<1>10. bh2 \in [Slot -> Nat] /\ \A n \in Slot : bh2[n] = IF n = p THEN bh[sib] ELSE IF n = sib THEN bh[p] ELSE bh[n]
  BY <1>1
<1> HIDE DEF bh2
<1>11. /\ BlackHeight(t, bh, sib) = bh[sib] + 1 /\ BlackHeight(t, bh, far) = bh[far]
       /\ BlackHeight(u, bh2, p) = bh[sib] + 1 /\ BlackHeight(u, bh2, far) = bh[far] + 1
       /\ BlackHeight(u, bh2, x) = BlackHeight(t, bh, x)
       /\ BlackHeight(u, bh2, near) = BlackHeight(t, bh, near)
       /\ BlackHeight(u, bh2, sib) = BlackHeight(t, bh, p)
  BY <1>0, <1>1, <1>2, <1>6, <1>7, <1>8, <1>9, <1>10 DEF BlackHeight
<1>12. /\ bh[sib] = BlackHeight(t, bh, near) /\ bh[sib] = bh[far]
       /\ bh[p] = bh[sib] + 1 /\ BlackHeight(t, bh, x) = bh[sib]
  <2>1. bh[sib] = BlackHeight(t, bh, near) /\ bh[sib] = BlackHeight(t, bh, far)
    BY <1>0, <1>1, <1>5
  <2>2. BlackHeight(t, bh, x) \in Nat
    <3>1. x \in Link
      BY <1>0, <1>1 DEF Link
    <3> QED
      BY <1>1, <3>1, PlainBalanced
  <2>3. bh[p] = BlackHeight(t, bh, sib) /\ bh[p] = BlackHeight(t, bh, x) + 1 /\ bh[sib] \in Nat
    BY <1>1
  <2> QED
    BY <1>11, <2>1, <2>2, <2>3
<1>13. Elsewhere(t, S, p, sib, bh, u, bh2)
  <2>1. \A n \in S : u.color[n] = t.color[n] \/ t.up[n] \in {p, sib} \/ n = p
    BY <1>1, <1>2, <1>6, <1>7
  <2>2. \A n \in S : n \notin {p, sib} => bh2[n] = bh[n]
    BY <1>10
  <2>3. Nearby(t, S, p, sib, bh, u, bh2)
    BY <1>11, <2>1, <2>2 DEF Nearby
  <2>4. p \in S /\ t \in Tree /\ Links(t, S) /\ Turned(t, S, p, d, sib, u)
    BY <1>1, <1>7
  <2> QED
    BY <2>3, <2>4, TurnedHeights
<1>14. ASSUME NEW q \in S, NEW f \in Side
       PROVE  bh2[q] = BlackHeight(u, bh2, u.down[f][q])
  <2>1. CASE q = p
    BY <1>0, <1>8, <1>10, <1>11, <1>12, <2>1
  <2>2. CASE q = sib
    BY <1>0, <1>1, <1>8, <1>10, <1>11, <1>12, <2>2
  <2>3. CASE q \notin {p, sib}
    BY <1>1, <1>13, <2>3 DEF Elsewhere
  <2> QED
    BY <2>1, <2>2, <2>3
<1>15. Reds(u, S, Nil, Nil)
  <2>1. \A n \in S : n \notin {p, sib} /\ u.color[n] = "red" => t.color[n] = "red"
    BY <1>0, <1>6, <1>7
  <2>2. u.color[p] = "black" /\ ~Red(u, far) /\ u.color[sib] = t.color[p]
    BY <1>0, <1>1, <1>2, <1>6, <1>7, <1>9 DEF Red
  <2>3. u.color[sib] = "red" => t.color[p] = "red" /\ u.color[p] # "red" /\ ~Red(u, t.down[Other(d)][sib])
    BY <1>0, <1>5, <2>2 DEF e
  <2>4. u.color[p] = "red" => ~Red(u, t.down[d][sib]) /\ ~Red(u, t.down[d][p])
    BY <1>0, <2>2
  <2> QED
    BY <1>1, <1>7, <2>1, <2>3, <2>4, TurnedReds
<1>16. u \in Tree /\ Links(u, S)
  BY <1>7 DEF Sorted
<1>17. Balanced(u, S, bh2, Nil, Nil)
  BY <1>0, <1>10, <1>14, <1>16, PlainBalanced
<1>18. Reds(u, S, u.root, u.root)
  BY <1>15, <1>16, WeakerReds
<1>19. Short(u, S, key, bh2, u.root, Nil, Nil)
  BY <1>7, <1>17, <1>18 DEF Short
<1> QED
  BY <1>19

(* Black nephews: the sibling turns red, and one black node is missing     *)
(* below p instead.                                                        *)
LEMMA PaleTurn ==
  ASSUME NEW S \in SUBSET Slot, NEW key \in [Slot -> Int], NEW t, NEW bh, NEW x, NEW p,
         NEW d \in Side, NEW sib, Missing(t, S, key, bh, x, p, d, sib), ~Red(t, sib),
         ~Red(t, t.down[d][sib]), ~Red(t, t.down[Other(d)][sib])
  PROVE  LET u == Paint(t, sib, "red")
         IN  /\ Painted(t, sib, "red", u)
             /\ \E bh2, g : Short(u, S, key, bh2, p, t.up[p], g)
<1> DEFINE e == Other(d)
           u == Paint(t, sib, "red")
           bh2 == [bh EXCEPT ![p] = bh[p] - 1]
           a == t.up[p]
<1>0. /\ Nil \notin S /\ e \in Side /\ e # d /\ \A f \in Side : f = d \/ f = e
      /\ "red" \in Color /\ "black" \in Color /\ "red" # "black" /\ S \subseteq Link
  BY Sides DEF Color, Link
<1>1. /\ t \in Tree /\ Sorted(t, S, key) /\ Links(t, S) /\ Reds(t, S, Nil, Nil) /\ ~Red(t, x)
      /\ p \in S /\ sib \in S /\ sib # p /\ sib # x /\ x # p
      /\ t.down[d][p] = x /\ t.down[e][p] = sib /\ t.up[sib] = p
      /\ x # Nil => x \in S /\ t.up[x] = p
      /\ bh \in [Slot -> Nat] /\ bh[p] = BlackHeight(t, bh, sib)
      /\ bh[p] = BlackHeight(t, bh, x) + 1
      /\ \A q \in S, f \in Side : q # p \/ f # d => bh[q] = BlackHeight(t, bh, t.down[f][q])
  BY DEF Missing
<1>2. Painted(t, sib, "red", u)
  BY <1>0, <1>1, Paints
<1> HIDE DEF u, e
<1>3. /\ u \in Tree /\ u.up = t.up /\ u.down = t.down /\ u.root = t.root
      /\ \A n \in Slot : u.color[n] = IF n = sib THEN "red" ELSE t.color[n]
  BY <1>2 DEF Painted
<1>4. Sorted(u, S, key) /\ Links(u, S)
  <2>1. Sorted(u, S, key)
    BY <1>1, <1>3, SameSorted
  <2> QED
    BY <2>1 DEF Sorted
<1>5. t.color[sib] = "black"
  BY <1>0, <1>1 DEF Red, Tree, Color
<1>6. BlackHeight(t, bh, x) \in Nat
  <2>1. x \in Link
    BY <1>0, <1>1 DEF Link
  <2> QED
    BY <1>1, <2>1, PlainBalanced
<1>7. bh[p] \in Nat /\ bh[sib] \in Nat /\ bh[p] - 1 = bh[sib] /\ BlackHeight(t, bh, x) = bh[sib]
  <2>1. BlackHeight(t, bh, sib) = bh[sib] + 1
    BY <1>0, <1>1, <1>5 DEF BlackHeight
  <2>2. bh[p] = BlackHeight(t, bh, sib) /\ bh[p] = BlackHeight(t, bh, x) + 1
    BY <1>1
  <2>3. bh[p] \in Nat /\ bh[sib] \in Nat
    BY <1>1
  <2> QED
    BY <1>6, <2>1, <2>2, <2>3
<1>8. bh2 \in [Slot -> Nat] /\ \A n \in Slot : bh2[n] = IF n = p THEN bh[sib] ELSE bh[n]
  BY <1>1, <1>7
<1> HIDE DEF bh2
<1>9. /\ a # p /\ (a = Nil <=> p = t.root)
      /\ a # Nil => a \in S /\ \E f \in Side : t.down[f][a] = p /\ t.down[Other(f)][a] # p
  <2>1. Apart(t, S, p, d)
    BY <1>0, <1>1, KinApart DEF e
  <2> QED
    BY <2>1 DEF Apart
<1>10. PICK g : a # Nil => g \in Side /\ t.down[g][a] = p /\ t.down[Other(g)][a] # p
  BY <1>9
<1>11. \A n \in Link : BlackHeight(t, bh, n) \in Nat /\ BlackHeight(u, bh2, n) \in Nat
  BY <1>1, <1>3, <1>8, PlainBalanced
<1>12. /\ BlackHeight(u, bh2, sib) = bh[sib]
       /\ BlackHeight(t, bh, p) = BlackHeight(u, bh2, p) + 1
       /\ \A n \in Link : n \notin {p, sib} => BlackHeight(u, bh2, n) = BlackHeight(t, bh, n)
  <2>1. BlackHeight(u, bh2, sib) = bh[sib]
    BY <1>0, <1>1, <1>3, <1>8 DEF BlackHeight
  <2>2. BlackHeight(t, bh, p) = BlackHeight(u, bh2, p) + 1
    <3>1. u.color[p] = t.color[p] /\ bh2[p] = bh[sib] /\ bh[p] = bh[sib] + 1 /\ p # Nil
      BY <1>0, <1>1, <1>3, <1>7, <1>8
    <3> QED
      BY <1>7, <3>1 DEF BlackHeight
  <2>3. \A n \in Link : n \notin {p, sib} => BlackHeight(u, bh2, n) = BlackHeight(t, bh, n)
    BY <1>3, <1>8 DEF BlackHeight, Link
  <2> QED
    BY <2>1, <2>2, <2>3
<1>13. ASSUME NEW q \in S, NEW f \in Side
       PROVE  bh2[q] = BlackHeight(u, bh2, u.down[f][q]) + (IF q = a /\ f = g THEN 1 ELSE 0)
  <2>1. u.down[f][q] = t.down[f][q] /\ t.down[f][q] \in Link
    BY <1>1, <1>3 DEF Tree
  <2>2. t.down[f][q] # Nil => t.up[t.down[f][q]] = q
    BY <1>1 DEF Links, DownLinked
  <2>3. CASE q = p
    <3>1. f = d => BlackHeight(u, bh2, u.down[f][q]) = bh[sib]
      BY <1>1, <1>7, <1>12, <2>1, <2>3
    <3>2. f = e => BlackHeight(u, bh2, u.down[f][q]) = bh[sib]
      BY <1>1, <1>12, <2>1, <2>3
    <3> QED
      BY <1>0, <1>7, <1>8, <1>9, <2>3, <3>1, <3>2
  <2>4. CASE q # p
    <3>1. bh2[q] = bh[q] /\ bh[q] = BlackHeight(t, bh, t.down[f][q]) /\ t.down[f][q] # sib
      BY <1>0, <1>1, <1>8, <2>2, <2>4
    <3>2. CASE t.down[f][q] = p
      <4>1. q = a /\ f = g
        <5>1. q = a /\ a # Nil
          BY <1>0, <1>1, <2>2, <3>2
        <5> QED
          BY <1>10, <3>2, <5>1, Sides
      <4> QED
        BY <1>12, <2>1, <3>1, <3>2, <4>1
    <3>3. CASE t.down[f][q] # p
      <4>1. ~(q = a /\ f = g)
        BY <1>0, <1>10, <3>3
      <4>2. BlackHeight(u, bh2, u.down[f][q]) = BlackHeight(t, bh, t.down[f][q])
        BY <1>12, <2>1, <3>1, <3>3
      <4> QED
        BY <1>11, <2>1, <3>1, <4>1, <4>2
    <3> QED
      BY <3>2, <3>3
  <2> QED
    BY <2>3, <2>4
<1>14. Balanced(u, S, bh2, a, g)
  BY <1>8, <1>13 DEF Balanced
<1>15. Reds(u, S, p, p)
  <2> SUFFICES ASSUME NEW n \in S, u.color[n] = "red", n # p
               PROVE  n # u.root /\ (u.color[u.up[n]] = "red" => u.up[n] = p)
    BY DEF Reds
  <2>1. CASE n = sib
    <3>1. sib # t.root
      BY <1>0, <1>1 DEF Links, UpLinked
    <3> QED
      BY <1>1, <1>3, <2>1, <3>1
  <2>2. CASE n # sib
    <3>1. t.color[n] = "red"
      BY <1>3, <2>2
    <3>2. n # t.root /\ t.up[n] \in S /\ t.color[t.up[n]] # "red"
      BY <1>1, <3>1, NoRedPair
    <3>3. PICK f \in Side : t.down[f][t.up[n]] = n
      BY <1>1, <3>2 DEF Links, UpLinked
    <3>4. t.up[n] # sib
      BY <1>0, <3>1, <3>3 DEF Red, e
    <3> QED
      BY <1>3, <3>2, <3>4
  <2> QED
    BY <2>1, <2>2
<1>16. Short(u, S, key, bh2, p, a, g)
  <2>1. a \in S \cup {Nil} /\ (IF a = Nil THEN p = u.root ELSE g \in Side /\ u.down[g][a] = p)
    BY <1>3, <1>9, <1>10
  <2> QED
    BY <1>4, <1>14, <1>15, <2>1 DEF Short
<1> QED
  BY <1>2, <1>16 DEF u

\* What a turn of the loop leaves: a tree that lacks one black node nearer to
\* the root, at p, or a tree that lacks none.
Turns(t, S, key, p, turn) ==
  /\ \E bh2, g2 : Short(turn[1], S, key, bh2, turn[2], turn[3], g2)
  /\ \/ turn[1].up = t.up /\ turn[2] = p /\ turn[1].color[p] = t.color[p]
     \/ turn[2] = turn[1].root

(* It does so with a black sibling.                                        *)
LEMMA TurnFromKeeps ==
  ASSUME NEW S \in SUBSET Slot, NEW key \in [Slot -> Int], NEW t, NEW bh, NEW x, NEW p,
         NEW d \in Side, NEW sib, Missing(t, S, key, bh, x, p, d, sib), ~Red(t, sib)
  PROVE  Turns(t, S, key, p, TurnFrom(t, p, d))
<1> DEFINE e == Other(d)
           near == t.down[d][sib]
           far == t.down[e][sib]
           t1 == IF Red(t, far) THEN t
                 ELSE Rotate(Paint(Paint(t, near, "black"), sib, "red"), sib, e)
           sib2 == t1.down[e][p]
           t2 == Paint(Paint(Paint(t1, sib2, t1.color[p]), p, "black"), t1.down[e][sib2], "black")
           t3 == Rotate(t2, p, d)
<1>1. t.down[e][p] = sib /\ sib \in S /\ sib # Nil /\ p \in S /\ sib # p
  BY Sides DEF Missing
<1>2. TurnFrom(t, p, d) = IF sib = Nil \/ ~(Red(t, near) \/ Red(t, far))
                          THEN <<Paint(t, sib, "red"), p, t.up[p]>> ELSE <<t3, t3.root, Nil>>
  BY <1>1 DEF TurnFrom
<1>3. CASE ~Red(t, near) /\ ~Red(t, far)
  <2> DEFINE u == Paint(t, sib, "red")
  <2>1. TurnFrom(t, p, d) = <<u, p, t.up[p]>>
    BY <1>2, <1>3
  <2>2. Painted(t, sib, "red", u) /\ \E bh2, g : Short(u, S, key, bh2, p, t.up[p], g)
    BY <1>3, PaleTurn
  <2> HIDE DEF u
  <2>3. u.up = t.up /\ u.color[p] = t.color[p]
    BY <1>1, <2>2 DEF Painted
  <2> QED
    BY <2>1, <2>2, <2>3 DEF Turns
<1>4. CASE Red(t, near) \/ Red(t, far)
  <2>1. TurnFrom(t, p, d) = <<t3, t3.root, Nil>>
    BY <1>1, <1>2, <1>4
  <2>2. Missing(t1, S, key, bh, x, p, d, sib2) /\ ~Red(t1, sib2) /\ Red(t1, t1.down[e][sib2])
    <3>1. CASE Red(t, far)
      <4>1. t1 = t /\ sib2 = sib
        BY <1>1, <3>1
      <4> QED
        BY <3>1, <4>1
    <3>2. CASE ~Red(t, far)
      <4>1. t1 = Rotate(Paint(Paint(t, near, "black"), sib, "red"), sib, e) /\ Red(t, near)
        BY <1>4, <3>2
      <4> HIDE DEF t1
      <4>2. NearStep(t, d, sib, near, t1)
        BY <3>2, <4>1 DEF NearStep
      <4>3. /\ Missing(t1, S, key, bh, x, p, d, near) /\ ~Red(t1, near)
            /\ t1.down[Other(d)][near] = sib /\ Red(t1, sib)
        <5> HIDE DEF near
        <5> QED
          BY <4>2, NearTurn
      <4>4. sib2 = near
        BY <4>3 DEF Missing
      <4> HIDE DEF sib2, near
      <4> QED
        BY <4>3, <4>4
    <3> QED
      BY <3>1, <3>2
  <2> HIDE DEF t1
  <2>3. FarStep(t1, d, p, sib2, t3)
    BY <2>2 DEF FarStep
  <2> HIDE DEF t3, sib2
  <2>4. \E bh2 : Short(t3, S, key, bh2, t3.root, Nil, Nil)
    BY <2>2, <2>3, FarTurn
  <2> QED
    BY <2>1, <2>4 DEF Turns
<1> QED
  BY <1>3, <1>4

(* And a whole turn does, which ends the loop if it rotated a red sibling. *)
LEMMA RemoveTurnKeeps ==
  ASSUME NEW S \in SUBSET Slot, NEW key \in [Slot -> Int], NEW t, NEW bh, NEW x,
         NEW p \in S, NEW g, Short(t, S, key, bh, x, p, g), ~Red(t, x)
  PROVE  LET turn == RemoveTurn(t, x, p)
         IN  /\ \E bh2, g2 : Short(turn[1], S, key, bh2, turn[2], turn[3], g2)
             /\ \/ turn[1].up = t.up /\ turn[2] = p
                \/ turn[2] = turn[1].root
                \/ Red(turn[1], turn[2])
<1> DEFINE d == IF t.down["left"][p] = x THEN "left" ELSE "right"
           sib == t.down[Other(d)][p]
           rotated == Rotate(Paint(Paint(t, sib, "black"), p, "red"), p, d)
           turn == RemoveTurn(t, x, p)
<1>1. g \in Side /\ Missing(t, S, key, bh, x, p, g, t.down[Other(g)][p])
  BY Sibling
<1>2. d = g
  BY <1>1, Sides DEF Missing, Side
<1>3. turn = TurnFrom(IF Red(t, sib) THEN rotated ELSE t, p, d)
  BY DEF RemoveTurn
<1>4. d \in Side /\ Missing(t, S, key, bh, x, p, d, sib) /\ p # Nil
  BY <1>1, <1>2, Sides
<1> HIDE DEF d, turn
<1>5. CASE ~Red(t, sib)
  <2>1. turn = TurnFrom(t, p, d)
    BY <1>3, <1>5
  <2>2. Turns(t, S, key, p, TurnFrom(t, p, d))
    <3> HIDE DEF sib
    <3> QED
      BY <1>4, <1>5, TurnFromKeeps
  <2>3. Turns(t, S, key, p, turn)
    BY <2>1, <2>2
  <2> QED
    BY <2>3 DEF Turns, turn
<1>6. CASE Red(t, sib)
  <2>1. turn = TurnFrom(rotated, p, d)
    BY <1>3, <1>6
  <2>2. RedStep(t, d, p, sib, rotated)
    BY <1>6 DEF RedStep
  <2> HIDE DEF rotated, sib
  <2>3. /\ Missing(rotated, S, key, bh, x, p, d, rotated.down[Other(d)][p])
        /\ ~Red(rotated, rotated.down[Other(d)][p]) /\ rotated.color[p] = "red"
    BY <1>4, <2>2, RedSibling
  <2>4. Turns(rotated, S, key, p, TurnFrom(rotated, p, d))
    BY <1>4, <2>3, TurnFromKeeps
  <2>5. Turns(rotated, S, key, p, turn)
    BY <2>1, <2>4
  <2>6. Red(turn[1], turn[2]) \/ turn[2] = turn[1].root
    BY <1>4, <2>3, <2>5 DEF Turns, Red
  <2>7. \E bh2, g2 : Short(turn[1], S, key, bh2, turn[2], turn[3], g2)
    BY <2>5 DEF Turns
  <2> QED
    BY <2>6, <2>7 DEF turn
<1> QED
  BY <1>5, <1>6

-----------------------------------------------------------------------------
(* The nodes above a node.                                                 *)

Up(t, s) == Walk(t.up, s)

(* They are the least set with s in it and the parent of each member, all  *)
(* of them nodes of the tree, and the root is one.                         *)
LEMMA UpIs ==
  ASSUME NEW S \in SUBSET Slot, NEW key \in [Slot -> Int], NEW t, Sorted(t, S, key), NEW s \in S
  PROVE  /\ s \in Up(t, s) /\ Up(t, s) \subseteq S /\ t.root \in Up(t, s)
         /\ \A n \in Up(t, s) : t.up[n] # Nil => t.up[n] \in Up(t, s)
         /\ \A A : (s \in A /\ \A n \in A \cap Up(t, s) : t.up[n] # Nil => t.up[n] \in A)
                   => Up(t, s) \subseteq A
<1>0. t \in Tree /\ Links(t, S)
  BY DEF Sorted
<1>1. PICK lo, hi : Ordered(t, S, key, lo, hi)
  BY DEF Sorted
<1> DEFINE m == [n \in S |-> lo[n] - hi[n]]
<1>2. m \in [S -> Int] /\ \A n \in S : lo[n] \in Int /\ hi[n] \in Int
  BY <1>1 DEF Ordered
<1>3. Falls(t.up, S, m)
  <2> SUFFICES ASSUME NEW n \in S, t.up[n] # Nil PROVE t.up[n] \in S /\ m[t.up[n]] < m[n]
    BY DEF Falls
  <2>1. t.up[n] \in S /\ \E d \in Side : t.down[d][t.up[n]] = n
    BY <1>0 DEF Links, UpLinked
  <2>2. PICK d \in Side : t.down[d][t.up[n]] = n
    BY <2>1
  <2>3. n # Nil
    BY Sides
  <2>4. hi[n] - lo[n] < hi[t.up[n]] - lo[t.up[n]]
    <3> DEFINE p == t.up[n]
    <3>1. p \in S /\ t.down[d][p] = n /\ t.down[d][p] # Nil
      BY <2>1, <2>2, <2>3
    <3> HIDE DEF p
    <3>2. hi[n] - lo[n] < hi[p] - lo[p]
      BY <1>0, <1>1, <3>1, Narrower
    <3> QED
      BY <3>2 DEF p
  <2> QED
    BY <1>2, <2>1, <2>4
<1> HIDE DEF m
<1>4. t.up \in [Slot -> Link]
  BY <1>0 DEF Tree
<1>5. /\ s \in Up(t, s) /\ Up(t, s) \subseteq S
      /\ \A n \in Up(t, s) : t.up[n] # Nil => t.up[n] \in Up(t, s)
      /\ \E n \in Up(t, s) : t.up[n] = Nil
      /\ \A A : (s \in A /\ \A n \in A \cap Up(t, s) : t.up[n] # Nil => t.up[n] \in A)
                => Up(t, s) \subseteq A
  BY <1>2, <1>3, <1>4, WalkLeast DEF Up
<1>6. t.root \in Up(t, s)
  <2>1. PICK n \in Up(t, s) : t.up[n] = Nil
    BY <1>5
  <2>2. n = t.root
    BY <1>0, <1>5, <2>1, Sides DEF Links, UpLinked
  <2> QED
    BY <2>1, <2>2
<1> QED
  BY <1>5, <1>6

(* The way up from s crosses into a set that it reaches.                   *)
LEMMA Crossing ==
  ASSUME NEW S \in SUBSET Slot, NEW key \in [Slot -> Int], NEW t, Sorted(t, S, key), NEW s \in S,
         NEW A, s \notin A, NEW a, a \in A, a \in Up(t, s)
  PROVE  \E x \in Up(t, s) : x \notin A /\ t.up[x] \in A /\ t.up[x] # Nil
<1>1. SUFFICES ASSUME \A x \in Up(t, s) : x \notin A /\ t.up[x] # Nil => t.up[x] \notin A
               PROVE  FALSE
  BY Zenon
<1> DEFINE B == S \ A
<1>2. Up(t, s) \subseteq S /\ \A n \in Up(t, s) : t.up[n] # Nil => t.up[n] \in Up(t, s)
  BY UpIs
<1>3. s \in B /\ \A n \in B \cap Up(t, s) : t.up[n] # Nil => t.up[n] \in B
  BY <1>1, <1>2
<1>4. Up(t, s) \subseteq B
  <2> HIDE DEF B
  <2> QED
    BY <1>3, UpIs
<1> QED
  BY <1>4

(* What is above s has an interval around that of s.                       *)
LEMMA Around ==
  ASSUME NEW S \in SUBSET Slot, NEW key \in [Slot -> Int], NEW t, Sorted(t, S, key),
         NEW lo, NEW hi, Ordered(t, S, key, lo, hi), NEW s \in S
  PROVE  \A x \in Up(t, s) : lo[x] <= lo[s] /\ hi[s] <= hi[x]
<1> DEFINE A == {x \in S : lo[x] <= lo[s] /\ hi[s] <= hi[x]}
<1>0. t \in Tree /\ Links(t, S) /\ Nil \notin S
  BY Sides DEF Sorted
<1>1. \A n \in S : lo[n] \in Int /\ hi[n] \in Int /\ key[n] \in Int /\ lo[n] < key[n] /\ key[n] < hi[n]
  BY DEF Ordered
<1>2. s \in A
  BY <1>1
<1>3. ASSUME NEW n \in A, t.up[n] # Nil PROVE t.up[n] \in A
  <2> DEFINE p == t.up[n]
  <2>1. p \in S /\ \E d \in Side : t.down[d][p] = n
    BY <1>0, <1>3 DEF Links, UpLinked
  <2>2. lo[p] <= lo[n] /\ hi[n] <= hi[p]
    <3>1. PICK d \in Side : t.down[d][p] = n
      BY <2>1
    <3>2. d = "left" \/ d = "right"
      BY DEF Side
    <3>3. t.down[d][p] # Nil
      BY <1>0, <3>1
    <3> HIDE DEF p
    <3>4. CASE d = "left"
      <4>1. lo[p] <= lo[n] /\ hi[n] <= key[p]
        BY <2>1, <3>1, <3>3, <3>4 DEF Ordered
      <4> QED
        BY <1>1, <2>1, <4>1
    <3>5. CASE d = "right"
      <4>1. key[p] <= lo[n] /\ hi[n] <= hi[p]
        BY <2>1, <3>1, <3>3, <3>5 DEF Ordered
      <4> QED
        BY <1>1, <2>1, <4>1
    <3> QED
      BY <3>2, <3>4, <3>5
  <2> HIDE DEF p
  <2>3. p \in A
    BY <1>1, <2>1, <2>2
  <2> QED
    BY <2>3 DEF p
<1>4. Up(t, s) \subseteq A
  <2> HIDE DEF A
  <2> QED
    BY <1>2, <1>3, UpIs
<1> QED
  BY <1>4

(* A node below another is below one of its children, on the side of its   *)
(* key.                                                                    *)
LEMMA BelowChild ==
  ASSUME NEW S \in SUBSET Slot, NEW key \in [Slot -> Int], NEW t, Sorted(t, S, key), NEW s \in S,
         NEW a \in Up(t, s), a # s
  PROVE  \E d \in Side : /\ t.down[d][a] \in Up(t, s)
                         /\ IF d = "left" THEN key[s] < key[a] ELSE key[a] < key[s]
<1>0. t \in Tree /\ Links(t, S) /\ Nil \notin S /\ Up(t, s) \subseteq S
  BY Sides, UpIs DEF Sorted
<1>1. PICK lo, hi : Ordered(t, S, key, lo, hi)
  BY DEF Sorted
<1>2. PICK b \in Up(t, s) : b # a /\ t.up[b] = a /\ t.up[b] # Nil
  <2> DEFINE A == {a}
  <2>1. s \notin A /\ a \in A
    OBVIOUS
  <2>2. \E b \in Up(t, s) : b \notin A /\ t.up[b] \in A /\ t.up[b] # Nil
    <3> HIDE DEF A
    <3> QED
      BY <2>1, Crossing
  <2> QED
    BY <2>2
<1>3. b \in S /\ a \in S /\ \E d \in Side : t.down[d][a] = b
  BY <1>0, <1>2 DEF Links, UpLinked
<1>4. PICK d \in Side : t.down[d][a] = b
  BY <1>3
<1>5. lo[b] <= lo[s] /\ hi[s] <= hi[b]
  BY <1>1, <1>2, Around
<1>6. \A n \in S : lo[n] \in Int /\ hi[n] \in Int /\ key[n] \in Int /\ lo[n] < key[n] /\ key[n] < hi[n]
  BY <1>1 DEF Ordered
<1>7. d = "left" => key[s] < key[a]
  <2>1. d = "left" => hi[b] <= key[a]
    BY <1>0, <1>1, <1>3, <1>4 DEF Ordered
  <2> QED
    BY <1>3, <1>5, <1>6, <2>1
<1>8. d # "left" => key[a] < key[s]
  <2>1. d # "left" => key[a] <= lo[b]
    BY <1>0, <1>1, <1>3, <1>4 DEF Ordered, Side
  <2> QED
    BY <1>3, <1>5, <1>6, <2>1
<1> QED
  BY <1>2, <1>4, <1>7, <1>8

(* Above two nodes there is one whose key is between theirs.               *)
LEMMA Between ==
  ASSUME NEW S \in SUBSET Slot, NEW key \in [Slot -> Int], NEW t, Sorted(t, S, key),
         NEW m \in S, NEW n \in S, key[m] < key[n]
  PROVE  \E c \in Up(t, m) \cap Up(t, n) : key[m] <= key[c] /\ key[c] <= key[n]
<1>0. /\ t \in Tree /\ Links(t, S) /\ Nil \notin S /\ Up(t, m) \subseteq S /\ Up(t, n) \subseteq S
      /\ m \in Up(t, m) /\ n \in Up(t, n) /\ t.root \in Up(t, m) /\ t.root \in Up(t, n)
      /\ \A x \in Up(t, m) : t.up[x] # Nil => t.up[x] \in Up(t, m)
      /\ \A x \in S : key[x] \in Int
  BY Sides, UpIs DEF Sorted
<1>1. PICK lo, hi : Ordered(t, S, key, lo, hi)
  BY DEF Sorted
<1>2. CASE m \in Up(t, n)
  BY <1>0, <1>2
<1>3. CASE m \notin Up(t, n)
  <2>1. PICK x \in Up(t, m) : x \notin Up(t, n) /\ t.up[x] \in Up(t, n) /\ t.up[x] # Nil
    BY <1>0, <1>3, Crossing
  <2> DEFINE c == t.up[x]
  <2>2. c \in Up(t, m) /\ c \in Up(t, n) /\ c \in S /\ x \in S /\ \E f \in Side : t.down[f][c] = x
    BY <1>0, <2>1 DEF Links, UpLinked
  <2>3. PICK f \in Side : t.down[f][c] = x
    BY <2>2
  <2> HIDE DEF c
  <2>4. CASE c = n
    BY <1>0, <2>2, <2>4
  <2>5. CASE c # n
    <3>1. PICK d \in Side : /\ t.down[d][c] \in Up(t, n)
                            /\ IF d = "left" THEN key[n] < key[c] ELSE key[c] < key[n]
      BY <2>2, <2>5, BelowChild
    <3>2. f # d
      BY <2>1, <2>3, <3>1
    <3>3. lo[x] <= lo[m] /\ hi[m] <= hi[x]
      BY <1>1, <2>1, Around
    <3>4. \A q \in S : /\ lo[q] \in Int /\ hi[q] \in Int
                       /\ lo[q] < key[q] /\ key[q] < hi[q]
      BY <1>1 DEF Ordered
    <3>5. CASE d = "left"
      <4>1. key[c] <= lo[x]
        BY <1>0, <1>1, <2>2, <2>3, <3>2, <3>5 DEF Ordered, Side
      <4> QED
        BY <1>0, <2>2, <3>1, <3>3, <3>4, <3>5, <4>1
    <3>6. CASE d # "left"
      <4>1. hi[x] <= key[c]
        BY <1>0, <1>1, <2>2, <2>3, <3>2, <3>6 DEF Ordered, Side
      <4>2. key[m] < key[c]
        BY <1>0, <2>2, <3>3, <3>4, <4>1
      <4> QED
        BY <1>0, <2>2, <3>1, <3>6, <4>2
    <3> QED
      BY <3>5, <3>6
  <2> QED
    BY <2>4, <2>5
<1> QED
  BY <1>2, <1>3

\* The nodes on the way down to the left
Spine(t, s) == Walk(t.down["left"], s)

\* l is the least of the nodes below s, s included, and has no left child.
LeastBelow(t, S, key, s, l) ==
  /\ l \in S /\ t.down["left"][l] = Nil /\ s \in Up(t, l)
  /\ \A n \in S : s \in Up(t, n) => key[l] <= key[n]
  /\ l # s => t.down["left"][t.up[l]] = l /\ l # t.root

(* Minimum finds it.                                                       *)
LEMMA MinimumIs ==
  ASSUME NEW S \in SUBSET Slot, NEW key \in [Slot -> Int], NEW t, Sorted(t, S, key), NEW s \in S
  PROVE  LeastBelow(t, S, key, s, Minimum(t, s))
<1> DEFINE l == Minimum(t, s)
           W == Spine(t, s)
<1>0. /\ t \in Tree /\ Links(t, S) /\ Nil \notin S /\ "left" \in Side /\ "right" \in Side
      /\ \A n \in Slot : key[n] \in Int
  BY Sides DEF Sorted
<1>1. PICK lo, hi : Ordered(t, S, key, lo, hi)
  BY DEF Sorted
<1> DEFINE m == [n \in S |-> hi[n] - lo[n]]
<1>2. m \in [S -> Int]
  BY <1>1 DEF Ordered
<1>3. Falls(t.down["left"], S, m)
  <2> SUFFICES ASSUME NEW n \in S, t.down["left"][n] # Nil
               PROVE  t.down["left"][n] \in S /\ m[t.down["left"][n]] < m[n]
    BY DEF Falls
  <2>1. /\ t.down["left"][n] \in S
        /\ hi[t.down["left"][n]] - lo[t.down["left"][n]] < hi[n] - lo[n]
    BY <1>0, <1>1, Narrower
  <2> QED
    BY <2>1
<1> HIDE DEF m
<1>4. t.down["left"] \in [Slot -> Link]
  BY <1>0 DEF Tree
<1>5. /\ s \in W /\ W \subseteq S
      /\ \A n \in W : t.down["left"][n] # Nil => t.down["left"][n] \in W
      /\ \E n \in W : t.down["left"][n] = Nil
      /\ \A A : (s \in A /\ \A n \in A \cap W : t.down["left"][n] # Nil => t.down["left"][n] \in A)
                => W \subseteq A
  BY <1>2, <1>3, <1>4, WalkLeast DEF Spine
<1>6. l \in W /\ t.down["left"][l] = Nil
  <2>1. l = CHOOSE n \in W : t.down["left"][n] = Nil
    BY <1>0 DEF Minimum, Spine
  <2> HIDE DEF W
  <2> QED
    BY <1>5, <2>1
<1> HIDE DEF l, W
<1>7. \A w \in W : w = s \/ (t.up[w] \in W /\ w = t.down["left"][t.up[w]])
  <2> DEFINE A == {w \in W : w = s \/ (t.up[w] \in W /\ w = t.down["left"][t.up[w]])}
  <2>1. s \in A
    BY <1>5
  <2>2. ASSUME NEW n \in A, t.down["left"][n] # Nil PROVE t.down["left"][n] \in A
    <3>1. n \in W /\ n \in S /\ t.down["left"][n] \in W
      BY <1>5, <2>2
    <3>2. t.up[t.down["left"][n]] = n
      BY <1>0, <2>2, <3>1 DEF Links, DownLinked
    <3> QED
      BY <3>1, <3>2
  <2>3. W \subseteq A
    <3> HIDE DEF A
    <3> QED
      BY <1>5, <2>1, <2>2
  <2> QED
    BY <2>3
<1>8. /\ s \in Up(t, s) /\ Up(t, s) \subseteq S
      /\ \A n \in Up(t, s) : t.up[n] # Nil => t.up[n] \in Up(t, s)
      /\ l \in S /\ l \in Up(t, l) /\ Up(t, l) \subseteq S /\ t.root \in Up(t, l)
      /\ \A n \in Up(t, l) : t.up[n] # Nil => t.up[n] \in Up(t, l)
  BY <1>5, <1>6, UpIs
<1>9. Up(t, l) \subseteq W \cup Up(t, s)
  <2> DEFINE A == W \cup Up(t, s)
  <2>1. l \in A
    BY <1>6
  <2>2. \A n \in A \cap Up(t, l) : t.up[n] # Nil => t.up[n] \in A
    BY <1>7, <1>8
  <2>3. Up(t, l) \subseteq A
    <3> HIDE DEF A
    <3> QED
      BY <1>8, <2>1, <2>2, UpIs
  <2> QED
    BY <2>3
<1>10. s \in Up(t, l)
  <2> DEFINE A == {n \in W : s \in Up(t, n)}
  <2>1. s \in A
    BY <1>5, <1>8
  <2>2. ASSUME NEW n \in A, t.down["left"][n] # Nil PROVE t.down["left"][n] \in A
    <3> DEFINE c == t.down["left"][n]
    <3>1. n \in W /\ n \in S /\ c \in W /\ c \in S /\ s \in Up(t, n)
      BY <1>5, <2>2
    <3>2. t.up[c] = n
      BY <1>0, <2>2, <3>1 DEF Links, DownLinked
    <3> HIDE DEF c
    <3>3. n \in Up(t, c)
      <4>1. c \in Up(t, c) /\ \A x \in Up(t, c) : t.up[x] # Nil => t.up[x] \in Up(t, c)
        BY <3>1, UpIs
      <4> QED
        BY <1>0, <3>1, <3>2, <4>1
    <3>4. Up(t, n) \subseteq Up(t, c)
      <4>1. \A x \in Up(t, c) : t.up[x] # Nil => t.up[x] \in Up(t, c)
        BY <3>1, UpIs
      <4>2. \A A2 : (n \in A2 /\ \A x \in A2 \cap Up(t, n) : t.up[x] # Nil => t.up[x] \in A2)
                   => Up(t, n) \subseteq A2
        BY <3>1, UpIs
      <4> QED
        BY <3>3, <4>1, <4>2
    <3>5. c \in A
      BY <3>1, <3>4
    <3> QED
      BY <3>5 DEF c
  <2>3. W \subseteq A
    <3> HIDE DEF A
    <3> QED
      BY <1>5, <2>1, <2>2
  <2> QED
    BY <1>6, <2>3
<1>11. ASSUME NEW n \in S, s \in Up(t, n) PROVE key[l] <= key[n]
  <2> SUFFICES ASSUME key[n] < key[l] PROVE FALSE
    BY <1>0, <1>8
  <2>1. PICK c \in Up(t, n) \cap Up(t, l) : key[n] <= key[c] /\ key[c] <= key[l]
    BY <1>8, Between
  <2>2. c \in S /\ c \in Up(t, n) /\ c \in Up(t, l)
    BY <1>8, <2>1
  <2>3. CASE c = l
    <3>1. PICK d \in Side : /\ t.down[d][l] \in Up(t, n)
                            /\ IF d = "left" THEN key[n] < key[l] ELSE key[l] < key[n]
      <4>1. l # n
        BY <1>0
      <4> QED
        BY <2>2, <2>3, <4>1, BelowChild
    <3>2. d = "left"
      BY <1>0, <1>8, <3>1
    <3>3. Up(t, n) \subseteq S
      BY UpIs
    <3> QED
      BY <1>0, <1>6, <3>1, <3>2, <3>3
  <2>4. CASE c # l
    <3>1. PICK d \in Side : /\ t.down[d][c] \in Up(t, l)
                            /\ IF d = "left" THEN key[l] < key[c] ELSE key[c] < key[l]
      BY <1>8, <2>2, <2>4, BelowChild
    <3>2. d = "right"
      BY <1>0, <1>8, <2>1, <2>2, <3>1 DEF Side
    <3> DEFINE b == t.down["right"][c]
    <3>3. b \in Up(t, l) /\ b \in S /\ b # Nil /\ t.up[b] = c /\ b # t.down["left"][c]
      <4>1. b \in Up(t, l) /\ b \in S /\ b # Nil
        BY <1>0, <1>8, <3>1, <3>2
      <4>2. t.up[b] = c /\ t.down[Other("right")][c] # b
        BY <1>0, <2>2, <4>1 DEF Links, DownLinked
      <4> QED
        BY <4>1, <4>2, Sides
    <3> HIDE DEF b
    <3>4. b \in Up(t, s)
      <4>1. b \in W => b = s
        BY <1>7, <3>3
      <4> QED
        BY <1>8, <1>9, <3>3, <4>1
    <3>5. lo[b] <= lo[s]
      BY <1>1, <3>4, Around
    <3>6. lo[s] <= lo[n]
      BY <1>1, <1>11, Around
    <3>7. key[c] <= lo[b]
      BY <1>1, <2>2, <3>3 DEF Ordered, b
    <3>8. lo[n] < key[n] /\ lo[n] \in Int /\ lo[s] \in Int /\ lo[b] \in Int
      BY <1>1, <3>3 DEF Ordered
    <3> QED
      BY <1>0, <2>1, <2>2, <3>5, <3>6, <3>7, <3>8
  <2> QED
    BY <2>3, <2>4
<1>12. l # s => t.down["left"][t.up[l]] = l /\ l # t.root
  <2>1. l # s => t.up[l] \in W /\ l = t.down["left"][t.up[l]]
    BY <1>6, <1>7
  <2>2. l = t.root => t.up[l] = Nil
    BY <1>0, <1>8 DEF Links, UpLinked
  <2> QED
    BY <1>0, <1>5, <2>1, <2>2
<1> QED
  BY <1>6, <1>8, <1>10, <1>11, <1>12 DEF l, LeastBelow

\* r follows s in the order, and has no left child.
SuccessorOf(t, S, key, s, r) ==
  /\ r \in S /\ r # s /\ t.down["left"][r] = Nil /\ key[s] < key[r] /\ r # t.root
  /\ \A n \in S : n # s => key[n] < key[s] \/ key[r] <= key[n]
  /\ t.up[r] = s \/ t.down["left"][t.up[r]] = r

(* The successor of a node with a right child: no key is between theirs.   *)
LEMMA Successor ==
  ASSUME NEW S \in SUBSET Slot, NEW key \in [Slot -> Int], NEW t, Sorted(t, S, key), NEW s \in S,
         t.down["right"][s] # Nil, \A n \in S : n # s => key[n] # key[s]
  PROVE  SuccessorOf(t, S, key, s, Minimum(t, t.down["right"][s]))
<1> DEFINE c == t.down["right"][s]
           r == Minimum(t, c)
<1>0. /\ t \in Tree /\ Links(t, S) /\ Nil \notin S /\ "left" \in Side /\ "right" \in Side
      /\ \A n \in Slot : key[n] \in Int
  BY Sides DEF Sorted
<1>1. PICK lo, hi : Ordered(t, S, key, lo, hi)
  BY DEF Sorted
<1>2. c \in S /\ t.up[c] = s /\ c # t.root
  <2>1. c \in S /\ t.up[c] = s
    BY <1>0 DEF Links, DownLinked
  <2> QED
    BY <1>0, <2>1 DEF Links, UpLinked
<1>3. key[s] <= lo[c]
  BY <1>1 DEF Ordered
<1> HIDE DEF c
<1>5. /\ r \in S /\ t.down["left"][r] = Nil /\ c \in Up(t, r)
      /\ \A n \in S : c \in Up(t, n) => key[r] <= key[n]
      /\ r # c => t.down["left"][t.up[r]] = r
      /\ r = c \/ r # t.root
  <2>1. LeastBelow(t, S, key, c, r)
    BY <1>2, MinimumIs
  <2> HIDE DEF r
  <2> QED
    BY <2>1 DEF LeastBelow
<1> HIDE DEF r
<1>6. /\ \A n \in S : lo[n] \in Int /\ hi[n] \in Int /\ lo[n] < key[n] /\ key[n] < hi[n]
  BY <1>1 DEF Ordered
<1>7. key[s] < key[r]
  <2>1. lo[c] <= lo[r]
    BY <1>1, <1>5, Around
  <2> QED
    BY <1>0, <1>2, <1>3, <1>5, <1>6, <2>1
<1>8. s \in Up(t, r) /\ Up(t, s) \subseteq Up(t, r)
  <2>1. \A x \in Up(t, r) : t.up[x] # Nil => t.up[x] \in Up(t, r)
    BY <1>5, UpIs
  <2>2. s \in Up(t, r)
    BY <1>0, <1>2, <1>5, <2>1
  <2>3. \A A : (s \in A /\ \A n \in A \cap Up(t, s) : t.up[n] # Nil => t.up[n] \in A)
                   => Up(t, s) \subseteq A
    BY UpIs
  <2> QED
    BY <2>1, <2>2, <2>3
<1>9. ASSUME NEW n \in S, n # s, ~(key[n] < key[s]) PROVE key[r] <= key[n]
  <2>2. CASE key[s] < key[n]
    <3>1. PICK a \in Up(t, s) \cap Up(t, n) : key[s] <= key[a] /\ key[a] <= key[n]
      BY <2>2, Between
    <3>2. a \in S /\ Up(t, n) \subseteq S
      BY <3>1, UpIs
    <3>3. CASE a = s
      <4>1. PICK d \in Side : /\ t.down[d][s] \in Up(t, n)
                              /\ IF d = "left" THEN key[n] < key[s] ELSE key[s] < key[n]
        BY <1>9, <3>1, <3>3, BelowChild
      <4>2. d = "right"
        BY <1>0, <2>2, <4>1 DEF Side
      <4> QED
        BY <1>5, <4>1, <4>2 DEF c
    <3>4. CASE a # s
      <4>1. PICK d \in Side : /\ t.down[d][a] \in Up(t, s)
                              /\ IF d = "left" THEN key[s] < key[a] ELSE key[a] < key[s]
        BY <3>1, <3>4, BelowChild
      <4>2. d = "left"
        BY <1>0, <3>1, <3>2, <4>1
      <4> DEFINE b == t.down["left"][a]
      <4>3. b \in Up(t, r) /\ b \in S
        <5>1. Up(t, s) \subseteq S
          BY UpIs
        <5> QED
          BY <1>8, <4>1, <4>2, <5>1
      <4>4. hi[b] <= key[a]
        BY <1>0, <1>1, <3>2, <4>3 DEF Ordered
      <4> HIDE DEF b
      <4>5. hi[r] <= hi[b]
        BY <1>1, <1>5, <4>3, Around
      <4> QED
        BY <1>0, <1>5, <1>6, <3>1, <3>2, <4>3, <4>4, <4>5
    <3> QED
      BY <3>3, <3>4
  <2> QED
    BY <1>0, <1>9, <2>2
<1>10. r # s
  BY <1>0, <1>5, <1>7
<1> QED
  BY <1>2, <1>5, <1>7, <1>9, <1>10 DEF c, r, SuccessorOf

-----------------------------------------------------------------------------
(* Taking a node out.                                                      *)

\* c is the only child that s may have.
OnlyChild(t, s, c) == \E d \in Side : t.down[d][s] = Nil /\ t.down[Other(d)][s] = c

\* t without s, in whose place its only child c is put
Dropped(t, s, c, u) ==
  /\ u \in Tree
  /\ u.root = IF s = t.root THEN c ELSE t.root
  /\ \A n \in Slot : u.up[n] = IF n = s THEN Nil ELSE IF n = c THEN t.up[s] ELSE t.up[n]
  /\ \A f \in Side, n \in Slot :
       u.down[f][n] = IF n = s THEN Nil ELSE IF t.down[f][n] = s THEN c ELSE t.down[f][n]
  /\ \A n \in Slot : u.color[n] = IF n = s THEN "black" ELSE t.color[n]

(* The rest is sorted.                                                     *)
LEMMA DropSorted ==
  ASSUME NEW S \in SUBSET Slot, NEW key \in [Slot -> Int], NEW t, Sorted(t, S, key), NEW s \in S,
         NEW c, OnlyChild(t, s, c), NEW u, Dropped(t, s, c, u)
  PROVE  Sorted(u, S \ {s}, key)
<1> DEFINE T == S \ {s}
           a == t.up[s]
<1>0. t \in Tree /\ Links(t, S) /\ Nil \notin S /\ Nil \notin Slot
  BY Sides DEF Sorted
<1>1. PICK lo, hi : Ordered(t, S, key, lo, hi)
  BY DEF Sorted
<1>2. PICK d \in Side : t.down[d][s] = Nil /\ t.down[Other(d)][s] = c
  BY DEF OnlyChild
<1>3. Other(d) \in Side /\ Other(d) # d /\ \A f \in Side : f = d \/ f = Other(d)
  BY Sides
<1>4. /\ u \in Tree
      /\ u.root = IF s = t.root THEN c ELSE t.root
      /\ \A n \in Slot : u.up[n] = IF n = s THEN Nil ELSE IF n = c THEN a ELSE t.up[n]
      /\ \A f \in Side, n \in Slot :
           u.down[f][n] = IF n = s THEN Nil ELSE IF t.down[f][n] = s THEN c ELSE t.down[f][n]
  BY DEF Dropped
<1>5. /\ t.root \in S \cup {Nil} /\ (S = {} <=> t.root = Nil)
      /\ \A n \in S : IF n = t.root THEN t.up[n] = Nil
              ELSE t.up[n] \in S /\ \E f \in Side : t.down[f][t.up[n]] = n
      /\ \A n \in Slot \ S : t.up[n] = Nil /\ \A f \in Side : t.down[f][n] = Nil
  BY <1>0 DEF Links, RootLinked, UpLinked, Unlinks
<1>6. \A q \in S, f \in Side : t.down[f][q] # Nil =>
         /\ t.down[f][q] \in S /\ t.up[t.down[f][q]] = q /\ t.down[f][q] # q
         /\ t.down[Other(f)][q] # t.down[f][q]
  BY <1>0, <1>1, Narrower
<1>7. c # Nil => c \in T /\ t.up[c] = s /\ c # t.root
  BY <1>0, <1>2, <1>3, <1>5, <1>6
<1>8. (a # s /\ a # c) \/ a = Nil
  <2>1. CASE c # Nil
    <3>1. Apart(t, S, s, d)
      BY <1>2, <2>1, KinApart
    <3> QED
      BY <1>2, <3>1 DEF Apart
  <2>2. CASE c = Nil
    <3>1. a # Nil => a # s
      BY <1>0, <1>5, <1>6
    <3> QED
      BY <2>2, <3>1
  <2> QED
    BY <2>1, <2>2
<1>9. a = t.up[s] /\ (a # Nil => a \in S) /\ (a = Nil <=> s = t.root)
  BY <1>0, <1>5
<1> HIDE DEF a
<1>10. RootLinked(u, T)
  <2>1. s = t.root /\ c = Nil => T = {}
    <3> SUFFICES ASSUME s = t.root, c = Nil, NEW n \in T PROVE FALSE
      OBVIOUS
    <3>1. Up(t, n) \subseteq S /\ s \in Up(t, n) /\ n # s
      BY UpIs
    <3>2. PICK g \in Side : t.down[g][s] \in Up(t, n)
      BY <3>1, BelowChild
    <3> QED
      BY <1>0, <1>2, <1>3, <3>1, <3>2
  <2>2. s = t.root => (c = Nil <=> T = {})
    BY <1>7, <2>1
  <2>3. s # t.root => t.root \in T
    BY <1>5
  <2> QED
    BY <1>0, <1>4, <1>7, <2>2, <2>3 DEF RootLinked
<1>11. Unlinks(u, T)
  BY <1>0, <1>4, <1>5, <1>6, <1>7 DEF Unlinks
<1>12. UpLinked(u, T)
  <2> SUFFICES ASSUME NEW n \in T
               PROVE  IF n = u.root THEN u.up[n] = Nil
                      ELSE u.up[n] \in T /\ \E f \in Side : u.down[f][u.up[n]] = n
    BY DEF UpLinked
  <2>1. CASE n = c
    <3>1. u.up[n] = a
      BY <1>4, <2>1
    <3>2. CASE s = t.root
      BY <1>4, <1>9, <2>1, <3>1, <3>2
    <3>3. CASE s # t.root
      <4>1. PICK f \in Side : t.down[f][a] = s
        BY <1>5, <1>9, <3>3
      <4>2. a \in T /\ u.down[f][a] = c
        BY <1>0, <1>4, <1>8, <1>9, <3>3, <4>1
      <4>3. n # u.root
        BY <1>0, <1>4, <1>7, <2>1, <3>3
      <4> QED
        BY <2>1, <3>1, <4>2, <4>3
    <3> QED
      BY <3>2, <3>3
  <2>2. CASE n # c
    <3>1. u.up[n] = t.up[n] /\ n # s /\ n \in S
      BY <1>4, <2>2
    <3>2. CASE n = t.root
      BY <1>4, <1>5, <3>1, <3>2
    <3>3. CASE n # t.root
      <4>1. PICK f \in Side : t.up[n] \in S /\ t.down[f][t.up[n]] = n
        BY <1>5, <3>1, <3>3
      <4>2. t.up[n] # s
        BY <1>0, <1>2, <1>3, <2>2, <3>1, <4>1
      <4>3. u.down[f][t.up[n]] = n /\ n # u.root
        BY <1>4, <2>2, <3>1, <3>3, <4>1, <4>2
      <4> QED
        BY <3>1, <4>1, <4>2, <4>3
    <3> QED
      BY <3>2, <3>3
  <2> QED
    BY <2>1, <2>2
<1>13. DownLinked(u, T)
  <2> SUFFICES ASSUME NEW q \in T, NEW f \in Side, u.down[f][q] # Nil
               PROVE  /\ u.down[f][q] \in T /\ u.up[u.down[f][q]] = q
                      /\ u.down[Other(f)][q] # u.down[f][q]
    BY DEF DownLinked
  <2>1. /\ u.down[f][q] = IF t.down[f][q] = s THEN c ELSE t.down[f][q]
        /\ u.down[Other(f)][q] = IF t.down[Other(f)][q] = s THEN c ELSE t.down[Other(f)][q]
        /\ q \in S /\ q # s /\ Other(f) \in Side /\ Other(Other(f)) = f
    BY <1>4, Sides
  <2>2. \A h \in Side : t.down[h][q] # c \/ c = Nil
    BY <1>6, <1>7, <2>1
  <2>3. CASE t.down[f][q] = s
    <3>1. c # Nil /\ u.down[f][q] = c /\ q = a
      BY <1>0, <1>6, <1>9, <2>1, <2>3
    <3>2. u.up[c] = a /\ c \in T
      BY <1>4, <1>7, <3>1
    <3>3. t.down[Other(f)][q] # s
      BY <1>0, <1>6, <2>1, <2>3
    <3> QED
      BY <2>1, <2>2, <3>1, <3>2, <3>3
  <2>4. CASE t.down[f][q] # s
    <3> DEFINE n == t.down[f][q]
    <3>1. u.down[f][q] = n /\ n # Nil /\ n # s /\ n \in S /\ t.up[n] = q
      BY <1>6, <2>1, <2>4
    <3>2. n # c
      BY <2>2, <3>1
    <3>3. t.down[Other(f)][q] # n
      BY <1>6, <2>1, <3>1
    <3> HIDE DEF n
    <3> QED
      BY <1>4, <2>1, <3>1, <3>2, <3>3
  <2> QED
    BY <2>3, <2>4
<1>14. Ordered(u, T, key, lo, hi)
  <2>1. /\ lo \in [Slot -> Int] /\ hi \in [Slot -> Int]
        /\ \A p \in S : lo[p] \in Int /\ hi[p] \in Int /\ key[p] \in Int
        /\ \A p \in S : lo[p] < key[p] /\ key[p] < hi[p]
        /\ \A p \in S : t.down["left"][p] # Nil =>
             lo[p] <= lo[t.down["left"][p]] /\ hi[t.down["left"][p]] <= key[p]
        /\ \A p \in S : t.down["right"][p] # Nil =>
             key[p] <= lo[t.down["right"][p]] /\ hi[t.down["right"][p]] <= hi[p]
    BY <1>1 DEF Ordered
  <2>2. c # Nil => lo[s] <= lo[c] /\ hi[c] <= hi[s]
    <3>1. c # Nil => s \in Up(t, c)
      <4>1. c # Nil => c \in Up(t, c) /\ \A x \in Up(t, c) : t.up[x] # Nil => t.up[x] \in Up(t, c)
        BY <1>7, UpIs
      <4> QED
        BY <1>0, <1>7, <4>1
    <3> QED
      BY <1>1, <1>7, <3>1, Around
  <2>3. "left" \in Side /\ "right" \in Side
    BY Sides
  <2>4. ASSUME NEW p \in T, u.down["left"][p] # Nil
        PROVE  lo[p] <= lo[u.down["left"][p]] /\ hi[u.down["left"][p]] <= key[p]
    BY <1>0, <1>4, <1>7, <2>1, <2>2, <2>3, <2>4
  <2>5. ASSUME NEW p \in T, u.down["right"][p] # Nil
        PROVE  key[p] <= lo[u.down["right"][p]] /\ hi[u.down["right"][p]] <= hi[p]
    BY <1>0, <1>4, <1>7, <2>1, <2>2, <2>3, <2>5
  <2> QED
    BY <2>1, <2>4, <2>5 DEF Ordered
<1> QED
  BY <1>4, <1>10, <1>11, <1>12, <1>13, <1>14 DEF Sorted, Links

\* What is left when the slot was red, and when it was black
Plain(t, S, key) ==
  Sorted(t, S, key) /\ Reds(t, S, Nil, Nil) /\ \E bh : Balanced(t, S, bh, Nil, Nil)

(* A red node can be dropped, and without a black one a black node is      *)
(* missing in its place.                                                   *)
LEMMA DropBalance ==
  ASSUME NEW S \in SUBSET Slot, NEW key \in [Slot -> Int], NEW t, Plain(t, S, key), NEW s \in S,
         NEW c, OnlyChild(t, s, c), NEW u, Dropped(t, s, c, u)
  PROVE  /\ t.color[s] = "red" => Plain(u, S \ {s}, key)
         /\ t.color[s] # "red" => \E bh, g : Short(u, S \ {s}, key, bh, c, t.up[s], g)
<1> DEFINE T == S \ {s}
           a == t.up[s]
<1>0. /\ t \in Tree /\ Links(t, S) /\ Nil \notin S /\ Nil \notin Slot
      /\ Sorted(t, S, key) /\ Reds(t, S, Nil, Nil)
  BY Sides DEF Sorted, Plain
<1>1. PICK bh : Balanced(t, S, bh, Nil, Nil)
  BY DEF Plain
<1>2. PICK d \in Side : t.down[d][s] = Nil /\ t.down[Other(d)][s] = c
  BY DEF OnlyChild
<1>3. Other(d) \in Side /\ Other(d) # d /\ \A f \in Side : f = d \/ f = Other(d)
  BY Sides
<1>4. /\ u \in Tree
      /\ u.root = IF s = t.root THEN c ELSE t.root
      /\ \A n \in Slot : u.up[n] = IF n = s THEN Nil ELSE IF n = c THEN a ELSE t.up[n]
      /\ \A f \in Side, n \in Slot :
           u.down[f][n] = IF n = s THEN Nil ELSE IF t.down[f][n] = s THEN c ELSE t.down[f][n]
      /\ \A n \in Slot : u.color[n] = IF n = s THEN "black" ELSE t.color[n]
  BY DEF Dropped
<1>5. Sorted(u, T, key) /\ Links(u, T)
  <2>1. Sorted(u, T, key)
    BY <1>0, DropSorted
  <2> QED
    BY <2>1 DEF Sorted
<1>6. /\ bh \in [Slot -> Nat]
      /\ \A q \in S, f \in Side : bh[q] = BlackHeight(t, bh, t.down[f][q])
      /\ \A n \in Link : BlackHeight(t, bh, n) \in Nat /\ BlackHeight(u, bh, n) \in Nat
  <2>1. bh \in [Slot -> Nat]
    BY <1>1 DEF Balanced
  <2> QED
    BY <1>0, <1>1, <1>4, <2>1, PlainBalanced
<1>7. \A q \in S, f \in Side : t.down[f][q] # Nil => t.down[f][q] \in S /\ t.up[t.down[f][q]] = q
  BY <1>0 DEF Links, DownLinked
<1>8. \A n \in S : n # t.root => t.up[n] \in S /\ \E f \in Side : t.down[f][t.up[n]] = n
  BY <1>0 DEF Links, UpLinked
<1>9. /\ c # Nil => c \in T /\ t.up[c] = s /\ c # t.root
      /\ c \in Link
  <2>1. c # Nil => c \in S /\ t.up[c] = s
    BY <1>2, <1>3, <1>7
  <2>2. c # t.root \/ c = Nil
    BY <1>0, <2>1 DEF Links, UpLinked
  <2>3. c # s \/ c = Nil
    <3>1. c # Nil => Apart(t, S, s, d)
      BY <1>0, <1>2, KinApart
    <3> QED
      BY <1>2, <3>1 DEF Apart
  <2> QED
    BY <2>1, <2>2, <2>3 DEF Link
<1>10. a = t.up[s] /\ (a # Nil => a \in T) /\ (a = Nil <=> s = t.root)
  <2>1. s = t.root => a = Nil
    BY <1>0 DEF Links, UpLinked
  <2>2. s # t.root => a \in S
    BY <1>8
  <2>3. s # t.root => a # s
    <3>1. s # t.root => t.root \in Up(t, s)
      BY <1>0, UpIs
    <3> SUFFICES ASSUME s # t.root, a = s PROVE FALSE
      OBVIOUS
    <3> DEFINE A == {s}
    <3>2. s \in A /\ \A n \in A \cap Up(t, s) : t.up[n] # Nil => t.up[n] \in A
      OBVIOUS
    <3>3. Up(t, s) \subseteq A
      <4> HIDE DEF A
      <4> QED
        BY <1>0, <3>2, UpIs
    <3> QED
      BY <3>1, <3>3
  <2> QED
    BY <1>0, <2>1, <2>2, <2>3
<1> HIDE DEF a
<1>11. \A n \in Link : n # s => BlackHeight(u, bh, n) = BlackHeight(t, bh, n)
  BY <1>4 DEF BlackHeight, Link
<1>12. bh[s] = BlackHeight(t, bh, c)
  BY <1>2, <1>3, <1>6
<1>13. ASSUME NEW q \in T, NEW f \in Side
       PROVE  /\ t.down[f][q] # s => bh[q] = BlackHeight(u, bh, u.down[f][q])
              /\ t.down[f][q] = s => /\ u.down[f][q] = c /\ q = a
                                     /\ bh[q] = BlackHeight(t, bh, s)
                                     /\ BlackHeight(u, bh, u.down[f][q]) = bh[s]
  <2>1. u.down[f][q] = (IF t.down[f][q] = s THEN c ELSE t.down[f][q]) /\ t.down[f][q] \in Link
    BY <1>0, <1>4 DEF Tree
  <2>2. c # s
    BY <1>0, <1>9
  <2> QED
    BY <1>0, <1>6, <1>7, <1>9, <1>10, <1>11, <1>12, <2>1, <2>2
<1>14. \A n \in S : t.color[n] = "red" => n # t.root /\ t.up[n] \in S /\ t.color[t.up[n]] # "red"
  BY <1>0, NoRedPair
<1>15. ASSUME t.color[s] = "red" PROVE Plain(u, T, key)
  <2>1. BlackHeight(t, bh, s) = bh[s]
    BY <1>0, <1>15 DEF BlackHeight
  <2>2. \A q \in T, f \in Side : bh[q] = BlackHeight(u, bh, u.down[f][q])
    BY <1>13, <2>1
  <2>3. Balanced(u, T, bh, Nil, Nil)
    <3>1. T \in SUBSET Slot /\ Nil \notin T
      BY <1>0
    <3> HIDE DEF T
    <3> QED
      BY <1>4, <1>6, <2>2, <3>1, PlainBalanced
  <2>4. Reds(u, T, Nil, Nil)
    <3> SUFFICES ASSUME NEW n \in T, u.color[n] = "red"
                 PROVE  n # u.root /\ u.color[u.up[n]] # "red"
      BY DEF Reds
    <3>1. t.color[n] = "red" /\ n # t.root /\ t.up[n] \in S /\ t.color[t.up[n]] # "red" /\ n # s
      BY <1>4, <1>14
    <3>2. s # t.root
      BY <1>14, <1>15
    <3>3. n # c
      BY <1>0, <1>9, <1>15, <3>1
    <3> QED
      BY <1>4, <1>15, <3>1, <3>2, <3>3
  <2> QED
    BY <1>5, <2>3, <2>4 DEF Plain
<1>16. ASSUME t.color[s] # "red" PROVE \E bh2, g : Short(u, T, key, bh2, c, a, g)
  <2>1. BlackHeight(t, bh, s) = bh[s] + 1
    BY <1>0, <1>16 DEF BlackHeight, Tree, Color
  <2>2. PICK g : a # Nil => g \in Side /\ t.down[g][a] = s
    BY <1>8, <1>10
  <2>3. ASSUME NEW q \in T, NEW f \in Side
        PROVE  bh[q] = BlackHeight(u, bh, u.down[f][q]) + (IF q = a /\ f = g THEN 1 ELSE 0)
    <3>1. u.down[f][q] \in Link
      BY <1>4 DEF Tree
    <3>2. CASE t.down[f][q] = s
      <4>1. q = a /\ a # Nil
        BY <1>0, <1>13, <3>2
      <4>2. f = g
        <5>1. t.down[f][q] # Nil => t.down[Other(f)][q] # t.down[f][q]
          BY <1>0 DEF Links, DownLinked
        <5> QED
          BY <1>0, <2>2, <3>2, <4>1, <5>1, Sides
      <4> QED
        BY <1>13, <2>1, <3>2, <4>1, <4>2
    <3>3. CASE t.down[f][q] # s
      <4>1. ~(q = a /\ f = g)
        BY <1>0, <2>2, <3>3
      <4>2. BlackHeight(u, bh, u.down[f][q]) \in Nat
        BY <1>6, <3>1
      <4> QED
        BY <1>13, <3>3, <4>1, <4>2
    <3> QED
      BY <3>2, <3>3
  <2>4. Balanced(u, T, bh, a, g)
    BY <1>6, <2>3 DEF Balanced
  <2>5. Reds(u, T, c, c)
    <3> SUFFICES ASSUME NEW n \in T, u.color[n] = "red", n # c
                 PROVE  n # u.root /\ (u.color[u.up[n]] = "red" => u.up[n] = c)
      BY DEF Reds
    <3>1. t.color[n] = "red" /\ n # t.root /\ t.up[n] \in S /\ t.color[t.up[n]] # "red" /\ n # s
      BY <1>4, <1>14
    <3>2. PICK f \in Side : t.down[f][t.up[n]] = n
      BY <1>8, <3>1
    <3>3. t.up[n] # s
      BY <1>0, <1>2, <1>3, <3>1, <3>2
    <3> QED
      BY <1>4, <3>1, <3>3
  <2>6. IF a = Nil THEN c = u.root ELSE g \in Side /\ u.down[g][a] = c
    BY <1>4, <1>10, <2>2
  <2>7. Short(u, T, key, bh, c, a, g)
    BY <1>5, <1>10, <2>4, <2>5, <2>6 DEF Short
  <2> QED
    BY <2>7
<1> QED
  BY <1>15, <1>16 DEF a

\* r, which is not in the tree, in the place of s
Renamed(t, s, r, u) ==
  /\ u \in Tree
  /\ u.root = IF s = t.root THEN r ELSE t.root
  /\ \A n \in Slot : u.up[n] = IF n = s THEN Nil ELSE IF n = r THEN t.up[s]
                               ELSE IF t.up[n] = s THEN r ELSE t.up[n]
  /\ \A f \in Side, n \in Slot :
       u.down[f][n] = IF n = s THEN Nil ELSE IF n = r THEN t.down[f][s]
                      ELSE IF t.down[f][n] = s THEN r ELSE t.down[f][n]
  /\ \A n \in Slot : u.color[n] = IF n = s THEN "black" ELSE IF n = r THEN t.color[s]
                                  ELSE t.color[n]

\* The nodes of t by their names in the renamed tree, and back
Forth(s, r) == [m \in Link |-> IF m = s THEN r ELSE m]
Back(s, r) == [n \in Link |-> IF n = r THEN s ELSE n]

\* u is t under other names.
Copied(t, S, u, T, forth, back) ==
  /\ forth[Nil] = Nil /\ back[Nil] = Nil
  /\ \A m \in S : forth[m] \in T /\ back[forth[m]] = m
  /\ \A n \in T : back[n] \in S /\ forth[back[n]] = n
  /\ u.root = forth[t.root]
  /\ \A n \in T : /\ u.up[n] = forth[t.up[back[n]]] /\ u.color[n] = t.color[back[n]]
                  /\ \A f \in Side : u.down[f][n] = forth[t.down[f][back[n]]]

(* It is.                                                                  *)
LEMMA RenamedCopied ==
  ASSUME NEW S \in SUBSET Slot, NEW t \in Tree, Links(t, S), NEW s \in S, NEW r \in Slot \ S,
         NEW u, Renamed(t, s, r, u), t.up[s] # s, \A f \in Side : t.down[f][s] # s
  PROVE  Copied(t, S, u, (S \ {s}) \cup {r}, Forth(s, r), Back(s, r)) /\ Unlinks(u, (S \ {s}) \cup {r})
<1> DEFINE T == (S \ {s}) \cup {r}
           forth == Forth(s, r)
           back == Back(s, r)
<1>0. Nil \notin Slot /\ s \in Slot /\ r \in Slot /\ r # s /\ r \notin S /\ T \subseteq Slot
  BY Sides
<1>1. /\ u.root = IF s = t.root THEN r ELSE t.root
      /\ \A n \in Slot : u.up[n] = IF n = s THEN Nil ELSE IF n = r THEN t.up[s]
                               ELSE IF t.up[n] = s THEN r ELSE t.up[n]
      /\ \A f \in Side, n \in Slot :
           u.down[f][n] = IF n = s THEN Nil ELSE IF n = r THEN t.down[f][s]
                      ELSE IF t.down[f][n] = s THEN r ELSE t.down[f][n]
      /\ \A n \in Slot : u.color[n] = IF n = s THEN "black" ELSE IF n = r THEN t.color[s]
                                  ELSE t.color[n]
  BY DEF Renamed
<1>2. /\ t.root \in Link /\ \A n \in Slot : t.up[n] \in Link
      /\ \A n \in Slot, f \in Side : t.down[f][n] \in Link
  BY DEF Tree
<1>3. /\ \A m \in Link : forth[m] = IF m = s THEN r ELSE m
      /\ \A n \in Link : back[n] = IF n = r THEN s ELSE n
      /\ Nil \in Link /\ Slot \subseteq Link
  BY DEF Forth, Back, Link
<1> HIDE DEF forth, back
<1>4. /\ forth[Nil] = Nil /\ back[Nil] = Nil
      /\ \A m \in S : forth[m] \in T /\ back[forth[m]] = m
      /\ \A n \in T : back[n] \in S /\ forth[back[n]] = n
  BY <1>0, <1>3
<1>5. u.root = forth[t.root]
  BY <1>1, <1>2, <1>3
<1>6. ASSUME NEW n \in T
      PROVE  /\ u.up[n] = forth[t.up[back[n]]] /\ u.color[n] = t.color[back[n]]
             /\ \A f \in Side : u.down[f][n] = forth[t.down[f][back[n]]]
  <2>1. CASE n = r
    BY <1>0, <1>1, <1>2, <1>3, <2>1
  <2>2. CASE n # r
    <3>1. n # s /\ n \in Slot /\ back[n] = n
      BY <1>0, <1>3, <2>2
    <3> QED
      BY <1>1, <1>2, <1>3, <2>2, <3>1
  <2> QED
    BY <2>1, <2>2
<1>7. Unlinks(u, T)
  <2>1. \A n \in Slot \ S : t.up[n] = Nil /\ \A f \in Side : t.down[f][n] = Nil
    BY DEF Links, Unlinks
  <2> QED
    BY <1>0, <1>1, <2>1 DEF Unlinks
<1> QED
  BY <1>4, <1>5, <1>6, <1>7 DEF Copied, forth, back

(* A copy has the links of the tree.                                       *)
LEMMA CopyLinks ==
  ASSUME NEW S \in SUBSET Slot, NEW t \in Tree, Links(t, S), NEW T \in SUBSET Slot, NEW u,
         NEW forth, NEW back, Copied(t, S, u, T, forth, back), Unlinks(u, T)
  PROVE  Links(u, T)
<1>0. Nil \notin S /\ Nil \notin T /\ \A f \in Side : Other(f) \in Side
  BY Sides
<1>1. /\ forth[Nil] = Nil /\ back[Nil] = Nil
      /\ \A m \in S : forth[m] \in T /\ back[forth[m]] = m
      /\ \A n \in T : back[n] \in S /\ forth[back[n]] = n
      /\ u.root = forth[t.root]
      /\ \A n \in T : /\ u.up[n] = forth[t.up[back[n]]]
                      /\ \A f \in Side : u.down[f][n] = forth[t.down[f][back[n]]]
  BY DEF Copied
<1>2. /\ t.root \in S \cup {Nil} /\ (S = {} <=> t.root = Nil)
      /\ \A n \in S : IF n = t.root THEN t.up[n] = Nil
              ELSE t.up[n] \in S /\ \E f \in Side : t.down[f][t.up[n]] = n
      /\ \A q \in S, f \in Side : t.down[f][q] # Nil =>
           /\ t.down[f][q] \in S /\ t.up[t.down[f][q]] = q
           /\ t.down[Other(f)][q] # t.down[f][q]
  BY DEF Links, RootLinked, UpLinked, DownLinked
<1>3. RootLinked(u, T)
  <2>1. S = {} <=> T = {}
    BY <1>1
  <2> QED
    BY <1>0, <1>1, <1>2, <2>1 DEF RootLinked
<1>4. UpLinked(u, T)
  <2> SUFFICES ASSUME NEW n \in T
               PROVE  IF n = u.root THEN u.up[n] = Nil
                      ELSE u.up[n] \in T /\ \E f \in Side : u.down[f][u.up[n]] = n
    BY DEF UpLinked
  <2> DEFINE m == back[n]
  <2>1. m \in S /\ forth[m] = n /\ u.up[n] = forth[t.up[m]]
    BY <1>1
  <2>2. CASE m = t.root
    <3>1. n = u.root
      BY <1>1, <2>1, <2>2
    <3> QED
      BY <1>1, <1>2, <2>1, <2>2, <3>1
  <2>3. CASE m # t.root
    <3>1. t.up[m] \in S /\ \E f \in Side : t.down[f][t.up[m]] = m
      BY <1>2, <2>1, <2>3
    <3>2. PICK f \in Side : t.down[f][t.up[m]] = m
      BY <3>1
    <3> DEFINE p == t.up[m]
               q == u.up[n]
    <3>3. q = forth[p] /\ q \in T /\ back[q] = p /\ t.down[f][p] = m
      BY <1>1, <2>1, <3>1, <3>2
    <3> HIDE DEF m, p, q
    <3>4. u.down[f][q] = n
      BY <1>1, <2>1, <3>3
    <3>5. n # u.root
      <4>1. n = u.root => back[n] = t.root
        BY <1>0, <1>1, <1>2
      <4> QED
        BY <2>3, <4>1 DEF m
    <3> QED
      BY <3>3, <3>4, <3>5 DEF q
  <2> QED
    BY <2>2, <2>3
<1>5. DownLinked(u, T)
  <2> SUFFICES ASSUME NEW q \in T, NEW f \in Side, u.down[f][q] # Nil
               PROVE  /\ u.down[f][q] \in T /\ u.up[u.down[f][q]] = q
                      /\ u.down[Other(f)][q] # u.down[f][q]
    BY DEF DownLinked
  <2> DEFINE p == back[q]
             c == t.down[f][p]
             n == u.down[f][q]
  <2>1. p \in S /\ forth[p] = q /\ n = forth[c] /\ c # Nil
    BY <1>1
  <2>2. c \in S /\ t.up[c] = p /\ t.down[Other(f)][p] # c
    BY <1>2, <2>1
  <2>3. n \in T /\ back[n] = c
    BY <1>1, <2>1, <2>2
  <2>4. u.down[Other(f)][q] = forth[t.down[Other(f)][p]]
    BY <1>0, <1>1
  <2>5. t.down[Other(f)][p] # Nil => t.down[Other(f)][p] \in S
    BY <1>0, <1>2, <2>1
  <2> HIDE DEF p, c, n
  <2>6. u.up[n] = q
    BY <1>1, <2>1, <2>2, <2>3
  <2>7. u.down[Other(f)][q] # n
    BY <1>0, <1>1, <2>1, <2>2, <2>3, <2>4, <2>5
  <2> QED
    BY <2>3, <2>6, <2>7 DEF n
<1> QED
  BY <1>3, <1>4, <1>5 DEF Links

(* It keeps the colours and the balance too.                               *)
LEMMA CopyBalance ==
  ASSUME NEW S \in SUBSET Slot, NEW t \in Tree, Links(t, S), NEW T \in SUBSET Slot, NEW u \in Tree,
         NEW forth, NEW back, Copied(t, S, u, T, forth, back), Unlinks(u, T),
         NEW x \in S \cup {Nil}, NEW a \in S \cup {Nil}, NEW g
  PROVE  /\ Reds(t, S, x, x) => Reds(u, T, forth[x], forth[x])
         /\ (\E bh : Balanced(t, S, bh, a, g)) => \E bh2 : Balanced(u, T, bh2, forth[a], g)
<1>0. Nil \notin S /\ Nil \notin T
  BY Sides
<1>1. /\ forth[Nil] = Nil /\ back[Nil] = Nil
      /\ \A m \in S : forth[m] \in T /\ back[forth[m]] = m
      /\ \A n \in T : back[n] \in S /\ forth[back[n]] = n
      /\ u.root = forth[t.root]
      /\ \A n \in T : /\ u.up[n] = forth[t.up[back[n]]] /\ u.color[n] = t.color[back[n]]
                      /\ \A f \in Side : u.down[f][n] = forth[t.down[f][back[n]]]
  BY DEF Copied
<1>2. /\ \A n \in S : n # t.root => t.up[n] \in S
      /\ t.root \in S \cup {Nil}
      /\ \A q \in S, f \in Side : t.down[f][q] # Nil => t.down[f][q] \in S
  BY DEF Links, RootLinked, UpLinked, DownLinked
<1>3. ASSUME Reds(t, S, x, x) PROVE Reds(u, T, forth[x], forth[x])
  <2> SUFFICES ASSUME NEW n \in T, u.color[n] = "red", n # forth[x]
               PROVE  n # u.root /\ (u.color[u.up[n]] = "red" => u.up[n] = forth[x])
    BY DEF Reds
  <2> DEFINE m == back[n]
  <2>1. m \in S /\ forth[m] = n /\ t.color[m] = "red" /\ m # x
    BY <1>1
  <2>2. m # t.root /\ (t.color[t.up[m]] = "red" => t.up[m] = x) /\ t.up[m] \in S
    BY <1>2, <1>3, <2>1 DEF Reds
  <2>3. n # u.root
    BY <1>0, <1>1, <1>2, <2>1, <2>2
  <2>4. u.up[n] = forth[t.up[m]] /\ u.color[u.up[n]] = t.color[t.up[m]]
    BY <1>1, <2>1, <2>2
  <2> QED
    BY <2>2, <2>3, <2>4
<1>4. ASSUME NEW bh, Balanced(t, S, bh, a, g) PROVE \E bh2 : Balanced(u, T, bh2, forth[a], g)
  <2> DEFINE bh2 == [n \in Slot |-> IF n \in T THEN bh[back[n]] ELSE 0]
  <2>1. bh \in [Slot -> Nat]
    BY <1>4 DEF Balanced
  <2>2. bh2 \in [Slot -> Nat] /\ \A n \in T : bh2[n] = bh[back[n]]
    BY <1>1, <2>1
  <2> HIDE DEF bh2
  <2>3. \A m \in S : BlackHeight(u, bh2, forth[m]) = BlackHeight(t, bh, m)
    BY <1>0, <1>1, <2>2 DEF BlackHeight
  <2>4. BlackHeight(u, bh2, Nil) = BlackHeight(t, bh, Nil)
    BY DEF BlackHeight
  <2>5. ASSUME NEW q \in T, NEW f \in Side
        PROVE  bh2[q] = BlackHeight(u, bh2, u.down[f][q]) + (IF q = forth[a] /\ f = g THEN 1 ELSE 0)
    <3> DEFINE p == back[q]
    <3>1. p \in S /\ forth[p] = q /\ u.down[f][q] = forth[t.down[f][p]] /\ bh2[q] = bh[p]
      BY <1>1, <2>2
    <3>2. BlackHeight(u, bh2, u.down[f][q]) = BlackHeight(t, bh, t.down[f][p])
      BY <1>1, <1>2, <2>3, <2>4, <3>1
    <3>3. q = forth[a] <=> p = a
      BY <1>0, <1>1, <3>1
    <3>4. bh[p] = BlackHeight(t, bh, t.down[f][p]) + (IF p = a /\ f = g THEN 1 ELSE 0)
      BY <1>4, <3>1 DEF Balanced
    <3> HIDE DEF p
    <3> QED
      BY <3>1, <3>2, <3>3, <3>4
  <2>6. Balanced(u, T, bh2, forth[a], g)
    BY <2>2, <2>5 DEF Balanced
  <2> QED
    BY <2>6
<1> QED
  BY <1>3, <1>4

\* The bounds of the intervals, with the keys from a to b moved out of them
Low(a, b) == [v \in Int |-> IF a <= v /\ v < b THEN b ELSE v]
High(a, b) == [v \in Int |-> IF a < v /\ v <= b THEN b + 1 ELSE v]

(* They keep their order.                                                  *)
LEMMA LowHigh ==
  ASSUME NEW a \in Int, NEW b \in Int, a < b
  PROVE  /\ \A v \in Int : Low(a, b)[v] \in Int /\ High(a, b)[v] \in Int
         /\ \A v \in Int : v <= Low(a, b)[v] /\ v <= High(a, b)[v]
         /\ \A v, w \in Int : v <= w => Low(a, b)[v] <= Low(a, b)[w] /\ High(a, b)[v] <= High(a, b)[w]
         /\ \A v \in Int : v < a => Low(a, b)[v] = v
         /\ \A v \in Int : v <= a => High(a, b)[v] = v
         /\ \A v \in Int : a <= v => b <= Low(a, b)[v]
         /\ \A v \in Int : a < v => b < High(a, b)[v]
         /\ \A v, w \in Int : b < w /\ v < w => Low(a, b)[v] < w
         /\ \A v, w \in Int : b < w /\ v <= w => High(a, b)[v] <= w
<1>1. \A v \in Int : /\ Low(a, b)[v] = IF a <= v /\ v < b THEN b ELSE v
                     /\ High(a, b)[v] = IF a < v /\ v <= b THEN b + 1 ELSE v
  BY DEF Low, High
<1>2. \A v \in Int : Low(a, b)[v] \in Int /\ High(a, b)[v] \in Int
  BY <1>1
<1>3. \A v \in Int : v <= Low(a, b)[v] /\ v <= High(a, b)[v]
  BY <1>1
<1>4. \A v, w \in Int : v <= w => Low(a, b)[v] <= Low(a, b)[w] /\ High(a, b)[v] <= High(a, b)[w]
  BY <1>1
<1>5. \A v \in Int : v < a => Low(a, b)[v] = v
  BY <1>1
<1>6. \A v \in Int : v <= a => High(a, b)[v] = v
  BY <1>1
<1>7. \A v \in Int : a <= v => b <= Low(a, b)[v]
  BY <1>1
<1>8. \A v \in Int : a < v => b < High(a, b)[v]
  BY <1>1
<1>9. \A v, w \in Int : b < w /\ v < w => Low(a, b)[v] < w
  BY <1>1
<1>10. \A v, w \in Int : b < w /\ v <= w => High(a, b)[v] <= w
  BY <1>1
<1> QED
  BY <1>2, <1>3, <1>4, <1>5, <1>6, <1>7, <1>8, <1>9, <1>10

\* The key of s comes before the key of r, and no other key is between.
NextKey(S, key, s, r) ==
  key[s] < key[r] /\ \A n \in S : n # s => key[n] < key[s] \/ key[r] < key[n]

(* A copy in which r has the place of s is in order when r comes next.     *)
LEMMA RenameOrdered ==
  ASSUME NEW S \in SUBSET Slot, NEW key \in [Slot -> Int], NEW t \in Tree, Links(t, S),
         NEW lo, NEW hi, Ordered(t, S, key, lo, hi), NEW s \in S, NEW r \in Slot \ S,
         NEW T \in SUBSET Slot, T = (S \ {s}) \cup {r},
         NEW u, Copied(t, S, u, T, Forth(s, r), Back(s, r)), NextKey(S, key, s, r)
  PROVE  \E lo2, hi2 : Ordered(u, T, key, lo2, hi2)
<1> DEFINE forth == Forth(s, r)
           back == Back(s, r)
           low == Low(key[s], key[r])
           high == High(key[s], key[r])
           lo2 == [n \in Slot |-> IF n \in T THEN low[lo[back[n]]] ELSE 0]
           hi2 == [n \in Slot |-> IF n \in T THEN high[hi[back[n]]] ELSE 0]
<1>0. Nil \notin S /\ Nil \notin T /\ Nil \notin Slot /\ "left" \in Side /\ "right" \in Side
  BY Sides
<1>1. /\ forth[Nil] = Nil /\ back[Nil] = Nil
      /\ \A m \in S : forth[m] \in T /\ back[forth[m]] = m
      /\ \A n \in T : back[n] \in S /\ forth[back[n]] = n
      /\ \A n \in T : \A f \in Side : u.down[f][n] = forth[t.down[f][back[n]]]
  BY DEF Copied
<1>2. \A n \in T : (n = r => back[n] = s) /\ (n # r => back[n] = n /\ n # s)
  BY DEF Back, Link
<1>3. /\ lo \in [Slot -> Int] /\ hi \in [Slot -> Int]
      /\ \A p \in S : lo[p] \in Int /\ hi[p] \in Int /\ key[p] \in Int
      /\ \A p \in S : lo[p] < key[p] /\ key[p] < hi[p]
      /\ \A p \in S : t.down["left"][p] # Nil =>
           lo[p] <= lo[t.down["left"][p]] /\ hi[t.down["left"][p]] <= key[p]
      /\ \A p \in S : t.down["right"][p] # Nil =>
           key[p] <= lo[t.down["right"][p]] /\ hi[t.down["right"][p]] <= hi[p]
  BY DEF Ordered
<1>4. /\ key[s] \in Int /\ key[r] \in Int /\ key[s] < key[r]
      /\ \A n \in T : n # r => key[n] < key[s] \/ key[r] < key[n]
  BY <1>2 DEF NextKey
<1>5. \A n \in T : key[n] \in Int
  OBVIOUS
<1>6. /\ \A v \in Int : low[v] \in Int /\ high[v] \in Int
      /\ \A v \in Int : v <= low[v] /\ v <= high[v]
      /\ \A v, w \in Int : v <= w => low[v] <= low[w] /\ high[v] <= high[w]
      /\ \A v \in Int : v < key[s] => low[v] = v
      /\ \A v \in Int : v <= key[s] => high[v] = v
      /\ \A v \in Int : key[s] <= v => key[r] <= low[v]
      /\ \A v \in Int : key[s] < v => key[r] < high[v]
      /\ \A v, w \in Int : key[r] < w /\ v < w => low[v] < w
      /\ \A v, w \in Int : key[r] < w /\ v <= w => high[v] <= w
  BY <1>4, LowHigh
<1> HIDE DEF low, high, forth, back
<1>7. /\ lo2 \in [Slot -> Int] /\ hi2 \in [Slot -> Int]
      /\ \A n \in T : lo2[n] = low[lo[back[n]]] /\ hi2[n] = high[hi[back[n]]]
  BY <1>1, <1>3, <1>6
<1> HIDE DEF lo2, hi2
<1>8. \A p \in S, f \in Side : t.down[f][p] # Nil => t.down[f][p] \in S
  BY DEF Links, DownLinked
<1>9. ASSUME NEW p \in T PROVE lo2[p] < key[p] /\ key[p] < hi2[p]
  <2> DEFINE m == back[p]
             l == lo[m]
             h == hi[m]
  <2>1. /\ lo2[p] = low[l] /\ hi2[p] = high[h] /\ l \in Int /\ h \in Int /\ key[p] \in Int
        /\ key[m] \in Int /\ l < key[m] /\ key[m] < h
    BY <1>1, <1>3, <1>5, <1>7
  <2>2. /\ low[l] \in Int /\ high[h] \in Int /\ h <= high[h]
        /\ (l < key[s] => low[l] = l) /\ (key[s] < h => key[r] < high[h])
        /\ (key[r] < key[p] /\ l < key[p] => low[l] < key[p])
    BY <1>6, <2>1
  <2>3. CASE p = r
    <3>1. m = s
      BY <1>2, <2>3
    <3> HIDE DEF m, l, h
    <3> QED
      BY <1>4, <2>1, <2>2, <2>3, <3>1
  <2>4. CASE p # r
    <3>1. m = p /\ (key[p] < key[s] \/ key[r] < key[p])
      BY <1>2, <1>4, <2>4
    <3> HIDE DEF m, l, h
    <3> QED
      BY <1>4, <2>1, <2>2, <3>1
  <2> QED
    BY <2>3, <2>4
<1>10. ASSUME NEW p \in T, NEW f \in Side, u.down[f][p] # Nil
       PROVE  /\ u.down[f][p] \in T /\ back[u.down[f][p]] = t.down[f][back[p]]
              /\ t.down[f][back[p]] # Nil /\ t.down[f][back[p]] \in S
  <2>1. u.down[f][p] = forth[t.down[f][back[p]]] /\ back[p] \in S
    BY <1>1
  <2>2. t.down[f][back[p]] # Nil
    BY <1>1, <1>10, <2>1
  <2> QED
    BY <1>1, <1>8, <2>1, <2>2
<1>11. ASSUME NEW p \in T, u.down["left"][p] # Nil
       PROVE  lo2[p] <= lo2[u.down["left"][p]] /\ hi2[u.down["left"][p]] <= key[p]
  <2> DEFINE c == u.down["left"][p]
             m == back[p]
             k == back[c]
             h == hi[k]
  <2>1. c \in T /\ k = t.down["left"][m] /\ k # Nil /\ k \in S /\ m \in S
    BY <1>0, <1>1, <1>10, <1>11
  <2>2. /\ lo2[p] = low[lo[m]] /\ lo2[c] = low[lo[k]] /\ hi2[c] = high[h]
        /\ lo[m] \in Int /\ lo[k] \in Int /\ h \in Int /\ key[m] \in Int
        /\ lo[m] <= lo[k] /\ h <= key[m]
    BY <1>3, <1>7, <2>1
  <2>3. lo2[p] <= lo2[c]
    <3> HIDE DEF c, m, k, h
    <3> QED
      BY <1>6, <2>2
  <2>4. /\ high[h] \in Int /\ (h <= key[s] => high[h] = h)
        /\ (key[r] < key[p] /\ h <= key[p] => high[h] <= key[p])
    BY <1>5, <1>6, <2>2
  <2>5. CASE p = r
    <3>1. m = s
      BY <1>2, <2>5
    <3> HIDE DEF m, c, k, h
    <3>2. hi2[c] <= key[p]
      BY <1>4, <2>2, <2>4, <2>5, <3>1
    <3> QED
      BY <2>3, <3>2 DEF c
  <2>6. CASE p # r
    <3>1. m = p /\ (key[p] < key[s] \/ key[r] < key[p])
      BY <1>2, <1>4, <2>6
    <3> HIDE DEF m, c, k, h
    <3>2. hi2[c] <= key[p]
      BY <1>4, <2>2, <2>4, <3>1
    <3> QED
      BY <2>3, <3>2 DEF c
  <2> QED
    BY <2>5, <2>6
<1>12. ASSUME NEW p \in T, u.down["right"][p] # Nil
       PROVE  key[p] <= lo2[u.down["right"][p]] /\ hi2[u.down["right"][p]] <= hi2[p]
  <2> DEFINE c == u.down["right"][p]
             m == back[p]
             k == back[c]
             l == lo[k]
  <2>1. c \in T /\ k = t.down["right"][m] /\ k # Nil /\ k \in S /\ m \in S
    BY <1>0, <1>1, <1>10, <1>12
  <2>2. /\ hi2[p] = high[hi[m]] /\ lo2[c] = low[l] /\ hi2[c] = high[hi[k]]
        /\ hi[m] \in Int /\ hi[k] \in Int /\ l \in Int /\ key[m] \in Int
        /\ key[m] <= l /\ hi[k] <= hi[m]
    BY <1>3, <1>7, <2>1
  <2>3. hi2[c] <= hi2[p]
    <3> HIDE DEF c, m, k, l
    <3> QED
      BY <1>6, <2>2
  <2>4. low[l] \in Int /\ l <= low[l] /\ (key[s] <= l => key[r] <= low[l])
    BY <1>6, <2>2
  <2>5. key[p] <= lo2[c]
    <3>1. (p = r => m = s) /\ (p # r => m = p)
      BY <1>2
    <3> HIDE DEF m, c, k, l
    <3> QED
      BY <1>4, <2>2, <2>4, <3>1
  <2> QED
    BY <2>3, <2>5
<1>13. Ordered(u, T, key, lo2, hi2)
  BY <1>7, <1>9, <1>11, <1>12 DEF Ordered
<1> QED
  BY <1>13

(* r takes the place of s in a tree, whole or short of a black node.       *)
LEMMA RenameKeeps ==
  ASSUME NEW S \in SUBSET Slot, NEW key \in [Slot -> Int], NEW t, Sorted(t, S, key),
         NEW s \in S, NEW r \in Slot \ S, NEW u, Renamed(t, s, r, u), NextKey(S, key, s, r)
  PROVE  /\ Plain(t, S, key) => Plain(u, (S \ {s}) \cup {r}, key)
         /\ \A x, a : (\E bh, g : Short(t, S, key, bh, x, a, g)) /\ x # s =>
              \E bh, g : Short(u, (S \ {s}) \cup {r}, key, bh, x, Forth(s, r)[a], g)
<1> DEFINE T == (S \ {s}) \cup {r}
           forth == Forth(s, r)
<1>0. t \in Tree /\ Links(t, S) /\ Nil \notin S /\ Nil \notin Slot /\ u \in Tree /\ T \subseteq Slot
  BY Sides DEF Sorted, Renamed
<1>1. PICK lo, hi : Ordered(t, S, key, lo, hi)
  BY DEF Sorted
<1>2. \A f \in Side : t.down[f][s] # s
  BY <1>0, <1>1, Narrower
<1>3. t.up[s] # s
  BY <1>0, <1>2 DEF Links, UpLinked
<1>4. Copied(t, S, u, T, forth, Back(s, r)) /\ Unlinks(u, T)
  BY <1>0, <1>2, <1>3, RenamedCopied
<1>5. Links(u, T)
  <2> HIDE DEF T
  <2> QED
    BY <1>0, <1>4, CopyLinks
<1>6. Sorted(u, T, key)
  <2>1. T = (S \ {s}) \cup {r}
    OBVIOUS
  <2> HIDE DEF T
  <2>2. \E lo2, hi2 : Ordered(u, T, key, lo2, hi2)
    BY <1>0, <1>1, <1>4, <2>1, RenameOrdered
  <2> QED
    BY <1>0, <1>5, <2>2 DEF Sorted
<1>7. /\ forth[Nil] = Nil /\ \A x \in S \cup {Nil} : x # s => forth[x] = x
      /\ \A x \in S : forth[x] \in T
      /\ u.root = forth[t.root]
      /\ \A p \in S, f \in Side : u.down[f][forth[p]] = forth[t.down[f][p]]
  <2>1. forth[Nil] = Nil /\ \A x \in S \cup {Nil} : x # s => forth[x] = x
    BY <1>0 DEF Forth, Link
  <2> QED
    BY <1>4, <2>1 DEF Copied
<1> HIDE DEF forth, T
<1>8. ASSUME NEW x \in S \cup {Nil}, NEW a \in S \cup {Nil}, NEW g
      PROVE  /\ Reds(t, S, x, x) => Reds(u, T, forth[x], forth[x])
             /\ (\E bh : Balanced(t, S, bh, a, g)) => \E bh2 : Balanced(u, T, bh2, forth[a], g)
  BY <1>0, <1>4, CopyBalance
<1>9. Plain(t, S, key) => Plain(u, T, key)
  BY <1>6, <1>7, <1>8 DEF Plain
<1>10. ASSUME NEW x, NEW a, NEW bh, NEW g, Short(t, S, key, bh, x, a, g), x # s
       PROVE  \E bh2 : Short(u, T, key, bh2, x, forth[a], g)
  <2>1. /\ Balanced(t, S, bh, a, g) /\ Reds(t, S, x, x) /\ a \in S \cup {Nil}
        /\ IF a = Nil THEN x = t.root ELSE g \in Side /\ t.down[g][a] = x
    BY <1>10 DEF Short
  <2>2. x \in S \cup {Nil}
    BY <1>0, <2>1 DEF Links, RootLinked, DownLinked
  <2>3. forth[x] = x
    BY <1>7, <1>10, <2>2
  <2>4. Reds(u, T, x, x)
    BY <1>8, <2>1, <2>2, <2>3
  <2>5. PICK bh2 : Balanced(u, T, bh2, forth[a], g)
    BY <1>8, <2>1
  <2>6. forth[a] \in T \cup {Nil} /\ (forth[a] = Nil <=> a = Nil)
    BY <1>0, <1>7, <2>1, Sides
  <2>7. IF forth[a] = Nil THEN x = u.root ELSE g \in Side /\ u.down[g][forth[a]] = x
    BY <1>7, <2>1, <2>3, <2>6
  <2> QED
    BY <1>6, <2>4, <2>5, <2>6, <2>7 DEF Short
<1> QED
  BY <1>9, <1>10 DEF T, forth

-----------------------------------------------------------------------------
(* A removal up to its fix-up.                                             *)

\* t with new in the place of old
Transplanted(t, old, new, u) ==
  /\ u \in Tree /\ u.color = t.color
  /\ u.root = IF t.up[old] = Nil THEN new ELSE t.root
  /\ \A n \in Slot : u.up[n] = IF n = new THEN t.up[old] ELSE t.up[n]
  /\ \A f \in Side, n \in Slot :
       u.down[f][n] = IF n = t.up[old] /\ t.down[f][n] = old THEN new ELSE t.down[f][n]

\* old has a place: it is a root, or one of the children of its parent.
Placed(t, old) ==
  t.up[old] # Nil => \E f \in Side : /\ t.down[f][t.up[old]] = old
                                      /\ t.down[Other(f)][t.up[old]] # old

(* Transplant puts it there.                                               *)
LEMMA TransplantIs ==
  ASSUME NEW t \in Tree, NEW old \in Slot, NEW new \in Link, Placed(t, old)
  PROVE  Transplanted(t, old, new, Transplant(t, old, new))
<1> DEFINE p == t.up[old]
           r == Relink(t, p, "left", old, new)
           u == Transplant(t, old, new)
<1>0. Nil \notin Slot /\ "left" \in Side
  BY Sides
<1>1. p \in Link /\ (p # Nil => \E f \in Side : t.down[f][p] = old /\ t.down[Other(f)][p] # old)
  BY DEF Tree, Placed
<1>2. /\ r \in Tree /\ r.color = t.color /\ r.up = t.up
      /\ r.root = IF p = Nil THEN new ELSE t.root
      /\ \A f \in Side, n \in Slot :
           r.down[f][n] = IF n = p /\ t.down[f][n] = old THEN new ELSE t.down[f][n]
  <2> HIDE DEF p
  <2> QED
    BY <1>0, <1>1, RelinkIs
<1>3. u = IF new = Nil THEN r ELSE [r EXCEPT !.up[new] = p]
  BY DEF Transplant
<1> HIDE DEF p, r, u
<1>4. CASE new = Nil
  BY <1>0, <1>2, <1>3, <1>4 DEF Transplanted, p, u
<1>5. CASE new # Nil
  <2>1. new \in Slot /\ u = [r EXCEPT !.up[new] = p]
    BY <1>3, <1>5 DEF Link
  <2>2. u \in Tree /\ u.color = r.color /\ u.root = r.root /\ u.down = r.down
    BY <1>1, <1>2, <2>1 DEF Tree
  <2>3. \A n \in Slot : u.up[n] = IF n = new THEN p ELSE t.up[n]
    BY <1>1, <1>2, <2>1 DEF Tree
  <2> QED
    BY <1>2, <2>2, <2>3 DEF Transplanted, p, u
<1> QED
  BY <1>4, <1>5

(* The links at a node of the tree.                                        *)
LEMMA PlaceOf ==
  ASSUME NEW S \in SUBSET Slot, NEW key \in [Slot -> Int], NEW t, Sorted(t, S, key), NEW s \in S
  PROVE  /\ Placed(t, s) /\ t.up[s] # s /\ (t.up[s] = Nil <=> s = t.root)
         /\ \A f \in Side : t.down[f][s] # s
         /\ \A f \in Side, n \in Slot : t.down[f][n] = s <=> n = t.up[s] /\ t.down[f][n] = s
<1>0. t \in Tree /\ Links(t, S) /\ Nil \notin S
  BY Sides DEF Sorted
<1>1. PICK lo, hi : Ordered(t, S, key, lo, hi)
  BY DEF Sorted
<1>2. \A q \in S, f \in Side : t.down[f][q] # Nil =>
         /\ t.down[f][q] \in S /\ t.up[t.down[f][q]] = q /\ t.down[f][q] # q
         /\ t.down[Other(f)][q] # t.down[f][q]
  BY <1>0, <1>1, Narrower
<1>3. /\ \A n \in S : IF n = t.root THEN t.up[n] = Nil
                      ELSE t.up[n] \in S /\ \E f \in Side : t.down[f][t.up[n]] = n
      /\ \A n \in Slot \ S, f \in Side : t.down[f][n] = Nil
  BY <1>0 DEF Links, UpLinked, Unlinks
<1>4. \A f \in Side : t.down[f][s] # s
  BY <1>0, <1>2
<1>5. t.up[s] # s /\ (t.up[s] = Nil <=> s = t.root)
  BY <1>0, <1>3, <1>4
<1>6. Placed(t, s)
  <2> SUFFICES ASSUME t.up[s] # Nil
               PROVE  \E f \in Side : t.down[f][t.up[s]] = s /\ t.down[Other(f)][t.up[s]] # s
    BY DEF Placed
  <2>1. t.up[s] \in S /\ \E f \in Side : t.down[f][t.up[s]] = s
    BY <1>3, <1>5
  <2> QED
    BY <1>0, <1>2, <2>1
<1>7. \A f \in Side, n \in Slot : t.down[f][n] = s => n = t.up[s]
  BY <1>0, <1>2, <1>3
<1> QED
  BY <1>4, <1>5, <1>6, <1>7

\* What Unlinked adds to Closed
Cleared(t, s, u) ==
  /\ u \in Tree /\ u.root = t.root
  /\ \A n \in Slot : u.up[n] = IF n = s THEN Nil ELSE t.up[n]
  /\ \A f \in Side, n \in Slot : u.down[f][n] = IF n = s THEN Nil ELSE t.down[f][n]
  /\ \A n \in Slot : u.color[n] = IF n = s THEN "black" ELSE t.color[n]

(* It adds just that.                                                      *)
LEMMA ClearedIs ==
  ASSUME NEW t, NEW s \in Slot, Closed(t, s) \in Tree
  PROVE  Cleared(Closed(t, s), s, Unlinked(t, s))
<1> DEFINE c == Closed(t, s)
           u == Unlinked(t, s)
           D == [d \in Side |-> [c.down[d] EXCEPT ![s] = Nil]]
<1>1. u = [c EXCEPT !.up[s] = Nil, !.down = D, !.color[s] = "black"]
  BY DEF Unlinked
<1>2. c \in Tree /\ Nil \in Link
  BY DEF Link
<1> HIDE DEF c, u
<1>3. /\ D \in [Side -> [Slot -> Link]]
      /\ \A f \in Side, n \in Slot : D[f][n] = IF n = s THEN Nil ELSE c.down[f][n]
  BY <1>2 DEF Tree
<1> HIDE DEF D
<1>4. u \in Tree /\ u.root = c.root /\ u.down = D
  BY <1>1, <1>2, <1>3 DEF Tree, Color
<1>5. /\ \A n \in Slot : u.up[n] = IF n = s THEN Nil ELSE c.up[n]
      /\ \A n \in Slot : u.color[n] = IF n = s THEN "black" ELSE c.color[n]
  BY <1>1, <1>2 DEF Tree
<1> QED
  BY <1>3, <1>4, <1>5 DEF Cleared, c, u

\* s has at most one child, and its removal drops it.
Drops(t, s) ==
  /\ Removed(t, s) = s /\ ReplacementParent(t, s) = t.up[s]
  /\ OnlyChild(t, s, Replacement(t, s)) /\ Dropped(t, s, Replacement(t, s), Unlinked(t, s))

(* A node with at most one child is dropped.                               *)
LEMMA UnlinkDrops ==
  ASSUME NEW S \in SUBSET Slot, NEW key \in [Slot -> Int], NEW t, Sorted(t, S, key), NEW s \in S,
         Nil \in {t.down["left"][s], t.down["right"][s]}
  PROVE  Drops(t, s)
<1> DEFINE c == Replacement(t, s)
           w == Transplant(t, s, c)
           u == Unlinked(t, s)
<1>0. /\ t \in Tree /\ Links(t, S) /\ Nil \notin S /\ Nil \notin Slot
      /\ "left" \in Side /\ "right" \in Side
      /\ Other("left") = "right" /\ Other("right") = "left"
  BY Sides DEF Sorted
<1>1. Removed(t, s) = s /\ ReplacementParent(t, s) = t.up[s]
  BY DEF Removed, ReplacementParent
<1>2. c = IF t.down["left"][s] # Nil THEN t.down["left"][s] ELSE t.down["right"][s]
  BY <1>1 DEF Replacement
<1>3. OnlyChild(t, s, c)
  BY <1>0, <1>2 DEF OnlyChild
<1>4. c \in Link /\ c # s
  <2>1. c \in Link
    BY <1>0, <1>2 DEF Tree
  <2>2. \A f \in Side : t.down[f][s] # s
    BY PlaceOf
  <2> QED
    BY <1>0, <1>2, <2>1, <2>2
<1>5. Closed(t, s) = w
  BY <1>1 DEF Closed
<1> HIDE DEF c
<1>6. Placed(t, s) /\ (t.up[s] = Nil <=> s = t.root)
  BY PlaceOf
<1>7. Transplanted(t, s, c, w)
  BY <1>0, <1>4, <1>6, TransplantIs
<1>8. w \in Tree
  BY <1>7 DEF Transplanted
<1>9. Cleared(w, s, u)
  BY <1>5, <1>8, ClearedIs
<1>10. \A f \in Side, n \in Slot : t.down[f][n] = s <=> n = t.up[s] /\ t.down[f][n] = s
  BY PlaceOf
<1> HIDE DEF w, u
<1>11. Dropped(t, s, c, u)
  BY <1>4, <1>6, <1>7, <1>9, <1>10 DEF Dropped, Cleared, Transplanted
<1> QED
  BY <1>1, <1>3, <1>11 DEF Drops, c, u

\* The nodes around s, which has both children l and m, and its successor r,
\* with the right child c and the parent q
AroundBoth(t, s, r, l, m, c, q) ==
  /\ s \in Slot /\ r \in Slot /\ l \in Slot /\ m \in Slot /\ q \in Slot /\ c \in Link
  /\ t.down["left"][s] = l /\ t.down["right"][s] = m
  /\ t.down["left"][r] = Nil /\ t.down["right"][r] = c /\ t.up[r] = q
  /\ s # r /\ l # m /\ l # s /\ m # s /\ l # r /\ c # s /\ c # r /\ c # l /\ c # m /\ q # r
  /\ t.up[s] # s /\ t.up[s] # r /\ r # t.root
  /\ q = s <=> m = r
  /\ \A n \in Slot : t.up[n] = s <=> n \in {l, m}
  /\ \A n \in Slot : t.up[n] = r => n = c
  /\ c # Nil => t.up[c] = r
  /\ \A f \in Side, n \in Slot : t.down[f][n] = r <=> n = q /\ t.down[f][n] = r
  /\ \A f \in Side, n \in Slot : t.down[f][n] = s <=> n = t.up[s] /\ t.down[f][n] = s
  /\ t.up[s] = Nil <=> s = t.root
  /\ Placed(t, s) /\ Placed(t, r)

(* In a sorted tree they are placed like that.                             *)
LEMMA SuccessorAround ==
  ASSUME NEW S \in SUBSET Slot, NEW key \in [Slot -> Int], NEW t, Sorted(t, S, key), NEW s \in S,
         t.down["left"][s] # Nil, t.down["right"][s] # Nil, NEW r, SuccessorOf(t, S, key, s, r)
  PROVE  AroundBoth(t, s, r, t.down["left"][s], t.down["right"][s], t.down["right"][r], t.up[r])
<1> DEFINE l == t.down["left"][s]
           m == t.down["right"][s]
           c == t.down["right"][r]
           q == t.up[r]
<1>0. /\ t \in Tree /\ Links(t, S) /\ Nil \notin S /\ Nil \notin Slot
      /\ "left" \in Side /\ "right" \in Side
      /\ Other("left") = "right" /\ Other("right") = "left"
      /\ \A f \in Side : f = "left" \/ f = "right"
  BY Sides DEF Sorted, Side
<1>1. PICK lo, hi : Ordered(t, S, key, lo, hi)
  BY DEF Sorted
<1>2. r \in S /\ r # s /\ t.down["left"][r] = Nil /\ key[s] < key[r] /\ r # t.root
  BY DEF SuccessorOf
<1>3. \A n \in S, f \in Side : t.down[f][n] # Nil =>
         /\ t.down[f][n] \in S /\ t.up[t.down[f][n]] = n /\ t.down[f][n] # n
         /\ t.down[Other(f)][n] # t.down[f][n]
  BY <1>0, <1>1, Narrower
<1>4. /\ \A n \in S : IF n = t.root THEN t.up[n] = Nil
                      ELSE t.up[n] \in S /\ \E f \in Side : t.down[f][t.up[n]] = n
      /\ \A n \in Slot \ S : t.up[n] = Nil
  BY <1>0 DEF Links, UpLinked, Unlinks
<1>5. /\ Placed(t, s) /\ t.up[s] # s /\ (t.up[s] = Nil <=> s = t.root)
      /\ \A f \in Side, n \in Slot : t.down[f][n] = s <=> n = t.up[s] /\ t.down[f][n] = s
  BY PlaceOf
<1>6. /\ Placed(t, r) /\ t.up[r] # r
      /\ \A f \in Side, n \in Slot : t.down[f][n] = r <=> n = t.up[r] /\ t.down[f][n] = r
  BY <1>2, PlaceOf
<1>7. l \in S /\ m \in S /\ t.up[l] = s /\ t.up[m] = s /\ l # s /\ m # s /\ l # m
  BY <1>0, <1>3
<1>8. c # Nil => c \in S /\ t.up[c] = r /\ c # r
  BY <1>0, <1>2, <1>3
<1>9. q \in S
  BY <1>2, <1>4
<1>10. /\ \A n \in S : lo[n] \in Int /\ hi[n] \in Int /\ key[n] \in Int /\ lo[n] < key[n] /\ key[n] < hi[n]
       /\ hi[l] <= key[s]
       /\ c # Nil => key[r] <= lo[c]
  BY <1>1, <1>2 DEF Ordered
<1>11. l # r /\ c # s
  BY <1>0, <1>2, <1>7, <1>8, <1>10
<1>12. c # l /\ c # m
  BY <1>0, <1>2, <1>7, <1>8
<1>13. t.up[s] # r
  BY <1>0, <1>2, <1>4, <1>11, Sides
<1>14. \A n \in Slot : t.up[n] = s <=> n \in {l, m}
  <2> SUFFICES ASSUME NEW n \in Slot, t.up[n] = s PROVE n \in {l, m}
    BY <1>7
  <2>1. n \in S /\ \E f \in Side : t.down[f][s] = n
    BY <1>0, <1>4
  <2> QED
    BY <1>0, <2>1
<1>15. \A n \in Slot : t.up[n] = r => n = c
  <2> SUFFICES ASSUME NEW n \in Slot, t.up[n] = r PROVE n = c
    OBVIOUS
  <2>1. n \in S /\ \E f \in Side : t.down[f][r] = n
    BY <1>0, <1>2, <1>4
  <2> QED
    BY <1>0, <1>2, <2>1
<1>16. q = s <=> m = r
  BY <1>2, <1>7, <1>11, <1>14
<1>17. c \in Link
  BY <1>8 DEF Link
<1> HIDE DEF l, m, c, q
<1>18. t.down["left"][s] = l /\ t.down["right"][s] = m /\ t.down["right"][r] = c /\ t.up[r] = q
  BY DEF l, m, c, q
<1>19. AroundBoth(t, s, r, l, m, c, q)
  <2>1. c # r
    BY <1>0, <1>2, <1>8
  <2>2. q # r
    BY <1>6, <1>18
  <2> QED
    BY <1>2, <1>5, <1>6, <1>7, <1>8, <1>9, <1>11, <1>12, <1>13, <1>14, <1>15, <1>16, <1>17,
       <1>18, <2>1, <2>2 DEF AroundBoth
<1> QED
  BY <1>19 DEF l, m, c, q

\* r with the right child m of s, taken out of its place
Opened(t, s, r, m, c, q, w) ==
  /\ w \in Tree /\ w.color = t.color /\ w.root = t.root
  /\ \A n \in Slot : w.up[n] = IF q # s /\ n = m THEN r ELSE IF q # s /\ n = c THEN q ELSE t.up[n]
  /\ \A f \in Side, n \in Slot :
       w.down[f][n] = IF q # s /\ n = r /\ f = "right" THEN m
                      ELSE IF q # s /\ t.down[f][n] = r THEN c ELSE t.down[f][n]

(* That is the first half of a removal with two children.                  *)
LEMMA OpenedIs ==
  ASSUME NEW t \in Tree, NEW s, NEW r, NEW l, NEW m, NEW c, NEW q,
         AroundBoth(t, s, r, l, m, c, q)
  PROVE  Opened(t, s, r, m, c, q,
                IF q = s THEN t
                ELSE [Transplant(t, r, c) EXCEPT !.down["right"][r] = m, !.up[m] = r])
<1> DEFINE x == Transplant(t, r, c)
           w == [x EXCEPT !.down["right"][r] = m, !.up[m] = r]
<1>0. Nil \notin Slot /\ "right" \in Side
  BY Sides
<1>1. CASE q = s
  BY <1>1 DEF Opened
<1>2. CASE q # s
  <2>1. /\ r \in Slot /\ m \in Slot /\ c \in Link /\ Placed(t, r) /\ t.up[r] = q /\ q \in Slot /\ c # m
        /\ \A f \in Side, n \in Slot : t.down[f][n] = r <=> n = q /\ t.down[f][n] = r
    BY DEF AroundBoth
  <2>2. Transplanted(t, r, c, x)
    BY <2>1, TransplantIs
  <2>3. /\ x \in Tree /\ x.color = t.color /\ x.root = t.root
        /\ \A n \in Slot : x.up[n] = IF n = c THEN q ELSE t.up[n]
        /\ \A f \in Side, n \in Slot : x.down[f][n] = IF t.down[f][n] = r THEN c ELSE t.down[f][n]
    BY <1>0, <2>1, <2>2 DEF Transplanted
  <2> HIDE DEF x
  <2>4. w \in Tree /\ w.color = x.color /\ w.root = x.root
    BY <1>0, <2>1, <2>3 DEF Tree, Link
  <2>5. \A n \in Slot : w.up[n] = IF n = m THEN r ELSE x.up[n]
    BY <2>1, <2>3 DEF Tree
  <2>6. \A f \in Side, n \in Slot : w.down[f][n] = IF n = r /\ f = "right" THEN m ELSE x.down[f][n]
    BY <1>0, <2>1, <2>3 DEF Tree
  <2> HIDE DEF w
  <2>7. Opened(t, s, r, m, c, q, w)
    BY <1>2, <2>3, <2>4, <2>5, <2>6 DEF Opened
  <2> QED
    BY <1>2, <2>7 DEF w, x
<1> QED
  BY <1>1, <1>2

\* r with both children of s, its colour and its place
Moved(t, s, r, l, x, y) ==
  /\ y \in Tree /\ y.root = x.root
  /\ \A n \in Slot : y.up[n] = IF n = l THEN r ELSE x.up[n]
  /\ \A f \in Side, n \in Slot : y.down[f][n] = IF n = r /\ f = "left" THEN l ELSE x.down[f][n]
  /\ \A n \in Slot : y.color[n] = IF n = r THEN t.color[s] ELSE x.color[n]

(* That is the second half.                                                *)
LEMMA MovedIs ==
  ASSUME NEW t \in Tree, NEW s \in Slot, NEW r \in Slot, NEW l \in Slot, NEW x \in Tree
  PROVE  Moved(t, s, r, l, x,
               [x EXCEPT !.down["left"][r] = l, !.up[l] = r, !.color[r] = t.color[s]])
<1> DEFINE y == [x EXCEPT !.down["left"][r] = l, !.up[l] = r, !.color[r] = t.color[s]]
<1>0. "left" \in Side /\ l \in Link /\ r \in Link /\ t.color[s] \in Color
  BY Sides DEF Link, Tree
<1>1. y \in Tree /\ y.root = x.root
  BY <1>0 DEF Tree
<1>2. \A n \in Slot : y.up[n] = IF n = l THEN r ELSE x.up[n]
  BY DEF Tree
<1>3. \A f \in Side, n \in Slot : y.down[f][n] = IF n = r /\ f = "left" THEN l ELSE x.down[f][n]
  BY <1>0 DEF Tree
<1>4. \A n \in Slot : y.color[n] = IF n = r THEN t.color[s] ELSE x.color[n]
  BY DEF Tree
<1> QED
  BY <1>1, <1>2, <1>3, <1>4 DEF Moved

(* A node with two children is replaced by its successor, once that was    *)
(* dropped from its own place.                                             *)
LEMMA UnlinkRenames ==
  ASSUME NEW S \in SUBSET Slot, NEW key \in [Slot -> Int], NEW t, Sorted(t, S, key), NEW s \in S,
         t.down["left"][s] # Nil, t.down["right"][s] # Nil,
         NEW r, r = Removed(t, s), SuccessorOf(t, S, key, s, r),
         NEW v, Dropped(t, r, t.down["right"][r], v)
  PROVE  Renamed(v, s, r, Unlinked(t, s))
<1> DEFINE l == t.down["left"][s]
           m == t.down["right"][s]
           c == t.down["right"][r]
           q == t.up[r]
           w == IF q = s THEN t
                ELSE [Transplant(t, r, c) EXCEPT !.down["right"][r] = m, !.up[m] = r]
           x == Transplant(w, s, r)
           y == [x EXCEPT !.down["left"][r] = l, !.up[l] = r, !.color[r] = t.color[s]]
           u == Unlinked(t, s)
<1>0. t \in Tree /\ Nil \notin Slot /\ "left" \in Side /\ "right" \in Side /\ "left" # "right"
  BY Sides DEF Sorted
<1>1. AroundBoth(t, s, r, l, m, c, q)
  BY SuccessorAround
<1>2. r # s
  BY DEF SuccessorOf
<1>3. Closed(t, s) = y
  BY <1>2 DEF Closed
<1>4. Dropped(t, r, c, v)
  OBVIOUS
<1> HIDE DEF l, m, c, q
<1>5. Opened(t, s, r, m, c, q, w)
  BY <1>0, <1>1, OpenedIs
<1> HIDE DEF w
<1>6. /\ s \in Slot /\ r \in Slot /\ l \in Slot /\ m \in Slot /\ q \in Slot /\ c \in Link
      /\ t.down["left"][s] = l /\ t.down["right"][s] = m
      /\ t.down["left"][r] = Nil /\ t.down["right"][r] = c /\ t.up[r] = q
      /\ s # r /\ l # m /\ l # s /\ m # s /\ l # r /\ c # s /\ c # r /\ c # l /\ c # m /\ q # r
      /\ t.up[s] # s /\ t.up[s] # r /\ r # t.root
      /\ q = s <=> m = r
      /\ \A n \in Slot : t.up[n] = s <=> n \in {l, m}
      /\ \A n \in Slot : t.up[n] = r => n = c
      /\ c # Nil => t.up[c] = r
      /\ \A f \in Side, n \in Slot : t.down[f][n] = r <=> n = q /\ t.down[f][n] = r
      /\ \A f \in Side, n \in Slot : t.down[f][n] = s <=> n = t.up[s] /\ t.down[f][n] = s
      /\ t.up[s] = Nil <=> s = t.root
  BY <1>1 DEF AroundBoth
<1>7. /\ w \in Tree /\ w.color = t.color /\ w.root = t.root
      /\ \A n \in Slot : w.up[n] = IF q # s /\ n = m THEN r ELSE IF q # s /\ n = c THEN q ELSE t.up[n]
      /\ \A f \in Side, n \in Slot :
           w.down[f][n] = IF q # s /\ n = r /\ f = "right" THEN m
                          ELSE IF q # s /\ t.down[f][n] = r THEN c ELSE t.down[f][n]
  BY <1>5 DEF Opened
<1>8. w.up[s] = t.up[s]
  BY <1>6, <1>7
<1>9. \A f \in Side : w.up[s] # Nil => (w.down[f][w.up[s]] = s <=> t.down[f][t.up[s]] = s)
  <2>1. t.up[s] # Nil => t.up[s] \in Slot
    BY <1>0, <1>6 DEF Tree, Link
  <2> QED
    BY <1>6, <1>7, <1>8, <2>1
<1>10. Placed(w, s)
  <2>1. Placed(t, s)
    BY <1>1 DEF AroundBoth
  <2> QED
    BY <1>8, <1>9, <2>1, Sides DEF Placed
<1>11. Transplanted(w, s, r, x)
  <2>1. r \in Link
    BY <1>6 DEF Link
  <2> QED
    BY <1>6, <1>7, <1>10, <2>1, TransplantIs
<1>12. /\ x \in Tree /\ x.color = t.color
       /\ x.root = IF s = t.root THEN r ELSE t.root
       /\ \A n \in Slot : x.up[n] = IF n = r THEN t.up[s] ELSE w.up[n]
       /\ \A f \in Side, n \in Slot :
            x.down[f][n] = IF n = t.up[s] /\ w.down[f][n] = s THEN r ELSE w.down[f][n]
  BY <1>6, <1>7, <1>8, <1>11 DEF Transplanted
<1> HIDE DEF x
<1>13. Moved(t, s, r, l, x, y)
  BY <1>0, <1>6, <1>12, MovedIs
<1> HIDE DEF y
<1>14. Cleared(y, s, u)
  <2>1. y \in Tree
    BY <1>13 DEF Moved
  <2> QED
    BY <1>3, <1>6, <2>1, ClearedIs
<1> HIDE DEF u
<1>15. /\ u \in Tree /\ u.root = x.root
       /\ \A n \in Slot : u.up[n] = IF n = s THEN Nil ELSE IF n = l THEN r ELSE x.up[n]
       /\ \A f \in Side, n \in Slot :
            u.down[f][n] = IF n = s THEN Nil ELSE IF n = r /\ f = "left" THEN l ELSE x.down[f][n]
       /\ \A n \in Slot :
            u.color[n] = IF n = s THEN "black" ELSE IF n = r THEN t.color[s] ELSE x.color[n]
  BY <1>13, <1>14 DEF Moved, Cleared
<1>16. /\ v \in Tree /\ v.root = t.root
       /\ \A n \in Slot : v.up[n] = IF n = r THEN Nil ELSE IF n = c THEN q ELSE t.up[n]
       /\ \A f \in Side, n \in Slot :
            v.down[f][n] = IF n = r THEN Nil ELSE IF t.down[f][n] = r THEN c ELSE t.down[f][n]
       /\ \A n \in Slot : v.color[n] = IF n = r THEN "black" ELSE t.color[n]
  BY <1>4, <1>6 DEF Dropped
<1>17. u.root = IF s = v.root THEN r ELSE v.root
  BY <1>12, <1>15, <1>16
<1>18. ASSUME NEW n \in Slot
       PROVE  u.up[n] = IF n = s THEN Nil ELSE IF n = r THEN v.up[s]
                        ELSE IF v.up[n] = s THEN r ELSE v.up[n]
  <2>1. /\ u.up[n] = IF n = s THEN Nil ELSE IF n = l THEN r ELSE IF n = r THEN t.up[s]
                     ELSE IF q # s /\ n = m THEN r ELSE IF q # s /\ n = c THEN q ELSE t.up[n]
        /\ v.up[n] = IF n = r THEN Nil ELSE IF n = c THEN q ELSE t.up[n]
        /\ v.up[s] = t.up[s]
    BY <1>6, <1>7, <1>12, <1>15, <1>16
  <2>2. (t.up[n] = s <=> n \in {l, m}) /\ (n = c => t.up[n] = r)
    BY <1>0, <1>6
  <2> QED
    BY <1>6, <2>1, <2>2
<1>19. ASSUME NEW f \in Side, NEW n \in Slot
       PROVE  u.down[f][n] = IF n = s THEN Nil ELSE IF n = r THEN v.down[f][s]
                             ELSE IF v.down[f][n] = s THEN r ELSE v.down[f][n]
  <2>1. f = "left" \/ f = "right"
    BY DEF Side
  <2>2. u.down[f][n] = IF n = s THEN Nil ELSE IF n = r /\ f = "left" THEN l
                       ELSE IF n = t.up[s] /\ w.down[f][n] = s THEN r ELSE w.down[f][n]
    BY <1>12, <1>15
  <2>3. /\ v.down[f][n] = IF n = r THEN Nil ELSE IF t.down[f][n] = r THEN c ELSE t.down[f][n]
        /\ v.down[f][s] = IF t.down[f][s] = r THEN c ELSE t.down[f][s]
        /\ w.down[f][n] = IF q # s /\ n = r /\ f = "right" THEN m
                          ELSE IF q # s /\ t.down[f][n] = r THEN c ELSE t.down[f][n]
    BY <1>6, <1>7, <1>16
  <2>4. CASE n = s
    BY <2>2, <2>4
  <2>5. CASE n = r
    <3>1. t.down[f][s] = r <=> q = s /\ f = "right"
      BY <1>6, <2>1
    <3>2. CASE f = "left"
      BY <1>6, <2>2, <2>3, <2>5, <3>1, <3>2
    <3>3. CASE f = "right"
      BY <1>6, <2>2, <2>3, <2>5, <3>1, <3>3
    <3> QED
      BY <2>1, <3>2, <3>3
  <2>6. CASE n # s /\ n # r
    <3>1. (t.down[f][n] = r => n = q) /\ (t.down[f][n] = s <=> n = t.up[s] /\ t.down[f][n] = s)
      BY <1>6
    <3> QED
      BY <1>6, <2>2, <2>3, <2>6, <3>1
  <2> QED
    BY <2>4, <2>5, <2>6
<1>20. \A n \in Slot : u.color[n] = IF n = s THEN "black" ELSE IF n = r THEN v.color[s]
                                    ELSE v.color[n]
  BY <1>6, <1>12, <1>15, <1>16
<1>21. Renamed(v, s, r, u)
  BY <1>15, <1>17, <1>18, <1>19, <1>20 DEF Renamed
<1> QED
  BY <1>21 DEF u

\* Where a removal leaves the tree: short of a black node, or not
Taken(t, S, key, s) ==
  /\ Removed(t, s) \in S
  /\ Red(t, Removed(t, s)) => Plain(Unlinked(t, s), S \ {s}, key)
  /\ ~Red(t, Removed(t, s)) =>
       \E bh, g : Short(Unlinked(t, s), S \ {s}, key, bh, Replacement(t, s), ReplacementParent(t, s), g)

(* It does.                                                                *)
LEMMA UnlinkTakes ==
  ASSUME NEW S \in SUBSET Slot, NEW key \in [Slot -> Int], NEW t, Plain(t, S, key), NEW s \in S,
         \A a, b \in Slot : a # b => key[a] # key[b]
  PROVE  Taken(t, S, key, s)
<1>0. Sorted(t, S, key) /\ t \in Tree /\ Links(t, S) /\ Nil \notin S /\ Nil \notin Slot
  BY Sides DEF Plain, Sorted
<1>1. CASE Nil \in {t.down["left"][s], t.down["right"][s]}
  <2> DEFINE c == Replacement(t, s)
             u == Unlinked(t, s)
  <2>1. /\ Removed(t, s) = s /\ ReplacementParent(t, s) = t.up[s]
        /\ OnlyChild(t, s, c) /\ Dropped(t, s, c, u)
    BY <1>0, <1>1, UnlinkDrops DEF Drops
  <2> HIDE DEF c, u
  <2>2. /\ t.color[s] = "red" => Plain(u, S \ {s}, key)
        /\ t.color[s] # "red" => \E bh, g : Short(u, S \ {s}, key, bh, c, t.up[s], g)
    BY <2>1, DropBalance
  <2> QED
    BY <1>0, <2>1, <2>2 DEF Taken, Red, c, u
<1>2. CASE Nil \notin {t.down["left"][s], t.down["right"][s]}
  <2> DEFINE r == Removed(t, s)
             c == t.down["right"][r]
             v == Unlinked(t, r)
             u == Unlinked(t, s)
             T == S \ {r}
             forth == Forth(s, r)
  <2>1. r = Minimum(t, t.down["right"][s])
    BY <1>2 DEF Removed
  <2>2. SuccessorOf(t, S, key, s, r)
    <3>1. t.down["right"][s] # Nil /\ \A n \in S : n # s => key[n] # key[s]
      BY <1>2
    <3> QED
      BY <1>0, <2>1, <3>1, Successor
  <2> HIDE DEF r
  <2>3. /\ r \in S /\ r # s /\ t.down["left"][r] = Nil /\ key[s] < key[r]
        /\ \A n \in S : n # s => key[n] < key[s] \/ key[r] <= key[n]
    BY <2>2 DEF SuccessorOf
  <2>4. Drops(t, r)
    BY <1>0, <2>3, UnlinkDrops
  <2>5. Removed(t, r) = r /\ Replacement(t, r) = c
    BY <2>3, <2>4 DEF Drops, Replacement
  <2>6. OnlyChild(t, r, c) /\ Dropped(t, r, c, v)
    BY <2>4, <2>5 DEF Drops
  <2> HIDE DEF v, u
  <2>7. Sorted(v, T, key)
    BY <1>0, <2>3, <2>6, DropSorted
  <2>8. /\ t.color[r] = "red" => Plain(v, T, key)
        /\ t.color[r] # "red" => \E bh, g : Short(v, T, key, bh, c, t.up[r], g)
    BY <2>3, <2>6, DropBalance
  <2>9. Renamed(v, s, r, u)
    <3>1. t.down["left"][s] # Nil /\ t.down["right"][s] # Nil /\ r = Removed(t, s)
      BY <1>2 DEF r
    <3> QED
      BY <1>0, <2>2, <2>6, <3>1, UnlinkRenames DEF c, u
  <2>10. NextKey(T, key, s, r)
    BY <2>3 DEF NextKey
  <2>11. (T \ {s}) \cup {r} = S \ {s} /\ T \in SUBSET Slot /\ s \in T /\ r \in Slot \ T
    BY <2>3
  <2> HIDE DEF T, c
  <2>12. /\ Plain(v, T, key) => Plain(u, S \ {s}, key)
         /\ \A x, a : (\E bh, g : Short(v, T, key, bh, x, a, g)) /\ x # s =>
              \E bh, g : Short(u, S \ {s}, key, bh, x, forth[a], g)
    <3>1. /\ Plain(v, T, key) => Plain(u, (T \ {s}) \cup {r}, key)
          /\ \A x, a : (\E bh, g : Short(v, T, key, bh, x, a, g)) /\ x # s =>
               \E bh, g : Short(u, (T \ {s}) \cup {r}, key, bh, x, forth[a], g)
      BY <2>7, <2>9, <2>10, <2>11, RenameKeeps
    <3> QED
      BY <2>11, <3>1
  <2>13. c # s
    <3>1. AroundBoth(t, s, r, t.down["left"][s], t.down["right"][s], t.down["right"][r], t.up[r])
      BY <1>0, <1>2, <2>2, SuccessorAround
    <3> QED
      BY <3>1 DEF AroundBoth, c
  <2>14. ReplacementParent(t, s) = forth[t.up[r]] /\ Replacement(t, s) = c
    <3>1. t.up[r] \in Link
      BY <1>0, <2>3 DEF Tree
    <3>2. forth[t.up[r]] = IF t.up[r] = s THEN r ELSE t.up[r]
      BY <3>1 DEF Forth
    <3> QED
      BY <2>3, <3>2 DEF ReplacementParent, Replacement, c, r
  <2> HIDE DEF forth
  <2>15. Red(t, r) <=> t.color[r] = "red"
    BY <1>0, <2>3 DEF Red
  <2>16. t.color[r] # "red" => \E bh, g : Short(u, S \ {s}, key, bh, c, forth[t.up[r]], g)
    BY <2>8, <2>12, <2>13
  <2> QED
    BY <2>3, <2>8, <2>12, <2>14, <2>15, <2>16 DEF Taken, r, u
<1> QED
  BY <1>1, <1>2

-----------------------------------------------------------------------------
(* An insertion up to its fix-up.                                          *)

(* Above a node there are the node itself and what is above its parent.    *)
LEMMA UpStep ==
  ASSUME NEW S \in SUBSET Slot, NEW key \in [Slot -> Int], NEW t, Sorted(t, S, key), NEW c \in S
  PROVE  IF t.up[c] = Nil THEN Up(t, c) = {c}
         ELSE t.up[c] \in S /\ Up(t, c) = {c} \cup Up(t, t.up[c]) /\ c \notin Up(t, t.up[c])
<1> DEFINE n == t.up[c]
<1>0. t \in Tree /\ Links(t, S) /\ Nil \notin S
  BY Sides DEF Sorted
<1>1. /\ c \in Up(t, c) /\ \A x \in Up(t, c) : t.up[x] # Nil => t.up[x] \in Up(t, c)
      /\ \A A : (c \in A /\ \A x \in A \cap Up(t, c) : t.up[x] # Nil => t.up[x] \in A)
                => Up(t, c) \subseteq A
  BY UpIs
<1>2. CASE n = Nil
  <2> DEFINE A == {c}
  <2>1. c \in A /\ \A x \in A \cap Up(t, c) : t.up[x] # Nil => t.up[x] \in A
    BY <1>2
  <2>2. Up(t, c) \subseteq A
    <3> HIDE DEF A
    <3> QED
      BY <1>1, <2>1
  <2> QED
    BY <1>1, <1>2, <2>2
<1>3. CASE n # Nil
  <2>1. n \in S /\ \E d \in Side : t.down[d][n] = c
    BY <1>0, <1>3 DEF Links, UpLinked
  <2> DEFINE A == {c} \cup Up(t, n)
             B == Up(t, c)
  <2>2. /\ n \in Up(t, n) /\ \A x \in Up(t, n) : t.up[x] # Nil => t.up[x] \in Up(t, n)
        /\ \A D : (n \in D /\ \A x \in D \cap Up(t, n) : t.up[x] # Nil => t.up[x] \in D)
                  => Up(t, n) \subseteq D
    <3> HIDE DEF n
    <3> QED
      BY <2>1, UpIs
  <2>3. c \in A /\ \A x \in A \cap Up(t, c) : t.up[x] # Nil => t.up[x] \in A
    BY <2>2
  <2>4. Up(t, c) \subseteq A
    <3> HIDE DEF A
    <3> QED
      BY <1>1, <2>3
  <2>5. n \in B /\ \A x \in B \cap Up(t, n) : t.up[x] # Nil => t.up[x] \in B
    BY <1>1, <1>3
  <2>6. Up(t, n) \subseteq B
    <3> HIDE DEF B
    <3> QED
      BY <2>2, <2>5
  <2>7. c \notin Up(t, n)
    <3> SUFFICES ASSUME c \in Up(t, n) PROVE FALSE
      OBVIOUS
    <3>1. PICK lo, hi : Ordered(t, S, key, lo, hi)
      BY DEF Sorted
    <3>2. PICK d \in Side : t.down[d][n] = c
      BY <2>1
    <3>3. n \in S /\ t.down[d][n] # Nil
      BY <1>0, <2>1, <3>2
    <3> HIDE DEF n
    <3>4. hi[c] - lo[c] < hi[n] - lo[n]
      BY <1>0, <3>1, <3>2, <3>3, Narrower
    <3>5. lo[c] <= lo[n] /\ hi[n] <= hi[c]
      BY <3>1, <3>3, Around
    <3>6. lo[c] \in Int /\ lo[n] \in Int /\ hi[c] \in Int /\ hi[n] \in Int
      BY <3>1, <3>3 DEF Ordered
    <3> QED
      BY <3>4, <3>5, <3>6
  <2> QED
    BY <1>1, <1>3, <2>1, <2>4, <2>6, <2>7
<1> QED
  BY <1>2, <1>3

\* The search for s leads to p.
Route(t, key, s, p) ==
  \A a \in Up(t, p), e \in Side : t.down[e][a] \in Up(t, p) => (e = "left" <=> key[s] < key[a])

\* t with s below p on side d, or as its only node
Hung(t, s, p, d, u) ==
  /\ u \in Tree
  /\ u.root = IF p = Nil THEN s ELSE t.root
  /\ \A n \in Slot : u.up[n] = IF n = s THEN p ELSE t.up[n]
  /\ \A f \in Side, n \in Slot :
       u.down[f][n] = IF n = s THEN Nil ELSE IF n = p /\ f = d THEN s ELSE t.down[f][n]
  /\ \A n \in Slot : u.color[n] = IF n = s THEN "red" ELSE t.color[n]

\* The free place below p on side d is the one for s.
PlaceFor(t, S, key, s, p, d) ==
  IF p = Nil THEN S = {}
  ELSE /\ p \in S /\ t.down[d][p] = Nil /\ Route(t, key, s, p)
       /\ d = "left" <=> key[s] < key[p]

(* A node that is hung there is linked.                                    *)
LEMMA HangLinks ==
  ASSUME NEW S \in SUBSET Slot, NEW key, NEW t \in Tree, Links(t, S),
         NEW s \in Slot \ S, NEW p, NEW d \in Side, PlaceFor(t, S, key, s, p, d), NEW u, Hung(t, s, p, d, u)
  PROVE  Links(u, S \cup {s})
<1> DEFINE T == S \cup {s}
<1>0. Nil \notin S /\ Nil \notin Slot /\ s \in Slot /\ s \notin S /\ s # Nil
  BY Sides
<1>1. /\ u.root = IF p = Nil THEN s ELSE t.root
      /\ \A n \in Slot : u.up[n] = IF n = s THEN p ELSE t.up[n]
      /\ \A f \in Side, n \in Slot :
           u.down[f][n] = IF n = s THEN Nil ELSE IF n = p /\ f = d THEN s ELSE t.down[f][n]
  BY DEF Hung
<1>2. /\ t.root \in S \cup {Nil} /\ (S = {} <=> t.root = Nil)
      /\ \A n \in S : IF n = t.root THEN t.up[n] = Nil
                      ELSE t.up[n] \in S /\ \E f \in Side : t.down[f][t.up[n]] = n
      /\ \A q \in S, f \in Side : t.down[f][q] # Nil =>
           /\ t.down[f][q] \in S /\ t.up[t.down[f][q]] = q
           /\ t.down[Other(f)][q] # t.down[f][q]
      /\ \A n \in Slot \ S : t.up[n] = Nil /\ \A f \in Side : t.down[f][n] = Nil
  BY DEF Links, RootLinked, UpLinked, DownLinked, Unlinks
<1>3. IF p = Nil THEN S = {} ELSE p \in S /\ t.down[d][p] = Nil
  BY DEF PlaceFor
<1>4. RootLinked(u, T)
  BY <1>0, <1>1, <1>2, <1>3 DEF RootLinked
<1>5. UpLinked(u, T)
  <2> SUFFICES ASSUME NEW n \in T
               PROVE  IF n = u.root THEN u.up[n] = Nil
                      ELSE u.up[n] \in T /\ \E f \in Side : u.down[f][u.up[n]] = n
    BY DEF UpLinked
  <2>1. CASE n = s
    BY <1>0, <1>1, <1>2, <1>3, <2>1
  <2>2. CASE n # s
    <3>1. n \in S /\ p # Nil /\ u.up[n] = t.up[n] /\ u.root = t.root
      BY <1>1, <1>3, <2>2
    <3>2. CASE n = t.root
      BY <1>2, <3>1, <3>2
    <3>3. CASE n # t.root
      <4>1. t.up[n] \in S /\ \E f \in Side : t.down[f][t.up[n]] = n
        BY <1>2, <3>1, <3>3
      <4>2. PICK f \in Side : t.down[f][t.up[n]] = n
        BY <4>1
      <4>3. u.down[f][t.up[n]] = n
        BY <1>0, <1>1, <1>3, <3>1, <4>1, <4>2
      <4> QED
        BY <3>1, <3>3, <4>1, <4>3
    <3> QED
      BY <3>2, <3>3
  <2> QED
    BY <2>1, <2>2
<1>6. DownLinked(u, T)
  <2> SUFFICES ASSUME NEW q \in T, NEW f \in Side, u.down[f][q] # Nil
               PROVE  /\ u.down[f][q] \in T /\ u.up[u.down[f][q]] = q
                      /\ u.down[Other(f)][q] # u.down[f][q]
    BY DEF DownLinked
  <2>0. Other(f) \in Side /\ Other(f) # f
    BY Sides
  <2>1. q \in S /\ q # s /\ q \in Slot
    BY <1>0, <1>1
  <2>2. CASE q = p /\ f = d
    <3>1. u.down[f][q] = s /\ u.up[s] = q /\ u.down[Other(f)][q] = t.down[Other(f)][q]
      BY <1>0, <1>1, <2>0, <2>1, <2>2
    <3>2. t.down[Other(f)][q] # s
      BY <1>0, <1>2, <2>0, <2>1
    <3> QED
      BY <3>1, <3>2
  <2>3. CASE ~(q = p /\ f = d)
    <3> DEFINE n == t.down[f][q]
    <3>1. u.down[f][q] = n /\ n \in S /\ t.up[n] = q /\ t.down[Other(f)][q] # n
      BY <1>0, <1>1, <1>2, <2>1, <2>3
    <3>2. u.down[Other(f)][q] # n
      BY <1>0, <1>1, <2>0, <2>1, <3>1
    <3>3. u.up[n] = q
      BY <1>0, <1>1, <3>1
    <3> HIDE DEF n
    <3> QED
      BY <3>1, <3>2, <3>3
  <2> QED
    BY <2>2, <2>3
<1>7. Unlinks(u, T)
  BY <1>0, <1>1, <1>2, <1>3 DEF Unlinks
<1> QED
  BY <1>4, <1>5, <1>6, <1>7 DEF Links

(* And it is in order: the intervals on the way to it are widened to its   *)
(* key.                                                                    *)
LEMMA HangOrdered ==
  ASSUME NEW S \in SUBSET Slot, NEW key \in [Slot -> Int], NEW t, Sorted(t, S, key),
         \A a, b \in Slot : a # b => key[a] # key[b],
         NEW s \in Slot \ S, NEW p, NEW d \in Side, PlaceFor(t, S, key, s, p, d), NEW u, Hung(t, s, p, d, u)
  PROVE  \E lo2, hi2 : Ordered(u, S \cup {s}, key, lo2, hi2)
<1> DEFINE T == S \cup {s}
           k == key[s]
           P == IF p = Nil THEN {} ELSE Up(t, p)
           low == [v \in Int |-> IF v <= k - 1 THEN v ELSE k - 1]
           high == [v \in Int |-> IF k + 1 <= v THEN v ELSE k + 1]
<1>0. /\ t \in Tree /\ Links(t, S) /\ Nil \notin S /\ Nil \notin Slot /\ s \in Slot /\ s \notin S
      /\ "left" \in Side /\ "right" \in Side /\ "left" # "right" /\ d \in {"left", "right"}
  BY Sides DEF Sorted, Side
<1>1. PICK lo, hi : Ordered(t, S, key, lo, hi)
  BY DEF Sorted
<1> DEFINE lo2 == [n \in Slot |-> IF n = s THEN k - 1 ELSE IF n \in P THEN low[lo[n]] ELSE lo[n]]
           hi2 == [n \in Slot |-> IF n = s THEN k + 1 ELSE IF n \in P THEN high[hi[n]] ELSE hi[n]]
<1>2. /\ lo \in [Slot -> Int] /\ hi \in [Slot -> Int] /\ k \in Int
      /\ \A n \in Slot : lo[n] \in Int /\ hi[n] \in Int /\ key[n] \in Int
      /\ \A n \in S : lo[n] < key[n] /\ key[n] < hi[n]
      /\ \A n \in S : t.down["left"][n] # Nil =>
           lo[n] <= lo[t.down["left"][n]] /\ hi[t.down["left"][n]] <= key[n]
      /\ \A n \in S : t.down["right"][n] # Nil =>
           key[n] <= lo[t.down["right"][n]] /\ hi[t.down["right"][n]] <= hi[n]
  BY <1>1 DEF Ordered
<1>3. \A f \in Side, n \in Slot :
        u.down[f][n] = IF n = s THEN Nil ELSE IF n = p /\ f = d THEN s ELSE t.down[f][n]
  BY DEF Hung
<1>4. /\ P \subseteq S /\ (p # Nil => p \in P)
      /\ \A n \in P : t.up[n] # Nil => t.up[n] \in P
  <2>1. p # Nil => p \in S
    BY DEF PlaceFor
  <2> QED
    BY <2>1, UpIs
<1>5. \A a \in P, e \in Side : t.down[e][a] \in P => (e = "left" <=> k < key[a])
  BY DEF PlaceFor, Route
<1>6. p # Nil => (d = "left" <=> k < key[p])
  BY DEF PlaceFor
<1>7. \A n \in S : key[n] # k
  BY <1>0
<1>8. \A n \in S, f \in Side : t.down[f][n] # Nil => t.down[f][n] \in S /\ t.up[t.down[f][n]] = n
  BY <1>0 DEF Links, DownLinked
<1>9. \A v \in Int : /\ low[v] \in Int /\ low[v] <= v /\ low[v] <= k - 1
                     /\ high[v] \in Int /\ v <= high[v] /\ k + 1 <= high[v]
                     /\ \A w \in Int : /\ w <= v /\ w <= k - 1 => w <= low[v]
                                       /\ v <= w /\ k + 1 <= w => high[v] <= w
  BY <1>2
<1> HIDE DEF P, low, high, k
<1>10. /\ lo2 \in [Slot -> Int] /\ hi2 \in [Slot -> Int]
       /\ lo2[s] = k - 1 /\ hi2[s] = k + 1
       /\ \A n \in S : n # s
       /\ \A n \in S : lo2[n] = (IF n \in P THEN low[lo[n]] ELSE lo[n])
                       /\ hi2[n] = (IF n \in P THEN high[hi[n]] ELSE hi[n])
  BY <1>0, <1>2, <1>9
<1> HIDE DEF lo2, hi2
<1>11. \A n \in S : lo2[n] \in Int /\ hi2[n] \in Int /\ lo2[n] <= lo[n] /\ hi[n] <= hi2[n]
  BY <1>2, <1>9, <1>10
<1>12. ASSUME NEW n \in T PROVE lo2[n] < key[n] /\ key[n] < hi2[n]
  <2>1. CASE n = s
    BY <1>2, <1>10, <2>1 DEF k
  <2>2. CASE n # s
    BY <1>2, <1>11, <2>2
  <2> QED
    BY <2>1, <2>2
<1>13. ASSUME NEW n \in T, u.down["left"][n] # Nil
       PROVE  lo2[n] <= lo2[u.down["left"][n]] /\ hi2[u.down["left"][n]] <= key[n]
  <2>1. n \in S /\ n # s /\ n \in Slot
    BY <1>0, <1>3, <1>13
  <2>2. CASE n = p /\ d = "left"
    <3>1. u.down["left"][n] = s /\ n \in P /\ k < key[n]
      BY <1>0, <1>3, <1>4, <1>6, <2>1, <2>2
    <3>2. lo2[n] <= k - 1
      BY <1>2, <1>9, <1>10, <2>1, <3>1
    <3> QED
      BY <1>2, <1>10, <2>1, <3>1, <3>2
  <2>3. CASE ~(n = p /\ d = "left")
    <3> DEFINE c == t.down["left"][n]
    <3>1. u.down["left"][n] = c /\ c # Nil /\ c \in S /\ t.up[c] = n
      BY <1>0, <1>3, <1>8, <1>13, <2>1, <2>3
    <3>2. lo[n] <= lo[c] /\ hi[c] <= key[n]
      BY <1>2, <2>1, <3>1
    <3>3. c \in P => n \in P /\ k < key[n]
      BY <1>0, <1>4, <1>5, <2>1, <3>1
    <3>4. lo[n] \in Int /\ lo[c] \in Int /\ hi[c] \in Int /\ key[n] \in Int /\ k \in Int
      BY <1>2, <2>1, <3>1
    <3> HIDE DEF c
    <3>5. lo2[n] <= lo2[c]
      <4>1. CASE c \in P
        BY <1>9, <1>10, <2>1, <3>1, <3>2, <3>3, <3>4, <4>1
      <4>2. CASE c \notin P
        BY <1>10, <1>11, <2>1, <3>1, <3>2, <3>4, <4>2
      <4> QED
        BY <4>1, <4>2
    <3>6. hi2[c] <= key[n]
      <4>1. CASE c \in P
        <5>1. hi2[c] = high[hi[c]] /\ k + 1 <= key[n]
          BY <1>10, <3>1, <3>3, <3>4, <4>1
        <5> QED
          BY <1>9, <3>2, <3>4, <5>1
      <4>2. CASE c \notin P
        BY <1>10, <3>1, <3>2, <4>2
      <4> QED
        BY <4>1, <4>2
    <3> QED
      BY <3>1, <3>5, <3>6
  <2> QED
    BY <2>2, <2>3
<1>14. ASSUME NEW n \in T, u.down["right"][n] # Nil
       PROVE  key[n] <= lo2[u.down["right"][n]] /\ hi2[u.down["right"][n]] <= hi2[n]
  <2>1. n \in S /\ n # s /\ n \in Slot /\ key[n] # k
    BY <1>0, <1>3, <1>7, <1>14
  <2>2. CASE n = p /\ d = "right"
    <3>1. u.down["right"][n] = s /\ n \in P /\ ~(k < key[n])
      BY <1>0, <1>3, <1>4, <1>6, <2>1, <2>2
    <3>2. k + 1 <= hi2[n]
      BY <1>2, <1>9, <1>10, <2>1, <3>1
    <3>3. key[n] \in Int /\ k \in Int
      BY <1>2, <2>1
    <3>4. key[n] <= k - 1
      BY <2>1, <3>1, <3>3
    <3> QED
      BY <1>10, <3>1, <3>2, <3>4
  <2>3. CASE ~(n = p /\ d = "right")
    <3> DEFINE c == t.down["right"][n]
    <3>1. u.down["right"][n] = c /\ c # Nil /\ c \in S /\ t.up[c] = n
      BY <1>0, <1>3, <1>8, <1>14, <2>1, <2>3
    <3>2. key[n] <= lo[c] /\ hi[c] <= hi[n]
      BY <1>2, <2>1, <3>1
    <3>3. c \in P => n \in P /\ ~(k < key[n])
      BY <1>0, <1>4, <1>5, <2>1, <3>1
    <3>4. hi[n] \in Int /\ lo[c] \in Int /\ hi[c] \in Int /\ key[n] \in Int /\ k \in Int
      BY <1>2, <2>1, <3>1
    <3> HIDE DEF c
    <3>5. hi2[c] <= hi2[n]
      <4>1. CASE c \in P
        BY <1>9, <1>10, <2>1, <3>1, <3>2, <3>3, <3>4, <4>1
      <4>2. CASE c \notin P
        BY <1>10, <1>11, <2>1, <3>1, <3>2, <3>4, <4>2
      <4> QED
        BY <4>1, <4>2
    <3>6. key[n] <= lo2[c]
      <4>1. CASE c \in P
        <5>1. lo2[c] = low[lo[c]] /\ key[n] <= k - 1
          BY <1>10, <2>1, <3>1, <3>3, <3>4, <4>1
        <5> QED
          BY <1>9, <3>2, <3>4, <5>1
      <4>2. CASE c \notin P
        BY <1>10, <3>1, <3>2, <4>2
      <4> QED
        BY <4>1, <4>2
    <3> QED
      BY <3>1, <3>5, <3>6
  <2> QED
    BY <2>2, <2>3
<1>15. Ordered(u, T, key, lo2, hi2)
  BY <1>10, <1>12, <1>13, <1>14 DEF Ordered
<1> QED
  BY <1>15

(* A red node hung there starts the repair.                                *)
LEMMA HangKeeps ==
  ASSUME NEW S \in SUBSET Slot, NEW key \in [Slot -> Int], NEW t, Plain(t, S, key),
         \A a, b \in Slot : a # b => key[a] # key[b],
         NEW s \in Slot \ S, NEW p, NEW d \in Side, PlaceFor(t, S, key, s, p, d), NEW u, Hung(t, s, p, d, u)
  PROVE  \E bh : Inserted(u, S \cup {s}, key, bh, s)
<1> DEFINE T == S \cup {s}
<1>0. /\ t \in Tree /\ Links(t, S) /\ Nil \notin S /\ Nil \notin Slot /\ Nil \notin T
      /\ Sorted(t, S, key) /\ Reds(t, S, Nil, Nil) /\ u \in Tree /\ T \in SUBSET Slot
  BY Sides DEF Sorted, Plain, Hung
<1>1. PICK bh : Balanced(t, S, bh, Nil, Nil)
  BY DEF Plain
<1> DEFINE bh2 == [bh EXCEPT ![s] = 0]
<1>2. Sorted(u, T, key)
  <2>1. Links(u, T)
    BY <1>0, HangLinks
  <2>2. \E lo2, hi2 : Ordered(u, T, key, lo2, hi2)
    BY <1>0, HangOrdered
  <2> QED
    BY <1>0, <2>1, <2>2 DEF Sorted
<1>3. bh \in [Slot -> Nat] /\ \A q \in S, f \in Side : bh[q] = BlackHeight(t, bh, t.down[f][q])
  <2>1. bh \in [Slot -> Nat]
    BY <1>1 DEF Balanced
  <2> QED
    BY <1>0, <1>1, <2>1, PlainBalanced
<1>4. bh2 \in [Slot -> Nat] /\ bh2[s] = 0 /\ \A n \in Slot : n # s => bh2[n] = bh[n]
  BY <1>3
<1> HIDE DEF bh2
<1>5. /\ u.root = IF p = Nil THEN s ELSE t.root
      /\ \A n \in Slot : u.up[n] = IF n = s THEN p ELSE t.up[n]
      /\ \A f \in Side, n \in Slot :
           u.down[f][n] = IF n = s THEN Nil ELSE IF n = p /\ f = d THEN s ELSE t.down[f][n]
      /\ \A n \in Slot : u.color[n] = IF n = s THEN "red" ELSE t.color[n]
      /\ IF p = Nil THEN S = {} ELSE p \in S /\ t.down[d][p] = Nil
  BY DEF Hung, PlaceFor
<1>6. /\ BlackHeight(u, bh2, Nil) = 0 /\ BlackHeight(u, bh2, s) = 0 /\ BlackHeight(t, bh, Nil) = 0
      /\ \A n \in S : BlackHeight(u, bh2, n) = BlackHeight(t, bh, n)
  BY <1>0, <1>4, <1>5 DEF BlackHeight
<1>7. ASSUME NEW q \in T, NEW f \in Side PROVE bh2[q] = BlackHeight(u, bh2, u.down[f][q])
  <2>1. CASE q = s
    BY <1>4, <1>5, <1>6, <2>1
  <2>2. CASE q # s
    <3>1. q \in S /\ q \in Slot /\ bh2[q] = bh[q] /\ bh[q] = BlackHeight(t, bh, t.down[f][q])
      BY <1>3, <1>4, <2>2
    <3>2. t.down[f][q] # Nil => t.down[f][q] \in S
      BY <1>0, <3>1 DEF Links, DownLinked
    <3> QED
      BY <1>0, <1>5, <1>6, <2>2, <3>1, <3>2
  <2> QED
    BY <2>1, <2>2
<1>8. Balanced(u, T, bh2, Nil, Nil)
  <2> HIDE DEF T
  <2> QED
    BY <1>0, <1>4, <1>7, PlainBalanced
<1>9. Reds(u, T, s, Nil)
  <2> SUFFICES ASSUME NEW n \in T, u.color[n] = "red", n # s
               PROVE  n # u.root /\ (u.color[u.up[n]] = "red" => u.up[n] = Nil)
    BY DEF Reds
  <2>1. n \in S /\ t.color[n] = "red" /\ p # Nil /\ u.up[n] = t.up[n] /\ u.root = t.root
    BY <1>0, <1>5
  <2>2. n # t.root /\ t.up[n] \in S /\ t.color[t.up[n]] # "red"
    BY <1>0, <2>1, NoRedPair
  <2>3. t.up[n] # s
    BY <2>2
  <2> QED
    BY <1>0, <1>5, <2>1, <2>2, <2>3
<1>10. s \in T /\ u.color[s] = "red"
  BY <1>5
<1>11. Inserted(u, T, key, bh2, s)
  BY <1>2, <1>8, <1>9, <1>10 DEF Inserted
<1> QED
  BY <1>11

\* The step of the search for s
SearchStep(t, key, s) == [n \in Slot |-> t.down[IF key[s] < key[n] THEN "left" ELSE "right"][n]]

\* p is the parent that a search for s along the nodes path finds.
Found(step, path, p) ==
  IF path = {} THEN p = Nil
  ELSE (\E n \in path : step[n] = Nil) => p \in path /\ step[p] = Nil

(* The search ends at the free place for s.                                *)
LEMMA SearchFinds ==
  ASSUME NEW S \in SUBSET Slot, NEW key \in [Slot -> Int], NEW t, Sorted(t, S, key), NEW s \in Slot \ S,
         NEW p, Found(SearchStep(t, key, s), Walk(SearchStep(t, key, s), t.root), p),
         NEW d, p # Nil => d = IF key[s] < key[p] THEN "left" ELSE "right"
  PROVE  PlaceFor(t, S, key, s, p, d)
<1> DEFINE step == SearchStep(t, key, s)
           W == Walk(step, t.root)
           g(n) == IF key[s] < key[n] THEN "left" ELSE "right"
<1>0. /\ t \in Tree /\ Links(t, S) /\ Nil \notin S /\ Nil \notin Slot
      /\ "left" \in Side /\ "right" \in Side /\ "left" # "right"
      /\ \A f \in Side : f = "left" \/ f = "right"
  BY Sides DEF Sorted, Side
<1>1. PICK lo, hi : Ordered(t, S, key, lo, hi)
  BY DEF Sorted
<1>2. step \in [Slot -> Link] /\ \A n \in Slot : step[n] = t.down[g(n)][n] /\ g(n) \in Side
  BY <1>0 DEF SearchStep, Tree
<1>3. IF W = {} THEN p = Nil ELSE (\E n \in W : step[n] = Nil) => p \in W /\ step[p] = Nil
  BY DEF Found
<1> HIDE DEF step
<1>4. CASE S = {}
  <2>1. t.root = Nil /\ t.root \in Link
    BY <1>0, <1>4 DEF Links, RootLinked, Link
  <2>2. PICK node : /\ IsWalk(node, step, t.root)
                    /\ W = {node[n] : n \in 0 .. MaxProcesses} \ {Nil}
    BY <1>2, <2>1, WalkIs
  <2>3. /\ MaxProcesses \in Nat /\ node[0] = Nil
        /\ \A k \in 1 .. MaxProcesses : node[k] = IF node[k - 1] = Nil THEN Nil ELSE step[node[k - 1]]
    BY <2>1, <2>2, ReadyQueueAssumption DEF IsWalk
  <2> DEFINE D == {k \in Nat : k <= MaxProcesses => node[k] = Nil}
  <2>4. 0 \in D
    BY <2>3
  <2>5. ASSUME NEW k \in Nat, k \in D PROVE k + 1 \in D
    <3> SUFFICES ASSUME k + 1 <= MaxProcesses PROVE node[k + 1] = Nil
      OBVIOUS
    <3>1. k + 1 \in 1 .. MaxProcesses /\ (k + 1) - 1 = k /\ node[k] = Nil
      BY <2>3, <2>5
    <3> QED
      BY <2>3, <3>1
  <2>6. Nat \subseteq D
    <3> HIDE DEF D
    <3> QED
      BY <2>4, <2>5, NatSetInduction
  <2>7. W = {}
    BY <2>2, <2>3, <2>6
  <2> QED
    BY <1>3, <1>4, <2>7 DEF PlaceFor
<1>5. CASE S # {}
  <2>1. t.root \in S
    BY <1>0, <1>5 DEF Links, RootLinked
  <2> DEFINE m == [n \in S |-> hi[n] - lo[n]]
  <2>2. m \in [S -> Int] /\ \A n \in S : lo[n] \in Int /\ hi[n] \in Int
    BY <1>1 DEF Ordered
  <2>3. Falls(step, S, m)
    <3> SUFFICES ASSUME NEW n \in S, step[n] # Nil PROVE step[n] \in S /\ m[step[n]] < m[n]
      BY DEF Falls
    <3> DEFINE e == g(n)
    <3>1. e \in Side /\ step[n] = t.down[e][n]
      BY <1>2
    <3> HIDE DEF e
    <3>2. step[n] \in S /\ hi[step[n]] - lo[step[n]] < hi[n] - lo[n]
      BY <1>0, <1>1, <3>1, Narrower
    <3> QED
      BY <3>2
  <2> HIDE DEF m
  <2>4. /\ t.root \in W /\ W \subseteq S
        /\ \E n \in W : step[n] = Nil
        /\ \A A : (/\ t.root \in A
                   /\ \A n \in A \cap W : step[n] # Nil => step[n] \in A)
                  => W \subseteq A
    BY <1>2, <2>1, <2>2, <2>3, WalkLeast
  <2>5. p \in W /\ step[p] = Nil
    BY <1>3, <2>4
  <2> DEFINE A == {n \in S : Route(t, key, s, n)}
  <2>6. t.root \in A
    <3>1. t.up[t.root] = Nil
      BY <1>0, <2>1 DEF Links, UpLinked
    <3>2. Up(t, t.root) = {t.root}
      BY <2>1, <3>1, UpStep
    <3>3. \A n \in S, f \in Side : t.down[f][n] # n
      BY PlaceOf
    <3> QED
      BY <2>1, <3>2, <3>3 DEF Route
  <2>7. ASSUME NEW n \in A, step[n] # Nil PROVE step[n] \in A
    <3> DEFINE c == step[n]
    <3>1. n \in S /\ n \in Slot /\ c # Nil /\ Route(t, key, s, n) /\ c = t.down[g(n)][n] /\ g(n) \in Side
      BY <1>2, <2>7
    <3>2. c \in S /\ t.up[c] = n /\ t.down[Other(g(n))][n] # c
      BY <1>0, <3>1 DEF Links, DownLinked
    <3> HIDE DEF c
    <3>3. Up(t, c) = {c} \cup Up(t, n) /\ c \notin Up(t, n)
      BY <1>0, <3>1, <3>2, UpStep
    <3>4. ASSUME NEW a \in Up(t, c), NEW e \in Side, t.down[e][a] \in Up(t, c)
          PROVE  e = "left" <=> key[s] < key[a]
      <4> DEFINE k == t.down[e][a]
      <4>1. a \in S /\ k \in S /\ k # Nil /\ t.up[k] = a
        <5>1. Up(t, c) \subseteq S
          BY <3>2, UpIs
        <5> QED
          BY <1>0, <3>4, <5>1 DEF Links, DownLinked
      <4>2. CASE a = c
        <5>1. k \notin Up(t, t.up[k])
          <6> HIDE DEF k
          <6> QED
            BY <1>0, <4>1, UpStep
        <5> QED
          BY <3>4, <4>1, <4>2, <5>1
      <4>3. CASE a # c /\ k = c
        <5>1. a = n
          BY <3>2, <4>1, <4>3
        <5>2. e = g(n)
          BY <3>1, <3>2, <4>3, <5>1, Sides
        <5> QED
          BY <1>0, <5>1, <5>2
      <4>4. CASE a # c /\ k # c
        BY <3>1, <3>3, <3>4, <4>4 DEF Route
      <4> QED
        BY <4>2, <4>3, <4>4
    <3>5. Route(t, key, s, c)
      BY <3>4 DEF Route
    <3> QED
      BY <3>2, <3>5 DEF c
  <2>8. W \subseteq A
    <3> HIDE DEF A
    <3> QED
      BY <2>4, <2>6, <2>7
  <2>9. p \in S /\ Route(t, key, s, p) /\ p # Nil
    BY <1>0, <2>4, <2>5, <2>8
  <2>10. t.down[d][p] = Nil /\ (d = "left" <=> key[s] < key[p])
    BY <1>0, <1>2, <2>5, <2>9
  <2> QED
    BY <2>9, <2>10 DEF PlaceFor
<1> QED
  BY <1>4, <1>5

(* What an insertion does up to its fix-up.                                *)
LEMMA InsertHangs ==
  ASSUME NEW s \in Slot, vruntime \in [Slot -> Nat], onRq \in SUBSET Slot,
         Plain(tree, onRq, Keys), Insert(s)
  PROVE  \E bh : Inserted(tree', onRq \cup {s}, Keys, bh, s)
<1> DEFINE key == Keys
           step == SearchStep(tree, key, s)
           W == Walk(step, tree.root)
           p == IF W = {} THEN Nil ELSE CHOOSE n \in W : tree.down[SideOf(s, n)][n] = Nil
           d == IF p = Nil THEN "left" ELSE SideOf(s, p)
           D == [f \in Side |-> [tree.down[f] EXCEPT ![s] = Nil]]
           fresh == [tree EXCEPT !.down = D, !.up[s] = p, !.color[s] = "red"]
           u == IF p = Nil THEN [fresh EXCEPT !.root = s] ELSE [fresh EXCEPT !.down[d][p] = s]
<1>0. /\ Nil \notin Slot /\ "left" \in Side /\ "right" \in Side /\ s \in Slot \ onRq /\ s \in Link
      /\ Nil \in Link
  BY Sides DEF Insert, Link
<1>1. /\ key \in [Slot -> Int]
      /\ \A a, b \in Slot : Before(a, b) <=> key[a] < key[b]
      /\ \A a, b \in Slot : a # b => key[a] # key[b]
  BY BeforeIs
<1>2. Sorted(tree, onRq, key) /\ tree \in Tree
  BY DEF Plain, Sorted
<1>3. \A n \in Slot : SideOf(s, n) = IF key[s] < key[n] THEN "left" ELSE "right"
  BY <1>1 DEF SideOf
<1> HIDE DEF key
<1>4. [n \in Slot |-> tree.down[SideOf(s, n)][n]] = step
  BY <1>3 DEF SearchStep
<1>5. SearchPath(s) = W
  BY <1>4 DEF SearchPath
<1>6. tree' = u
  <2>1. p = IF SearchPath(s) = {} THEN Nil
            ELSE CHOOSE n \in SearchPath(s) : tree.down[SideOf(s, n)][n] = Nil
    BY <1>5
  <2>2. p # Nil => d = SideOf(s, p)
    OBVIOUS
  <2> HIDE DEF p, d
  <2>3. tree' = IF p = Nil THEN [fresh EXCEPT !.root = s]
                ELSE [fresh EXCEPT !.down[SideOf(s, p)][p] = s]
    BY <2>1 DEF Insert
  <2> HIDE DEF fresh
  <2> QED
    BY <2>2, <2>3
<1>7. W \subseteq Slot
  <2>1. step \in [Slot -> Link] /\ tree.root \in Link
    BY <1>0, <1>2 DEF SearchStep, Tree
  <2> HIDE DEF step
  <2>2. PICK node : IsWalk(node, step, tree.root) /\ W = {node[n] : n \in 0 .. MaxProcesses} \ {Nil}
    BY <2>1, WalkIs
  <2> QED
    BY <2>2 DEF IsWalk, Link
<1>8. Found(step, W, p)
  <2>1. \A n \in W : tree.down[SideOf(s, n)][n] = step[n]
    BY <1>4, <1>7
  <2> HIDE DEF W, step
  <2>2. CASE W = {}
    BY <2>2 DEF Found
  <2>3. CASE W # {}
    <3> SUFFICES ASSUME \E n \in W : step[n] = Nil PROVE p \in W /\ step[p] = Nil
      BY <2>3 DEF Found
    <3>1. \E n \in W : tree.down[SideOf(s, n)][n] = Nil
      BY <2>1
    <3>2. p = CHOOSE n \in W : tree.down[SideOf(s, n)][n] = Nil
      BY <2>3
    <3>3. p \in W /\ tree.down[SideOf(s, p)][p] = Nil
      BY <3>1, <3>2
    <3> QED
      BY <2>1, <3>3
  <2> QED
    BY <2>2, <2>3
<1> HIDE DEF W, step, p
<1>9. d \in Side
  BY <1>0 DEF SideOf
<1>10. p # Nil => p \in Slot
  <2> SUFFICES ASSUME p # Nil, p \notin Slot PROVE FALSE
    OBVIOUS
  <2>1. PlaceFor(tree, onRq, key, s, p, IF key[s] < key[p] THEN "left" ELSE "right")
    BY <1>0, <1>1, <1>2, <1>8, SearchFinds DEF W, step
  <2> QED
    BY <2>1 DEF PlaceFor
<1>11. PlaceFor(tree, onRq, key, s, p, d)
  <2>1. p # Nil => d = IF key[s] < key[p] THEN "left" ELSE "right"
    BY <1>3, <1>10
  <2> HIDE DEF d
  <2> QED
    BY <1>0, <1>1, <1>2, <1>8, <2>1, SearchFinds DEF W, step
<1> HIDE DEF d
<1>12. Hung(tree, s, p, d, u)
  <2>1. /\ D \in [Side -> [Slot -> Link]]
        /\ \A f \in Side, n \in Slot : D[f][n] = IF n = s THEN Nil ELSE tree.down[f][n]
    BY <1>0, <1>2 DEF Tree
  <2>2. p \in Link
    BY <1>0, <1>10 DEF Link
  <2> HIDE DEF D
  <2>3. fresh \in Tree /\ fresh.root = tree.root /\ fresh.down = D
    BY <1>2, <2>1, <2>2 DEF Tree, Color
  <2>4. /\ \A n \in Slot : fresh.up[n] = IF n = s THEN p ELSE tree.up[n]
        /\ \A n \in Slot : fresh.color[n] = IF n = s THEN "red" ELSE tree.color[n]
    BY <1>2, <2>1, <2>2 DEF Tree
  <2> HIDE DEF fresh
  <2>5. CASE p = Nil
    <3>1. u = [fresh EXCEPT !.root = s]
      BY <2>5
    <3>2. u \in Tree /\ u.root = s /\ u.down = D /\ u.up = fresh.up /\ u.color = fresh.color
      BY <1>0, <2>3, <3>1 DEF Tree
    <3> HIDE DEF u
    <3> QED
      BY <1>0, <2>1, <2>4, <2>5, <3>2 DEF Hung
  <2>6. CASE p # Nil
    <3>1. u = [fresh EXCEPT !.down[d][p] = s] /\ p \in Slot
      BY <1>10, <2>6
    <3>2. u \in Tree /\ u.root = fresh.root /\ u.up = fresh.up /\ u.color = fresh.color
      BY <1>0, <1>9, <2>3, <3>1 DEF Tree
    <3>3. \A f \in Side, n \in Slot : u.down[f][n] = IF n = p /\ f = d THEN s ELSE D[f][n]
      BY <1>9, <2>1, <2>3, <3>1 DEF Tree
    <3>4. p # s
      BY <1>0, <1>11, <2>6 DEF PlaceFor
    <3> HIDE DEF u
    <3> QED
      BY <2>1, <2>3, <2>4, <2>6, <3>2, <3>3, <3>4 DEF Hung
  <2> QED
    BY <2>5, <2>6
<1> HIDE DEF u
<1>13. Plain(tree, onRq, key)
  BY DEF key
<1>14. \E bh : Inserted(u, onRq \cup {s}, key, bh, s)
  BY <1>0, <1>1, <1>9, <1>11, <1>12, <1>13, HangKeeps
<1> QED
  BY <1>6, <1>14 DEF key

-----------------------------------------------------------------------------
(* The ends of the operations.                                             *)

(* Painting the root black ends an insertion.                              *)
LEMMA InsertEnds ==
  ASSUME NEW S \in SUBSET Slot, NEW key \in [Slot -> Int], NEW t, NEW bh, NEW s,
         Inserted(t, S, key, bh, s), s = t.root \/ ~Red(t, t.up[s])
  PROVE  Plain(Paint(t, t.root, "black"), S, key)
<1> DEFINE u == Paint(t, t.root, "black")
<1>0. /\ Sorted(t, S, key) /\ Balanced(t, S, bh, Nil, Nil) /\ Reds(t, S, s, Nil)
      /\ s \in S /\ t.color[s] = "red" /\ t \in Tree /\ Links(t, S) /\ Nil \notin S
  BY Sides DEF Inserted, Sorted
<1>1. t.root \in S
  BY <1>0 DEF Links, RootLinked
<1>2. Painted(t, t.root, "black", u)
  BY <1>0, <1>1, Paints DEF Link, Color
<1> HIDE DEF u
<1>3. /\ u \in Tree /\ u.up = t.up /\ u.down = t.down /\ u.root = t.root
      /\ \A n \in Slot : u.color[n] = IF n = t.root THEN "black" ELSE t.color[n]
  BY <1>2 DEF Painted
<1>4. Sorted(u, S, key)
  BY <1>0, <1>3, SameSorted
<1>5. Reds(u, S, Nil, Nil)
  <2> SUFFICES ASSUME NEW n \in S, u.color[n] = "red"
               PROVE  n # u.root /\ (u.color[u.up[n]] = "red" => u.up[n] = Nil)
    BY DEF Reds
  <2>1. n # t.root /\ t.color[n] = "red" /\ t.up[n] \in S
    BY <1>0, <1>3 DEF Links, UpLinked
  <2>2. t.color[t.up[n]] # "red"
    <3>1. CASE n = s
      BY <1>0, <2>1, <3>1 DEF Red
    <3>2. CASE n # s
      BY <1>0, <2>1, <3>2 DEF Reds
    <3> QED
      BY <3>1, <3>2
  <2> QED
    BY <1>3, <2>1, <2>2
<1>6. Balanced(u, S, bh, Nil, Nil)
  <2>1. bh \in [Slot -> Nat]
    BY <1>0 DEF Balanced
  <2>2. \A q \in S, f \in Side : bh[q] = BlackHeight(t, bh, t.down[f][q])
    BY <1>0, <2>1, PlainBalanced
  <2>3. ASSUME NEW q \in S, NEW f \in Side PROVE bh[q] = BlackHeight(u, bh, u.down[f][q])
    <3> DEFINE n == t.down[f][q]
    <3>1. n # Nil => n \in S /\ n # t.root
      BY <1>0 DEF Links, DownLinked, UpLinked
    <3>2. u.down[f][q] = n
      BY <1>3
    <3>3. bh[q] = BlackHeight(t, bh, n)
      BY <2>2
    <3> HIDE DEF n
    <3>4. BlackHeight(u, bh, n) = BlackHeight(t, bh, n)
      BY <1>3, <3>1 DEF BlackHeight
    <3> QED
      BY <3>2, <3>3, <3>4
  <2> QED
    BY <1>0, <1>3, <2>1, <2>3, PlainBalanced
<1> QED
  BY <1>4, <1>5, <1>6 DEF Plain, u

(* Painting the place where a black node is missing ends a removal.        *)
LEMMA RemoveEnds ==
  ASSUME NEW S \in SUBSET Slot, NEW key \in [Slot -> Int], NEW t, NEW bh, NEW x, NEW a, NEW g,
         Short(t, S, key, bh, x, a, g), x = t.root \/ Red(t, x) \/ a = Nil
  PROVE  Plain(Paint(t, x, "black"), S, key)
<1> DEFINE u == Paint(t, x, "black")
<1>0. /\ Sorted(t, S, key) /\ Balanced(t, S, bh, a, g) /\ Reds(t, S, x, x)
      /\ a \in S \cup {Nil} /\ t \in Tree /\ Links(t, S) /\ Nil \notin S /\ Nil \notin Slot
      /\ IF a = Nil THEN x = t.root ELSE g \in Side /\ t.down[g][a] = x
  BY Sides DEF Short, Sorted
<1>1. x \in S \cup {Nil} /\ (a # Nil => x # t.root /\ (x # Nil => t.up[x] = a))
  BY <1>0 DEF Links, RootLinked, UpLinked, DownLinked
<1>2. Painted(t, x, "black", u)
  BY <1>0, <1>1, Paints DEF Link, Color
<1> HIDE DEF u
<1>3. /\ u \in Tree /\ u.up = t.up /\ u.down = t.down /\ u.root = t.root
      /\ \A n \in Slot : u.color[n] = IF n = x THEN "black" ELSE t.color[n]
  BY <1>2 DEF Painted
<1>4. Sorted(u, S, key)
  BY <1>0, <1>3, SameSorted
<1>5. Reds(u, S, Nil, Nil)
  <2> SUFFICES ASSUME NEW n \in S, u.color[n] = "red"
               PROVE  n # u.root /\ (u.color[u.up[n]] = "red" => u.up[n] = Nil)
    BY DEF Reds
  <2>1. n # x /\ t.color[n] = "red"
    BY <1>3
  <2>2. n # t.root /\ (t.color[t.up[n]] = "red" => t.up[n] = x) /\ t.up[n] \in S
    BY <1>0, <2>1 DEF Reds, Links, UpLinked
  <2> QED
    BY <1>3, <2>2
<1>6. Balanced(u, S, bh, Nil, Nil)
  <2>1. bh \in [Slot -> Nat]
    BY <1>0 DEF Balanced
  <2>2. ASSUME NEW q \in S, NEW f \in Side PROVE bh[q] = BlackHeight(u, bh, u.down[f][q])
    <3> DEFINE n == t.down[f][q]
    <3>1. u.down[f][q] = n /\ n \in Link
      BY <1>0, <1>3 DEF Tree
    <3>2. bh[q] = BlackHeight(t, bh, n) + (IF q = a /\ f = g THEN 1 ELSE 0)
      BY <1>0 DEF Balanced
    <3>3. BlackHeight(t, bh, n) \in Nat
      BY <1>0, <2>1, <3>1, PlainBalanced
    <3>4. n # Nil => n \in S /\ t.up[n] = q /\ n # t.root /\ t.down[Other(f)][q] # n
      BY <1>0 DEF Links, DownLinked, UpLinked
    <3> HIDE DEF n
    <3>5. CASE q = a /\ f = g
      <4>1. n = x /\ x # Nil /\ t.color[x] = "red" /\ u.color[x] = "black" /\ n \in Slot
        BY <1>0, <1>1, <1>3, <3>5 DEF n, Red
      <4>2. BlackHeight(t, bh, n) = bh[n] /\ BlackHeight(u, bh, n) = bh[n] + 1
        BY <4>1 DEF BlackHeight
      <4> QED
        BY <3>1, <3>2, <3>5, <4>2
    <3>6. CASE ~(q = a /\ f = g)
      <4>1. n # Nil => n # x
        <5> SUFFICES ASSUME n # Nil, n = x PROVE FALSE
          OBVIOUS
        <5>1. a # Nil /\ q = a /\ t.down[g][q] = x
          BY <1>0, <1>1, <3>4
        <5>2. f = g
          BY <1>0, <3>4, <5>1, Sides DEF n
        <5> QED
          BY <3>6, <5>1, <5>2
      <4>2. BlackHeight(u, bh, n) = BlackHeight(t, bh, n)
        BY <1>3, <3>4, <4>1 DEF BlackHeight
      <4>3. bh[q] = BlackHeight(t, bh, n)
        BY <3>2, <3>3, <3>6
      <4> QED
        BY <3>1, <4>2, <4>3
    <3> QED
      BY <3>5, <3>6
  <2> QED
    BY <1>0, <1>3, <2>1, <2>2, PlainBalanced
<1> QED
  BY <1>4, <1>5, <1>6 DEF Plain, u

(* Only the keys of the nodes matter.                                      *)
LEMMA SameKeys ==
  ASSUME NEW S, NEW key, NEW key2, \A n \in S : key2[n] = key[n], NEW t, Plain(t, S, key)
  PROVE  Plain(t, S, key2)
<1>1. PICK lo, hi : Ordered(t, S, key, lo, hi)
  BY DEF Plain, Sorted
<1>2. Ordered(t, S, key2, lo, hi)
  BY <1>1 DEF Ordered
<1> QED
  BY <1>2 DEF Plain, Sorted

-----------------------------------------------------------------------------
(* The inductive invariant, and that every step keeps it.                  *)

QueueTypes ==
  /\ vruntime \in [Slot -> Nat] /\ onRq \in SUBSET Slot
  /\ phase \in {"idle", "inserting", "removing", "removed"}

\* The tree in each part of the operations
TreePhases ==
  CASE phase = "inserting" -> /\ \E bh : Inserted(tree, onRq, Keys, bh, index)
                              /\ subject \in onRq
    [] phase = "removing"  -> /\ \E bh, g : Short(tree, onRq, Keys, bh, index, above, g)
                              /\ subject \in Slot \ onRq
    [] phase = "removed"   -> Plain(tree, onRq, Keys) /\ subject \in Slot \ onRq
    [] OTHER               -> Plain(tree, onRq, Keys)

QueueInv == QueueTypes /\ TreePhases

(* A queue without members is such a tree.                                 *)
LEMMA QueueInit == Init => QueueInv
<1> SUFFICES ASSUME Init PROVE QueueInv
  OBVIOUS
<1>0. Nil \notin Slot /\ Nil \in Link
  BY Sides DEF Link
<1>1. QueueTypes /\ phase = "idle" /\ onRq = {} /\ tree.root = Nil
  BY DEF Init, QueueTypes
<1>2. tree \in Tree
  BY <1>0 DEF Init, Tree, Color
<1>3. Links(tree, onRq)
  BY <1>1 DEF Links, RootLinked, UpLinked, DownLinked, Unlinks, Init
<1> DEFINE zero == [n \in Slot |-> 0]
<1>4. zero \in [Slot -> Int] /\ zero \in [Slot -> Nat]
  OBVIOUS
<1> HIDE DEF zero
<1>5. Ordered(tree, onRq, Keys, zero, zero)
  BY <1>1, <1>4 DEF Ordered
<1>6. Balanced(tree, onRq, zero, Nil, Nil) /\ Reds(tree, onRq, Nil, Nil)
  BY <1>1, <1>4 DEF Balanced, Reds
<1>7. Plain(tree, onRq, Keys)
  BY <1>2, <1>3, <1>5, <1>6 DEF Plain, Sorted
<1> QED
  BY <1>1, <1>7 DEF QueueInv, TreePhases

(* The keys are those of the vruntimes.                                    *)
LEMMA KeysKept ==
  ASSUME UNCHANGED vruntime
  PROVE  Keys' = Keys
BY DEF Keys

(* One lemma for each action.                                              *)
LEMMA ChargeKeeps ==
  ASSUME QueueInv, NEW s \in Charged, NEW v \in 0 .. MaxVruntime, Charge(s, v)
  PROVE  QueueInv'
<1>1. s \in Slot /\ v \in Nat
  BY ReadyQueueAssumption DEF Slot
<1>2. /\ phase = "idle" /\ s \notin onRq /\ vruntime' = [vruntime EXCEPT ![s] = v]
      /\ tree' = tree /\ onRq' = onRq /\ phase' = phase
  BY DEF Charge
<1>3. vruntime \in [Slot -> Nat] /\ onRq \in SUBSET Slot /\ Plain(tree, onRq, Keys)
  BY <1>2 DEF QueueInv, QueueTypes, TreePhases
<1>4. \A n \in onRq : Keys'[n] = Keys[n]
  BY <1>2, <1>3 DEF Keys
<1>5. Plain(tree, onRq, Keys')
  BY <1>3, <1>4, SameKeys
<1> QED
  BY <1>1, <1>2, <1>3, <1>5 DEF QueueInv, QueueTypes, TreePhases

LEMMA InsertKeeps ==
  ASSUME QueueInv, NEW s \in Slot, Insert(s)
  PROVE  QueueInv'
<1>1. /\ phase = "idle" /\ onRq' = onRq \cup {s} /\ phase' = "inserting"
      /\ index' = s /\ subject' = s /\ vruntime' = vruntime
  BY DEF Insert
<1>2. vruntime \in [Slot -> Nat] /\ onRq \in SUBSET Slot /\ Plain(tree, onRq, Keys)
  BY <1>1 DEF QueueInv, QueueTypes, TreePhases
<1>3. Keys' = Keys
  BY <1>1, KeysKept
<1>4. \E bh : Inserted(tree', onRq \cup {s}, Keys, bh, s)
  BY <1>2, InsertHangs
<1> QED
  BY <1>1, <1>2, <1>3, <1>4 DEF QueueInv, QueueTypes, TreePhases

LEMMA RemoveKeeps ==
  ASSUME QueueInv, NEW s \in Slot, Remove(s)
  PROVE  QueueInv'
<1>1. /\ phase = "idle" /\ s \in onRq /\ onRq' = onRq \ {s} /\ tree' = Unlinked(tree, s)
      /\ phase' = IF Red(tree, Removed(tree, s)) THEN "removed" ELSE "removing"
      /\ index' = Replacement(tree, s) /\ above' = ReplacementParent(tree, s)
      /\ subject' = s /\ vruntime' = vruntime
  BY DEF Remove
<1>2. vruntime \in [Slot -> Nat] /\ onRq \in SUBSET Slot /\ Plain(tree, onRq, Keys)
  BY <1>1 DEF QueueInv, QueueTypes, TreePhases
<1>3. Keys' = Keys
  BY <1>1, KeysKept
<1>4. Keys \in [Slot -> Int] /\ \A a, b \in Slot : a # b => Keys[a] # Keys[b]
  BY <1>2, BeforeIs
<1>5. Taken(tree, onRq, Keys, s)
  BY <1>1, <1>2, <1>4, UnlinkTakes
<1>6. /\ Red(tree, Removed(tree, s)) => Plain(tree', onRq', Keys')
      /\ ~Red(tree, Removed(tree, s)) => \E bh, g : Short(tree', onRq', Keys', bh, index', above', g)
  BY <1>1, <1>3, <1>5 DEF Taken
<1> QED
  BY <1>1, <1>2, <1>6 DEF QueueInv, QueueTypes, TreePhases

LEMMA FixInsertKeeps ==
  ASSUME QueueInv, FixInsert
  PROVE  /\ QueueInv'
         /\ \/ tree'.up = tree.up /\ index' = tree.up[tree.up[index]] /\ tree.up[index] \in onRq
            \/ ~Red(tree', tree'.up[index'])
<1>1. /\ phase = "inserting" /\ phase' = phase /\ index # tree.root /\ Red(tree, tree.up[index])
      /\ tree' = InsertTurn(tree, index)[1] /\ index' = InsertTurn(tree, index)[2]
      /\ vruntime' = vruntime /\ onRq' = onRq /\ subject' = subject
  BY DEF FixInsert
<1>2. vruntime \in [Slot -> Nat] /\ onRq \in SUBSET Slot /\ subject \in onRq
  BY <1>1 DEF QueueInv, QueueTypes, TreePhases
<1>3. PICK bh : Inserted(tree, onRq, Keys, bh, index)
  BY <1>1 DEF QueueInv, QueueTypes, TreePhases
<1>4. Keys' = Keys
  BY <1>1, KeysKept
<1>5. Keys \in [Slot -> Int]
  BY <1>2, BeforeIs
<1>6. /\ \E bh2 : Inserted(tree', onRq, Keys, bh2, index')
      /\ \/ tree'.up = tree.up /\ index' = tree.up[tree.up[index]] /\ tree.up[index] \in onRq
         \/ ~Red(tree', tree'.up[index'])
  BY <1>1, <1>2, <1>3, <1>5, InsertTurnKeeps
<1> QED
  BY <1>1, <1>2, <1>4, <1>6 DEF QueueInv, QueueTypes, TreePhases

LEMMA EndInsertKeeps ==
  ASSUME QueueInv, EndInsert
  PROVE  QueueInv'
<1>1. /\ phase = "inserting" /\ phase' = "idle"
      /\ index = tree.root \/ ~Red(tree, tree.up[index])
      /\ tree' = Paint(tree, tree.root, "black") /\ vruntime' = vruntime /\ onRq' = onRq
  BY DEF EndInsert, Finish
<1>2. vruntime \in [Slot -> Nat] /\ onRq \in SUBSET Slot
  BY DEF QueueInv, QueueTypes
<1>3. PICK bh : Inserted(tree, onRq, Keys, bh, index)
  BY <1>1 DEF QueueInv, QueueTypes, TreePhases
<1>4. Keys' = Keys /\ Keys \in [Slot -> Int]
  BY <1>1, <1>2, KeysKept, BeforeIs
<1>5. Plain(tree', onRq, Keys)
  BY <1>1, <1>2, <1>3, <1>4, InsertEnds
<1> QED
  BY <1>1, <1>2, <1>4, <1>5 DEF QueueInv, QueueTypes, TreePhases

LEMMA FixRemoveKeeps ==
  ASSUME QueueInv, FixRemove
  PROVE  /\ QueueInv'
         /\ \/ tree'.up = tree.up /\ index' = above
            \/ index' = tree'.root
            \/ Red(tree', index')
<1> DEFINE turn == RemoveTurn(tree, index, above)
<1>1. /\ phase = "removing" /\ phase' = phase /\ index # tree.root /\ ~Red(tree, index) /\ above # Nil
      /\ tree' = turn[1] /\ index' = turn[2] /\ above' = turn[3]
      /\ vruntime' = vruntime /\ onRq' = onRq /\ subject' = subject
  BY DEF FixRemove
<1>2. vruntime \in [Slot -> Nat] /\ onRq \in SUBSET Slot /\ subject \in Slot \ onRq
  BY <1>1 DEF QueueInv, QueueTypes, TreePhases
<1>3. PICK bh, g : Short(tree, onRq, Keys, bh, index, above, g)
  BY <1>1 DEF QueueInv, QueueTypes, TreePhases
<1>4. Keys' = Keys /\ Keys \in [Slot -> Int]
  BY <1>1, <1>2, KeysKept, BeforeIs
<1>5. above \in onRq
  BY <1>1, <1>3 DEF Short
<1>6. /\ \E bh2, g2 : Short(turn[1], onRq, Keys, bh2, turn[2], turn[3], g2)
      /\ \/ turn[1].up = tree.up /\ turn[2] = above
         \/ turn[2] = turn[1].root
         \/ Red(turn[1], turn[2])
  BY <1>1, <1>2, <1>3, <1>4, <1>5, RemoveTurnKeeps
<1> HIDE DEF turn
<1> QED
  BY <1>1, <1>2, <1>4, <1>6 DEF QueueInv, QueueTypes, TreePhases

LEMMA EndRemoveKeeps ==
  ASSUME QueueInv, EndRemove
  PROVE  QueueInv'
<1>1. vruntime' = vruntime /\ onRq' = onRq /\ phase' = "idle"
  BY DEF EndRemove, Finish
<1>2. vruntime \in [Slot -> Nat] /\ onRq \in SUBSET Slot
  BY DEF QueueInv, QueueTypes
<1>3. Keys' = Keys /\ Keys \in [Slot -> Int]
  BY <1>1, <1>2, KeysKept, BeforeIs
<1>4. CASE phase = "removing"
  <2>1. /\ index = tree.root \/ Red(tree, index) \/ above = Nil
        /\ tree' = Paint(tree, index, "black")
    BY <1>4 DEF EndRemove, Finish
  <2>2. PICK bh, g : Short(tree, onRq, Keys, bh, index, above, g)
    BY <1>4 DEF QueueInv, QueueTypes, TreePhases
  <2>3. Plain(tree', onRq, Keys)
    BY <1>2, <1>3, <2>1, <2>2, RemoveEnds
  <2> QED
    BY <1>1, <1>2, <1>3, <2>3 DEF QueueInv, QueueTypes, TreePhases
<1>5. CASE phase = "removed"
  <2>1. tree' = tree
    BY <1>5 DEF EndRemove, Finish
  <2>2. Plain(tree, onRq, Keys)
    BY <1>5 DEF QueueInv, QueueTypes, TreePhases
  <2> QED
    BY <1>1, <1>2, <1>3, <2>1, <2>2 DEF QueueInv, QueueTypes, TreePhases
<1> QED
  BY <1>4, <1>5 DEF EndRemove

LEMMA QueueStep ==
  ASSUME QueueInv, [Next]_vars
  PROVE  QueueInv'
<1>1. CASE UNCHANGED vars
  <2>1. UNCHANGED <<vruntime, tree, onRq, phase, index, above, subject>> /\ Keys' = Keys
    BY <1>1 DEF vars, Keys
  <2> QED
    BY <2>1 DEF QueueInv, QueueTypes, TreePhases
<1>2. CASE \E s \in Charged, v \in 0 .. MaxVruntime : Charge(s, v)
  BY <1>2, ChargeKeeps
<1>3. CASE \E s \in Slot : Insert(s)
  BY <1>3, InsertKeeps
<1>4. CASE \E s \in Slot : Remove(s)
  BY <1>4, RemoveKeeps
<1>5. CASE FixInsert
  BY <1>5, FixInsertKeeps
<1>6. CASE EndInsert
  BY <1>6, EndInsertKeeps
<1>7. CASE FixRemove
  BY <1>7, FixRemoveKeeps
<1>8. CASE EndRemove
  BY <1>8, EndRemoveKeeps
<1> QED
  BY <1>1, <1>2, <1>3, <1>4, <1>5, <1>6, <1>7, <1>8 DEF Next

(* The tree is sorted, balanced and coloured as its operations need it at  *)
(* every moment.                                                           *)
THEOREM QueueInductive == Spec => []QueueInv
<1> QED
  BY QueueInit, QueueStep, PTL DEF Spec

-----------------------------------------------------------------------------
(* What follows from it.                                                   *)

(* The tree is sorted in every part of the operations.                     *)
LEMMA AlwaysSorted ==
  ASSUME QueueInv
  PROVE  Sorted(tree, onRq, Keys) /\ Keys \in [Slot -> Int] /\ onRq \in SUBSET Slot
BY BeforeIs DEF QueueInv, QueueTypes, TreePhases, Plain, Inserted, Short

(* No rotation and no transplant loses a process or leaves a cycle.        *)
THEOREM TreeIsWhole == Spec => []TreeWhole
<1>1. QueueInv => TreeWhole
  <2> SUFFICES ASSUME QueueInv PROVE TreeWhole
    OBVIOUS
  <2> DEFINE key == Keys
  <2>1. Sorted(tree, onRq, key) /\ key \in [Slot -> Int] /\ onRq \in SUBSET Slot
    BY AlwaysSorted
  <2> HIDE DEF key
  <2>2. \A s \in onRq : tree.root \in Upward(s)
    BY <2>1, UpIs DEF Upward, Up
  <2>3. Links(tree, onRq)
    BY <2>1 DEF Sorted
  <2> QED
    BY <2>2, <2>3
       DEF TreeWhole, ChildOf, Links, RootLinked, UpLinked, DownLinked, Unlinks
<1> QED
  BY <1>1, QueueInductive, PTL

\* The black nodes from s up
BlacksAbove(t, s) == {n \in Up(t, s) : t.color[n] = "black"}

\* With the black nodes below s, they are as many for each s.
SameBlacks(t, S, bh) ==
  \E k : \A s \in S : /\ Cardinality(BlacksAbove(t, s)) \in Nat
                      /\ Cardinality(BlacksAbove(t, s)) + bh[s] = k

(* From the root to any node, and on to the missing children below it, the *)
(* same number of black nodes is met.                                      *)
LEMMA BlackPaths ==
  ASSUME NEW S \in SUBSET Slot, NEW key \in [Slot -> Int], NEW t, Sorted(t, S, key),
         NEW bh, Balanced(t, S, bh, Nil, Nil)
  PROVE  SameBlacks(t, S, bh)
<1>0. t \in Tree /\ Links(t, S) /\ Nil \notin S
  BY Sides DEF Sorted
<1>1. bh \in [Slot -> Nat] /\ \A q \in S, f \in Side : bh[q] = BlackHeight(t, bh, t.down[f][q])
  <2>1. bh \in [Slot -> Nat]
    BY DEF Balanced
  <2> QED
    BY <1>0, <2>1, PlainBalanced
<1>2. ASSUME NEW s \in S
      PROVE  IsFiniteSet(BlacksAbove(t, s)) /\ Cardinality(BlacksAbove(t, s)) \in Nat
  <2>1. IsFiniteSet(Slot)
    BY FS_Interval, ReadyQueueAssumption DEF Slot
  <2>2. BlacksAbove(t, s) \subseteq Slot
    BY UpIs DEF BlacksAbove
  <2>3. IsFiniteSet(BlacksAbove(t, s))
    BY <2>1, <2>2, FS_Subset
  <2> QED
    BY <2>3, FS_CardinalityType
<1> DEFINE K(s) == Cardinality(BlacksAbove(t, s)) + bh[s]
<1>3. ASSUME NEW s \in S, t.up[s] # Nil
      PROVE  t.up[s] \in S /\ K(s) = K(t.up[s])
  <2> DEFINE p == t.up[s]
             A == BlacksAbove(t, s)
             B == BlacksAbove(t, p)
  <2>1. p \in S /\ Up(t, s) = {s} \cup Up(t, p) /\ s \notin Up(t, p)
    BY <1>3, UpStep
  <2>2. bh[p] = BlackHeight(t, bh, s)
    <3>1. PICK f \in Side : t.down[f][p] = s
      BY <1>0, <1>3 DEF Links, UpLinked
    <3> QED
      BY <1>1, <2>1, <3>1
  <2>3. IsFiniteSet(B) /\ Cardinality(B) \in Nat /\ bh[s] \in Nat /\ s \notin B
    <3>1. p \in S
      BY <2>1
    <3> HIDE DEF p
    <3> QED
      BY <1>1, <1>2, <2>1, <3>1 DEF BlacksAbove
  <2>4. A = IF t.color[s] = "black" THEN B \cup {s} ELSE B
    BY <2>1 DEF BlacksAbove
  <2>5. bh[p] = IF t.color[s] = "black" THEN bh[s] + 1 ELSE bh[s]
    BY <1>0, <2>2 DEF BlackHeight
  <2> HIDE DEF A, B, p
  <2>6. Cardinality(A) + bh[s] = Cardinality(B) + bh[p]
    <3>1. CASE t.color[s] = "black"
      <4>1. Cardinality(A) = Cardinality(B) + 1
        BY <2>3, <2>4, <3>1, FS_AddElement
      <4> QED
        BY <2>3, <2>5, <3>1, <4>1
    <3>2. CASE t.color[s] # "black"
      BY <2>4, <2>5, <3>2
    <3> QED
      BY <3>1, <3>2
  <2> QED
    BY <2>1, <2>6 DEF A, B, p
<1> HIDE DEF K
<1>4. ASSUME NEW s \in S PROVE K(s) = K(t.root)
  <2> DEFINE C == {n \in S : K(n) = K(s)}
  <2>1. s \in C /\ \A n \in C \cap Up(t, s) : t.up[n] # Nil => t.up[n] \in C
    BY <1>3
  <2>2. Up(t, s) \subseteq C
    <3> HIDE DEF C
    <3> QED
      BY <2>1, UpIs
  <2>3. t.root \in Up(t, s)
    BY UpIs
  <2> QED
    BY <2>2, <2>3
<1>5. \A s \in S : K(s) = K(t.root)
  BY <1>4
<1> QED
  BY <1>2, <1>5 DEF K, SameBlacks

(* Between operations the tree is a red-black search tree, for any number  *)
(* of processes and any vruntimes.                                         *)
THEOREM TreeIsRedBlack == Spec => []RedBlack
<1>1. QueueInv => RedBlack
  <2> SUFFICES ASSUME QueueInv, phase = "idle"
               PROVE  /\ SearchOrder
                      /\ ~Red(tree, tree.root)
                      /\ \A s \in onRq : Red(tree, s) => ~Red(tree, tree.up[s])
                      /\ Cardinality({Blacks(s) : s \in {r \in onRq : \E d \in Side :
                                                           tree.down[d][r] = Nil}}) <= 1
    BY DEF RedBlack
  <2> DEFINE key == Keys
  <2>1. /\ Sorted(tree, onRq, key) /\ key \in [Slot -> Int] /\ onRq \in SUBSET Slot
        /\ Plain(tree, onRq, key) /\ \A a, b \in Slot : Before(a, b) <=> key[a] < key[b]
    BY AlwaysSorted, BeforeIs DEF QueueInv, QueueTypes, TreePhases
  <2> HIDE DEF key
  <2>2. tree \in Tree /\ Links(tree, onRq) /\ Nil \notin onRq
    BY <2>1, Sides DEF Sorted
  <2>3. SearchOrder
    <3> SUFFICES ASSUME NEW s \in onRq, NEW p \in Up(tree, s), p # s
                 PROVE  IF tree.down["left"][p] \in Up(tree, s) THEN Before(s, p) ELSE Before(p, s)
      BY DEF SearchOrder, Upward, Up
    <3>1. Up(tree, s) \subseteq onRq
      BY <2>1, UpIs
    <3>2. PICK d \in Side : /\ tree.down[d][p] \in Up(tree, s)
                            /\ IF d = "left" THEN key[s] < key[p] ELSE key[p] < key[s]
      BY <2>1, BelowChild
    <3>3. CASE d = "left"
      BY <2>1, <3>1, <3>2, <3>3
    <3>4. CASE d # "left"
      <4>1. d = "right"
        BY <3>4 DEF Side
      <4>2. tree.down["left"][p] \notin Up(tree, s)
        <5> SUFFICES ASSUME tree.down["left"][p] \in Up(tree, s) PROVE FALSE
          OBVIOUS
        <5> DEFINE l == tree.down["left"][p]
                   r == tree.down["right"][p]
        <5>1. l \in onRq /\ r \in onRq /\ tree.up[l] = p /\ tree.up[r] = p /\ l # r /\ p \in onRq
          BY <2>2, <3>1, <3>2, <4>1, Sides DEF Links, DownLinked
        <5> HIDE DEF l, r
        <5>2. PICK lo, hi : Ordered(tree, onRq, key, lo, hi)
          BY <2>1 DEF Sorted
        <5>3. lo[r] <= lo[s] /\ hi[s] <= hi[l]
          BY <2>1, <3>2, <4>1, <5>2, Around DEF l, r
        <5>4. hi[l] <= key[p] /\ key[p] <= lo[r]
          BY <2>2, <5>1, <5>2 DEF Ordered, l, r
        <5>5. /\ lo[s] < key[s] /\ key[s] < hi[s]
              /\ lo[r] \in Int /\ hi[l] \in Int /\ lo[s] \in Int /\ hi[s] \in Int
              /\ key[s] \in Int /\ key[p] \in Int
          BY <2>1, <5>1, <5>2 DEF Ordered
        <5> QED
          BY <5>3, <5>4, <5>5
      <4> QED
        BY <2>1, <3>1, <3>2, <3>4, <4>2
    <3> QED
      BY <3>3, <3>4
  <2>4. Reds(tree, onRq, Nil, Nil)
    BY <2>1 DEF Plain
  <2>5. /\ ~Red(tree, tree.root)
        /\ \A s \in onRq : Red(tree, s) => ~Red(tree, tree.up[s])
    BY <2>2, <2>4 DEF Reds, Red, Links, RootLinked
  <2>6. Cardinality({Blacks(s) : s \in {r \in onRq : \E d \in Side : tree.down[d][r] = Nil}}) <= 1
    <3> DEFINE L == {r \in onRq : \E d \in Side : tree.down[d][r] = Nil}
               H == {Blacks(s) : s \in L}
    <3>1. PICK bh : Balanced(tree, onRq, bh, Nil, Nil)
      BY <2>1 DEF Plain
    <3>2. PICK k : \A s \in onRq : /\ Cardinality(BlacksAbove(tree, s)) \in Nat
                                   /\ Cardinality(BlacksAbove(tree, s)) + bh[s] = k
      <4>1. SameBlacks(tree, onRq, bh)
        BY <2>1, <3>1, BlackPaths
      <4> QED
        BY <4>1 DEF SameBlacks
    <3>3. bh \in [Slot -> Nat] /\ \A q \in onRq, f \in Side : bh[q] = BlackHeight(tree, bh, tree.down[f][q])
      <4>1. bh \in [Slot -> Nat]
        BY <3>1 DEF Balanced
      <4> QED
        BY <2>1, <2>2, <3>1, <4>1, PlainBalanced
    <3>4. \A s \in L : bh[s] = 0
      BY <3>3 DEF BlackHeight
    <3>5. \A s \in L : Blacks(s) = k
      <4>1. \A s \in onRq : Blacks(s) = Cardinality(BlacksAbove(tree, s))
        BY DEF Blacks, BlacksAbove, Upward, Up
      <4> QED
        BY <3>2, <3>4, <4>1
    <3>6. H \subseteq {k}
      BY <3>5
    <3>7. IsFiniteSet({k}) /\ Cardinality({k}) = 1
      BY FS_Singleton
    <3> HIDE DEF H
    <3>8. Cardinality(H) <= Cardinality({k})
      BY <3>6, <3>7, FS_Subset
    <3> QED
      BY <3>7, <3>8 DEF H
  <2> QED
    BY <2>3, <2>5, <2>6
<1> QED
  BY <1>1, QueueInductive, PTL

(* There are fewer nodes above a parent.                                   *)
LEMMA FewerAbove ==
  ASSUME NEW S \in SUBSET Slot, NEW key \in [Slot -> Int], NEW t, Sorted(t, S, key), NEW s \in S
  PROVE  /\ Cardinality(Up(t, s)) \in Nat
         /\ t.up[s] # Nil => Cardinality(Up(t, t.up[s])) < Cardinality(Up(t, s))
<1>1. IsFiniteSet(Slot)
  BY FS_Interval, ReadyQueueAssumption DEF Slot
<1>2. \A n \in S : IsFiniteSet(Up(t, n)) /\ Cardinality(Up(t, n)) \in Nat
  <2> TAKE n \in S
  <2>1. Up(t, n) \subseteq Slot
    BY UpIs
  <2>2. IsFiniteSet(Up(t, n))
    BY <1>1, <2>1, FS_Subset
  <2> QED
    BY <2>2, FS_CardinalityType
<1>3. ASSUME t.up[s] # Nil PROVE Cardinality(Up(t, t.up[s])) < Cardinality(Up(t, s))
  <2> DEFINE A == Up(t, t.up[s])
  <2>1. t.up[s] \in S /\ Up(t, s) = {s} \cup A /\ s \notin A
    BY <1>3, UpStep
  <2>2. IsFiniteSet(A) /\ Cardinality(A) \in Nat
    BY <1>2, <2>1
  <2>3. Up(t, s) = A \cup {s}
    BY <2>1
  <2> HIDE DEF A
  <2>4. Cardinality(Up(t, s)) = Cardinality(A) + 1
    BY <2>1, <2>2, <2>3, FS_AddElement
  <2> QED
    BY <2>2, <2>4 DEF A
<1> QED
  BY <1>2, <1>3

(* Both fix-up loops end: each turn brings them nearer to the root or is   *)
(* the last one.                                                           *)
THEOREM FixupsProgress == Spec => FixupProgresses
<1> DEFINE A == phase # "idle" /\ phase' = phase => Level' < Level \/ LoopDone'
<1>1. ASSUME QueueInv, [Next]_vars PROVE [A]_vars
  <2> SUFFICES ASSUME phase # "idle", phase' = phase, Next PROVE Level' < Level \/ LoopDone'
    BY <1>1
  <2> DEFINE key == Keys
  <2>1. Sorted(tree, onRq, key) /\ key \in [Slot -> Int] /\ onRq \in SUBSET Slot /\ Nil \notin onRq
    BY <1>1, AlwaysSorted, Sides
  <2> HIDE DEF key
  <2>2. \A s \in onRq : /\ Cardinality(Up(tree, s)) \in Nat
                        /\ tree.up[s] # Nil =>
                             Cardinality(Up(tree, tree.up[s])) < Cardinality(Up(tree, s))
    BY <2>1, FewerAbove
  <2>3. FixInsert \/ FixRemove
    BY DEF Next, Charge, Insert, Remove, EndInsert, EndRemove, Finish
  <2>4. CASE FixInsert
    <3>1. phase' = "inserting" /\ phase = "inserting" /\ onRq' = onRq
      BY <2>4 DEF FixInsert
    <3>2. QueueInv' /\ \/ /\ tree'.up = tree.up /\ index' = tree.up[tree.up[index]]
                          /\ tree.up[index] \in onRq
                       \/ ~Red(tree', tree'.up[index'])
      BY <1>1, <2>4, FixInsertKeeps
    <3>3. index \in onRq /\ index' \in onRq
      BY <1>1, <3>1, <3>2 DEF QueueInv, TreePhases, Inserted
    <3>4. CASE ~Red(tree', tree'.up[index'])
      BY <3>1, <3>4 DEF LoopDone
    <3>5. CASE tree'.up = tree.up /\ index' = tree.up[tree.up[index]] /\ tree.up[index] \in onRq
      <4>1. index # Nil /\ index' # Nil
        BY <2>1, <3>3
      <4>2. Level = Cardinality(Up(tree, index)) /\ Level' = Cardinality(Up(tree, index'))
        BY <3>5, <4>1 DEF Level, Upward, Up
      <4> DEFINE p == tree.up[index]
      <4>3. p \in onRq /\ p # Nil /\ index' = tree.up[p]
        BY <2>1, <3>5
      <4>4. Cardinality(Up(tree, p)) < Cardinality(Up(tree, index))
        BY <2>2, <3>3, <4>3
      <4> HIDE DEF p
      <4>5. Cardinality(Up(tree, index')) < Cardinality(Up(tree, p))
        BY <2>2, <4>1, <4>3
      <4> QED
        BY <2>2, <3>3, <4>2, <4>3, <4>4, <4>5
    <3> QED
      BY <3>2, <3>4, <3>5
  <2>5. CASE FixRemove
    <3>1. phase' = "removing" /\ phase = "removing" /\ onRq' = onRq /\ above # Nil
      BY <2>5 DEF FixRemove
    <3>2. (tree'.up = tree.up /\ index' = above) \/ index' = tree'.root \/ Red(tree', index')
      BY <1>1, <2>5, FixRemoveKeeps
    <3>3. CASE index' = tree'.root \/ Red(tree', index')
      BY <3>1, <3>3 DEF LoopDone
    <3>4. CASE tree'.up = tree.up /\ index' = above
      <4>1. PICK bh, g : Short(tree, onRq, Keys, bh, index, above, g)
        BY <1>1, <3>1 DEF QueueInv, TreePhases
      <4>2. above \in onRq /\ g \in Side /\ tree.down[g][above] = index
        BY <3>1, <4>1 DEF Short
      <4>3. Level' = Cardinality(Up(tree, above)) /\ Cardinality(Up(tree, above)) \in Nat
        BY <2>2, <3>1, <3>4, <4>2 DEF Level, Upward, Up
      <4>4. CASE index = Nil
        <5>1. Level = Cardinality(Up(tree, above)) + 1
          BY <4>4 DEF Level, Upward, Up
        <5> QED
          BY <4>3, <5>1
      <4>5. CASE index # Nil
        <5>1. Level = Cardinality(Up(tree, index))
          BY <4>5 DEF Level, Upward, Up
        <5>2. index \in onRq /\ tree.up[index] = above
          BY <2>1, <4>2, <4>5 DEF Sorted, Links, DownLinked
        <5> QED
          BY <2>2, <3>1, <4>3, <5>1, <5>2
      <4> QED
        BY <4>4, <4>5
    <3> QED
      BY <3>2, <3>3, <3>4
  <2> QED
    BY <2>3, <2>4, <2>5
<1> QED
  BY <1>1, QueueInductive, PTL DEF Spec, FixupProgresses

\* The members that the users of the queue know of
Members ==
  CASE phase = "idle" -> onRq
    [] phase = "inserting" -> onRq \ {subject}
    [] OTHER -> onRq \cup {subject}

(* At the end of an operation the cached leftmost node is the least one.   *)
LEMMA LeastCached ==
  ASSUME vruntime \in [Slot -> Nat], NEW t, NEW S \in SUBSET Slot, Plain(t, S, Keys)
  PROVE  Abstract!IsLeast(Minimum(t, t.root), S)
<1> DEFINE key == Keys
           l == Minimum(t, t.root)
<1>1. /\ key \in [Slot -> Int] /\ Sorted(t, S, key) /\ Links(t, S)
      /\ \A a, b \in Slot : Before(a, b) <=> key[a] < key[b]
      /\ \A a, b \in Slot : a # b => key[a] # key[b]
  BY BeforeIs DEF Plain, Sorted
<1>2. \A a, b : Abstract!Before(a, b) <=> Before(a, b)
  BY DEF Abstract!Before, Before
<1> HIDE DEF key
<1>3. CASE S = {}
  BY <1>1, <1>3 DEF Links, RootLinked, Minimum, Abstract!IsLeast, Abstract!Nil, Nil
<1>4. CASE S # {}
  <2>1. t.root \in S
    BY <1>1, <1>4 DEF Links, RootLinked
  <2>2. LeastBelow(t, S, key, t.root, l)
    BY <1>1, <2>1, MinimumIs
  <2>3. \A n \in S : t.root \in Up(t, n)
    BY <1>1, UpIs
  <2>4. l \in S /\ \A n \in S : key[l] <= key[n]
    BY <2>2, <2>3 DEF LeastBelow
  <2> HIDE DEF l
  <2>5. \A n \in S : n = l \/ Before(l, n)
    BY <1>1, <2>4
  <2> QED
    BY <1>2, <2>4, <2>5 DEF Abstract!IsLeast, l
<1> QED
  BY <1>3, <1>4

(* The tree implements the ordered set that the scheduler expects.         *)
THEOREM TreeImplementsReadySet == Spec => ImplementsReadySet
<1>1. Init => Abstract!Init
  BY DEF Init, Abstract!Init, Abstract!Slot, Abstract!Nil, Slot, Nil
<1>2. ASSUME QueueInv, QueueInv', [Next]_vars PROVE [Abstract!Next]_(Abstract!vars)
  <2> DEFINE becomes(S) == /\ Members' = S /\ Abstract!IsLeast(leftmost', S) /\ vruntime' = vruntime
  <2>0. /\ vruntime \in [Slot -> Nat] /\ onRq \in SUBSET Slot
        /\ Slot = Abstract!Slot
    BY <1>2 DEF QueueInv, QueueTypes, Slot, Abstract!Slot
  <2>1. ASSUME UNCHANGED <<vruntime, Members, leftmost>> PROVE UNCHANGED Abstract!vars
    BY <2>1 DEF Members, Abstract!vars
  <2>2. ASSUME NEW s \in Slot, s \notin Members, becomes(Members \cup {s}) PROVE Abstract!Next
    <3>1. Abstract!Insert(s)
      BY <2>2 DEF Members, Abstract!Insert, Abstract!Becomes
    <3> QED
      BY <2>0, <3>1 DEF Abstract!Next
  <2>3. ASSUME NEW s \in Slot, s \in Members, becomes(Members \ {s}) PROVE Abstract!Next
    <3>1. Abstract!Remove(s)
      BY <2>3 DEF Members, Abstract!Remove, Abstract!Becomes
    <3> QED
      BY <2>0, <3>1 DEF Abstract!Next
  <2>4. CASE UNCHANGED vars
    BY <2>1, <2>4 DEF vars, Members
  <2>5. ASSUME NEW s \in Charged, NEW v \in 0 .. MaxVruntime, Charge(s, v) PROVE Abstract!Next
    <3>1. s \in Slot
      BY ReadyQueueAssumption DEF Slot
    <3>2. Abstract!Charge(s, v)
      BY <2>5 DEF Charge, Abstract!Charge
    <3> QED
      BY <2>0, <3>1, <3>2 DEF Abstract!Next
  <2>6. ASSUME NEW s \in Slot, Insert(s) PROVE UNCHANGED Abstract!vars
    <3>1. /\ phase = "idle" /\ phase' = "inserting" /\ subject' = s /\ s \notin onRq
          /\ onRq' = onRq \cup {s} /\ vruntime' = vruntime /\ leftmost' = leftmost
      BY <2>6 DEF Insert
    <3>2. Members = onRq /\ Members' = onRq
      BY <3>1 DEF Members
    <3> QED
      BY <2>1, <3>1, <3>2
  <2>7. ASSUME NEW s \in Slot, Remove(s) PROVE UNCHANGED Abstract!vars
    <3>1. /\ phase = "idle" /\ phase' \in {"removed", "removing"} /\ subject' = s /\ s \in onRq
          /\ onRq' = onRq \ {s} /\ vruntime' = vruntime /\ leftmost' = leftmost
      BY <2>7 DEF Remove
    <3>2. Members = onRq /\ Members' = onRq
      BY <3>1 DEF Members
    <3> QED
      BY <2>1, <3>1, <3>2
  <2>8. CASE FixInsert \/ FixRemove
    <3>1. UNCHANGED <<vruntime, onRq, leftmost, phase, subject>>
      BY <2>8 DEF FixInsert, FixRemove
    <3>2. UNCHANGED <<vruntime, Members, leftmost>>
      BY <3>1 DEF Members
    <3> QED
      BY <2>1, <3>2
  <2>9. ASSUME phase' = "idle", onRq' = onRq, vruntime' = vruntime, leftmost' = Minimum(tree', tree'.root)
        PROVE  Members' = onRq /\ Abstract!IsLeast(leftmost', onRq)
    <3>1. Members' = onRq
      BY <2>9 DEF Members
    <3>2. Plain(tree', onRq, Keys)
      BY <1>2, <2>9 DEF QueueInv, QueueTypes, TreePhases, Keys
    <3> QED
      BY <2>0, <2>9, <3>1, <3>2, LeastCached
  <2>10. CASE EndInsert
    <3>1. /\ phase = "inserting" /\ phase' = "idle" /\ onRq' = onRq /\ vruntime' = vruntime
          /\ leftmost' = Minimum(tree', tree'.root)
      BY <2>10 DEF EndInsert, Finish, Leftmost
    <3>2. subject \in onRq
      BY <1>2, <3>1 DEF QueueInv, TreePhases
    <3>3. Members = onRq \ {subject}
      BY <3>1 DEF Members
    <3>4. Members \cup {subject} = onRq /\ subject \notin Members /\ subject \in Slot
      BY <2>0, <3>2, <3>3
    <3> QED
      BY <2>2, <2>9, <3>1, <3>4
  <2>11. CASE EndRemove
    <3>1. /\ phase \in {"removing", "removed"} /\ phase' = "idle" /\ onRq' = onRq
          /\ vruntime' = vruntime /\ leftmost' = Minimum(tree', tree'.root)
      BY <2>11 DEF EndRemove, Finish, Leftmost
    <3>2. subject \in Slot \ onRq
      BY <1>2, <3>1 DEF QueueInv, TreePhases
    <3>3. Members = onRq \cup {subject}
      BY <3>1 DEF Members
    <3>4. Members \ {subject} = onRq /\ subject \in Members /\ subject \in Slot
      BY <2>0, <3>2, <3>3
    <3> QED
      BY <2>3, <2>9, <3>1, <3>4
  <2> QED
    BY <1>2, <2>4, <2>5, <2>6, <2>7, <2>8, <2>10, <2>11 DEF Next
<1> QED
  BY <1>1, <1>2, QueueInductive, PTL DEF Spec, ImplementsReadySet, Abstract!Spec
=============================================================================
