---------------------------- MODULE FsImageProofs ----------------------------
(***************************************************************************)
(* Proofs about the file system of RuntimeFs together with the checkpoints *)
(* of FsImage, for node tables, files and paths of any size.               *)
(***************************************************************************)
EXTENDS FsImage, NatLemmas, SequenceTheorems

(* The columns of the node table and the open files stay in range.         *)
NodesTyped ==
  /\ kind \in [Node -> {"free", "dir", "reg"}]
  /\ parent \in [Node -> Node]
  /\ name \in [Node -> Names \cup {Empty}]
  /\ owner \in [Node -> Pids \cup {NoOwner}]
  /\ mode \in [Node -> SUBSET {"read", "write"}]
BytesTyped ==
  /\ size \in [Node -> 0 .. Capacity]
  /\ data \in [Node -> [0 .. (Capacity - 1) -> {0, 1}]]
FilesTyped ==
  files \in [File -> [node : Node \cup {None}, flags : SUBSET {"read", "write"},
                      owner : Pids \cup {NoOwner}, offset : 0 .. Capacity, cursor : Nat]]
TypeOK == NodesTyped /\ BytesTyped /\ FilesTyped

(* A free node is clear, and only a regular file has bytes.  (The root is  *)
(* left out because a path of empty pieces names it by another spelling.)  *)
FreeIsClear ==
  \A n \in Node :
    /\ kind[n] = "free" => mode[n] = {}
    /\ kind[n] = "free" /\ n # Root => parent[n] = Root /\ name[n] = Empty /\ owner[n] = NoOwner
    /\ kind[n] # "reg" => size[n] = 0

(* An open file has a node, which is the root or is in use.                *)
OpenOnNodes ==
  \A f \in Opened : /\ files[f].node \in Node
                    /\ files[f].node = Root \/ kind[files[f].node] # "free"

(* The inductive invariant, up to the shape of the tree.                   *)
FsInv == TypeOK /\ FreeIsClear /\ OpenOnNodes /\ WritersOwn /\ NoStaleBytes

-----------------------------------------------------------------------------
(* Paths.                                                                  *)

(* Least picks a number of its set, or None if there is none.              *)
LEMMA LeastOf ==
  ASSUME NEW S \in SUBSET Node
  PROVE  IF S = {} THEN Least(S) = None ELSE Least(S) \in S
<1>1. CASE S = {}
  BY <1>1 DEF Least
<1>2. CASE S # {}
  <2>1. S \in SUBSET Nat
    BY DEF Node
  <2>2. \E n \in S : \A m \in S : n <= m
    BY <1>2, <2>1, NatMin
  <2> QED
    BY <1>2, <2>2 DEF Least
<1> QED
  BY <1>1, <1>2

(* None is no node.                                                        *)
LEMMA NoneIsNoNode == None \notin Node /\ Root \in Node /\ Node \subseteq Nat /\ None \in Nat
BY RuntimeFsAssumption DEF None, Node, Root

(* A child of a directory is a used node with that parent and that name,   *)
(* if there is one.                                                        *)
LEMMA ChildOf ==
  ASSUME NEW d, NEW piece
  PROVE  /\ Child(d, piece) \in Node \cup {None}
         /\ Child(d, piece) # None =>
              /\ Child(d, piece) \in Node /\ kind[Child(d, piece)] # "free"
              /\ parent[Child(d, piece)] = d /\ name[Child(d, piece)] = piece
         /\ Child(d, piece) = None =>
              \A n \in Node : ~(kind[n] # "free" /\ parent[n] = d /\ name[n] = piece)
<1> DEFINE S == {n \in Node : kind[n] # "free" /\ parent[n] = d /\ name[n] = piece}
<1>1. S \in SUBSET Node /\ Child(d, piece) = Least(S)
  BY DEF Child
<1>2. IF S = {} THEN Least(S) = None ELSE Least(S) \in S
  <2> HIDE DEF S
  <2> QED
    BY <1>1, LeastOf
<1> QED
  BY <1>1, <1>2, NoneIsNoNode

(* The pieces of a path are a sequence, and none of them is empty.         *)
LEMMA TokensTyped ==
  ASSUME NEW path \in Path
  PROVE  Tokens(path) \in Seq(Names \ {Empty})
<1> DEFINE N == Len(path)
           S == Seq(Names \ {Empty})
           F == [x \in (1 .. N) \X S |-> IF path[x[1]] = Empty THEN x[2] ELSE Append(x[2], path[x[1]])]
           upTo == CHOOSE g : g = [k \in 0 .. Len(path) |->
             IF k = 0 THEN <<>>
             ELSE IF path[k] = Empty THEN g[k - 1] ELSE Append(g[k - 1], path[k])]
<1>1. path \in Seq(Names) /\ N \in Nat /\ \A k \in 1 .. N : path[k] \in Names
  BY RuntimeFsAssumption
<1>2. <<>> \in S
  OBVIOUS
<1>3. F \in [(1 .. N) \X S -> S]
  <2>1. ASSUME NEW k \in 1 .. N, NEW s \in S
        PROVE  (IF path[k] = Empty THEN s ELSE Append(s, path[k])) \in S
    BY <1>1
  <2> QED
    BY <2>1
<1>4. N \in Nat
  BY <1>1
<1>5. \E g : g = [k \in 0 .. Len(path) |->
             IF k = 0 THEN <<>>
             ELSE IF path[k] = Empty THEN g[k - 1] ELSE Append(g[k - 1], path[k])]
  <2>1. PICK g : IsIteration(g, S, <<>>, N, F)
    <3> HIDE DEF S, N, F, upTo
    <3> QED
      BY <1>2, <1>3, <1>4, IterateExists
  <2>2. g \in [0 .. N -> S] /\ g[0] = <<>> /\ \A k \in 1 .. N : g[k] = F[<<k, g[k - 1]>>]
    <3> HIDE DEF S, N, F, upTo
    <3> QED
      BY <2>1 DEF IsIteration
  <2>3. \A k \in 1 .. N : g[k] = IF path[k] = Empty THEN g[k - 1] ELSE Append(g[k - 1], path[k])
    <3> TAKE k \in 1 .. N
    <3>1. k - 1 \in 0 .. N
      BY <1>4
    <3>2. g[k - 1] \in S
      <4> HIDE DEF S, N
      <4> QED
        BY <2>2, <3>1
    <3>3. F[<<k, g[k - 1]>>] = IF path[k] = Empty THEN g[k - 1] ELSE Append(g[k - 1], path[k])
      <4> HIDE DEF S, N
      <4> QED
        BY <3>2
    <3> QED
      BY <2>2, <3>3
  <2>4. \A k \in 0 .. N : k = 0 \/ k \in 1 .. N
    BY <1>4
  <2>5. g = [k \in 0 .. N |-> g[k]]
    BY <2>2
  <2>6. g = [k \in 0 .. Len(path) |->
             IF k = 0 THEN <<>>
             ELSE IF path[k] = Empty THEN g[k - 1] ELSE Append(g[k - 1], path[k])]
    BY <2>2, <2>3, <2>4, <2>5
  <2> QED
    BY <2>6
<1>6. upTo = [k \in 0 .. Len(path) |->
         IF k = 0 THEN <<>>
         ELSE IF path[k] = Empty THEN upTo[k - 1] ELSE Append(upTo[k - 1], path[k])]
  BY <1>5
<1>7. Tokens(path) = upTo[N]
  BY DEF Tokens
<1> HIDE DEF upTo
<1>8. ASSUME NEW k \in 1 .. N
      PROVE  upTo[k] = IF path[k] = Empty THEN upTo[k - 1] ELSE Append(upTo[k - 1], path[k])
  <2>1. k \in 0 .. Len(path) /\ k # 0
    BY <1>1
  <2>2. upTo[k] = [j \in 0 .. Len(path) |->
           IF j = 0 THEN <<>>
           ELSE IF path[j] = Empty THEN upTo[j - 1] ELSE Append(upTo[j - 1], path[j])][k]
    BY <1>6
  <2> QED
    BY <2>1, <2>2
<1>9. upTo \in [0 .. N -> S]
  <2>1. upTo = [k \in 0 .. N |-> upTo[k]] /\ upTo[0] \in S
    BY <1>1, <1>2, <1>6
  <2>2. \A k \in 1 .. N : upTo[k - 1] \in S => upTo[k] \in S
    <3> TAKE k \in 1 .. N
    <3> HAVE upTo[k - 1] \in S
    <3>1. upTo[k] = IF path[k] = Empty THEN upTo[k - 1] ELSE Append(upTo[k - 1], path[k])
      BY <1>8
    <3>2. path[k] \in Names
      BY <1>1
    <3> QED
      BY <3>1, <3>2
  <2> HIDE DEF S, N
  <2> QED
    BY <1>1, <2>1, <2>2, IterateTyped
<1> QED
  BY <1>1, <1>7, <1>9

(* The nodes along a path: each is a child of the one before, as long as   *)
(* there is one.                                                           *)
LEMMA StepsTyped ==
  ASSUME NEW pieces \in Seq(Names \ {Empty})
  PROVE  /\ Steps(pieces) \in [0 .. Len(pieces) -> Node \cup {None}]
         /\ Steps(pieces)[0] = Root
         /\ \A k \in 1 .. Len(pieces) :
              Steps(pieces)[k] = IF Steps(pieces)[k - 1] = None THEN None
                                 ELSE Child(Steps(pieces)[k - 1], pieces[k])
<1> DEFINE N == Len(pieces)
           S == Node \cup {None}
           F == [x \in (1 .. N) \X S |-> IF x[2] = None THEN None ELSE Child(x[2], pieces[x[1]])]
           at == CHOOSE g : g = [k \in 0 .. Len(pieces) |->
             IF k = 0 THEN Root
             ELSE IF g[k - 1] = None THEN None ELSE Child(g[k - 1], pieces[k])]
<1>1. N \in Nat
  OBVIOUS
<1>2. Root \in S
  BY NoneIsNoNode
<1>3. F \in [(1 .. N) \X S -> S]
  <2>1. ASSUME NEW k \in 1 .. N, NEW d \in S
        PROVE  (IF d = None THEN None ELSE Child(d, pieces[k])) \in S
    BY ChildOf
  <2> QED
    BY <2>1
<1>4. \E g : g = [k \in 0 .. Len(pieces) |->
             IF k = 0 THEN Root
             ELSE IF g[k - 1] = None THEN None ELSE Child(g[k - 1], pieces[k])]
  <2>1. PICK g : IsIteration(g, S, Root, N, F)
    <3> HIDE DEF S, N, F, at
    <3> QED
      BY <1>1, <1>2, <1>3, IterateExists
  <2>2. g \in [0 .. N -> S] /\ g[0] = Root /\ \A k \in 1 .. N : g[k] = F[<<k, g[k - 1]>>]
    <3> HIDE DEF S, N, F, at
    <3> QED
      BY <2>1 DEF IsIteration
  <2>3. \A k \in 1 .. N : g[k] = IF g[k - 1] = None THEN None ELSE Child(g[k - 1], pieces[k])
    <3> TAKE k \in 1 .. N
    <3>1. k - 1 \in 0 .. N
      BY <1>1
    <3>2. g[k - 1] \in S
      <4> HIDE DEF S, N
      <4> QED
        BY <2>2, <3>1
    <3>3. F[<<k, g[k - 1]>>] = IF g[k - 1] = None THEN None ELSE Child(g[k - 1], pieces[k])
      <4> HIDE DEF S, N
      <4> QED
        BY <3>2
    <3> QED
      BY <2>2, <3>3
  <2>4. \A k \in 0 .. N : k = 0 \/ k \in 1 .. N
    BY <1>1
  <2>5. g = [k \in 0 .. N |-> g[k]]
    BY <2>2
  <2>6. g = [k \in 0 .. Len(pieces) |->
             IF k = 0 THEN Root
             ELSE IF g[k - 1] = None THEN None ELSE Child(g[k - 1], pieces[k])]
    BY <2>2, <2>3, <2>4, <2>5
  <2> QED
    BY <2>6
<1>5. at = [k \in 0 .. Len(pieces) |->
         IF k = 0 THEN Root
         ELSE IF at[k - 1] = None THEN None ELSE Child(at[k - 1], pieces[k])]
  BY <1>4
<1>6. Steps(pieces) = at
  BY DEF Steps
<1> HIDE DEF at
<1>7. ASSUME NEW k \in 1 .. N
      PROVE  at[k] = IF at[k - 1] = None THEN None ELSE Child(at[k - 1], pieces[k])
  <2>1. k \in 0 .. Len(pieces) /\ k # 0
    BY <1>1
  <2>2. at[k] = [j \in 0 .. Len(pieces) |->
           IF j = 0 THEN Root
           ELSE IF at[j - 1] = None THEN None ELSE Child(at[j - 1], pieces[j])][k]
    BY <1>5
  <2> QED
    BY <2>1, <2>2
<1>8. at = [k \in 0 .. N |-> at[k]] /\ at[0] = Root
  BY <1>1, <1>5
<1>9. at \in [0 .. N -> S]
  <2>1. \A k \in 1 .. N : at[k - 1] \in S => at[k] \in S
    BY <1>7, ChildOf
  <2>2. at[0] \in S
    BY <1>2, <1>8
  <2> HIDE DEF S, N
  <2> QED
    BY <1>1, <1>8, <2>1, <2>2, IterateTyped
<1> QED
  BY <1>6, <1>7, <1>8, <1>9

(* A path that resolves names the root or a node in use.                   *)
LEMMA ResolveTyped ==
  ASSUME NEW path \in Path
  PROVE  /\ Resolve(path) \in Node \cup {None}
         /\ Resolve(path) # None => Resolve(path) = Root \/ kind[Resolve(path)] # "free"
<1> DEFINE pieces == Tokens(path)
           at == Steps(pieces)
           N == Len(pieces)
<1>1. pieces \in Seq(Names \ {Empty}) /\ N \in Nat
  BY TokensTyped
<1>2. /\ at \in [0 .. N -> Node \cup {None}]
      /\ at[0] = Root
      /\ \A k \in 1 .. N : at[k] = IF at[k - 1] = None THEN None ELSE Child(at[k - 1], pieces[k])
  BY <1>1, StepsTyped
<1>3. Resolve(path) = at[N]
  BY DEF Resolve
<1> HIDE DEF pieces, at
<1>4. CASE N = 0
  BY <1>2, <1>3, <1>4, NoneIsNoNode
<1>5. CASE N # 0
  <2>1. N \in 1 .. N /\ N \in 0 .. N
    BY <1>1, <1>5
  <2>2. at[N] \in Node \cup {None} /\ (at[N] # None => at[N] = Child(at[N - 1], pieces[N]))
    BY <1>2, <2>1
  <2> QED
    BY <1>3, <2>2, ChildOf
<1> QED
  BY <1>4, <1>5

(* The parent of a path is the root or a directory, and what the path      *)
(* resolves to is looked up there under the path's last piece.             *)
LEMMA ParentTyped ==
  ASSUME NEW path \in Path, Parent(path) # None
  PROVE  /\ Parent(path) \in Node
         /\ Parent(path) = Root \/ kind[Parent(path)] = "dir"
         /\ Leaf(path) \in Names \ {Empty}
         /\ Resolve(path) = Child(Parent(path), Leaf(path))
<1> DEFINE pieces == Tokens(path)
           at == Steps(pieces)
           N == Len(pieces)
<1>1. pieces \in Seq(Names \ {Empty}) /\ N \in Nat
  BY TokensTyped
<1>2. /\ at \in [0 .. N -> Node \cup {None}]
      /\ at[0] = Root
      /\ \A k \in 1 .. N : at[k] = IF at[k - 1] = None THEN None ELSE Child(at[k - 1], pieces[k])
  BY <1>1, StepsTyped
<1>3. Resolve(path) = at[N] /\ Leaf(path) = pieces[N]
  BY DEF Resolve, Leaf
<1>4. /\ pieces # <<>>
      /\ \A k \in 1 .. (N - 1) : at[k] # None /\ kind[at[k]] = "dir"
      /\ Parent(path) = at[N - 1]
  BY DEF Parent
<1> HIDE DEF at
<1>5. N \in 1 .. N /\ N - 1 \in 0 .. N /\ (N - 1 = 0 \/ N - 1 \in 1 .. (N - 1))
  <2>1. N # 0
    BY <1>1, <1>4, EmptySeq
  <2>2. N \in Nat
    BY <1>1
  <2> HIDE DEF N
  <2> QED
    BY <2>1, <2>2
<1>6. pieces[N] \in Names \ {Empty}
  BY <1>1, <1>5
<1> HIDE DEF pieces
<1>7. at[N - 1] \in Node /\ (at[N - 1] = Root \/ kind[at[N - 1]] = "dir")
  BY <1>2, <1>4, <1>5, NoneIsNoNode
<1> QED
  BY <1>2, <1>3, <1>4, <1>5, <1>6, <1>7

-----------------------------------------------------------------------------
(* The parts of a step.                                                    *)

(* The node that is allocated is free and is not the root.                 *)
LEMMA FreeNodeIsFree ==
  ASSUME FreeNode # None
  PROVE  FreeNode \in Node /\ FreeNode # Root /\ kind[FreeNode] = "free"
<1> DEFINE S == {n \in Node \ {Root} : kind[n] = "free"}
<1>1. S \in SUBSET Node /\ FreeNode = Least(S)
  BY DEF FreeNode
<1>2. IF S = {} THEN Least(S) = None ELSE Least(S) \in S
  <2> HIDE DEF S
  <2> QED
    BY <1>1, LeastOf
<1>3. FreeNode \in S
  <2> HIDE DEF S
  <2> QED
    BY <1>1, <1>2
<1> QED
  BY <1>3

(* A node that is filled has the given columns, and the others keep        *)
(* theirs.                                                                 *)
LEMMA FillTyped ==
  ASSUME NodesTyped, BytesTyped, NEW n \in Node, NEW k \in {"free", "dir", "reg"}, NEW d \in Node,
         NEW piece \in Names \cup {Empty}, NEW p \in Pids \cup {NoOwner}, NEW m \in SUBSET {"read", "write"},
         Fill(n, k, d, piece, p, m), Emptied(n)
  PROVE  /\ NodesTyped' /\ BytesTyped'
         /\ kind'[n] = k /\ parent'[n] = d /\ name'[n] = piece /\ owner'[n] = p /\ mode'[n] = m
         /\ size'[n] = 0 /\ data'[n] = Zeros
         /\ \A o \in Node \ {n} :
              /\ kind'[o] = kind[o] /\ parent'[o] = parent[o] /\ name'[o] = name[o]
              /\ owner'[o] = owner[o] /\ mode'[o] = mode[o]
              /\ size'[o] = size[o] /\ data'[o] = data[o]
<1>1. Zeros \in [0 .. (Capacity - 1) -> {0, 1}]
  BY DEF Zeros
<1>2. NodesTyped'
  BY DEF NodesTyped, Fill
<1>3. BytesTyped'
  BY <1>1, RuntimeFsAssumption DEF BytesTyped, Emptied
<1>4. /\ kind'[n] = k /\ parent'[n] = d /\ name'[n] = piece /\ owner'[n] = p /\ mode'[n] = m
      /\ \A o \in Node \ {n} :
           /\ kind'[o] = kind[o] /\ parent'[o] = parent[o] /\ name'[o] = name[o]
           /\ owner'[o] = owner[o] /\ mode'[o] = mode[o]
  BY DEF NodesTyped, Fill
<1>5. /\ size'[n] = 0 /\ data'[n] = Zeros
      /\ \A o \in Node \ {n} : size'[o] = size[o] /\ data'[o] = data[o]
  BY DEF BytesTyped, Emptied
<1> QED
  BY <1>2, <1>3, <1>4, <1>5

(* A slot that was closed holds the new open file, or there is none and    *)
(* nothing changes.                                                        *)
LEMMA SlottedTyped ==
  ASSUME FilesTyped, NEW n \in Node, NEW p \in Pids, NEW flags, Slotted(n, p, flags)
  PROVE  /\ FilesTyped'
         /\ \/ files' = files
            \/ \E s \in File \ Opened :
                 /\ files'[s].node = n /\ files'[s].flags = flags \cap {"read", "write"}
                 /\ files'[s].owner = p
                 /\ \A g \in File \ {s} : files'[g] = files[g]
                 /\ Opened' = Opened \cup {s}
<1>1. CASE Opened = File
  BY <1>1 DEF Slotted, FilesTyped
<1>2. CASE Opened # File
  <2> DEFINE s == CHOOSE g \in File \ Opened : \A h \in File \ Opened : g <= h
             r == [node |-> n, flags |-> flags \cap {"read", "write"},
                   owner |-> p, offset |-> 0, cursor |-> 0]
  <2>1. s \in File \ Opened
    <3>1. File \ Opened \in SUBSET Nat /\ File \ Opened # {}
      BY <1>2 DEF File, Opened
    <3>2. \E g \in File \ Opened : \A h \in File \ Opened : g <= h
      BY <3>1, NatMin
    <3> QED
      BY <3>2
  <2>2. files' = [files EXCEPT ![s] = r]
    BY <1>2 DEF Slotted
  <2>3. /\ r \in [node : Node \cup {None}, flags : SUBSET {"read", "write"},
                  owner : Pids \cup {NoOwner}, offset : 0 .. Capacity, cursor : Nat]
        /\ r.node = n /\ r.flags = flags \cap {"read", "write"} /\ r.owner = p
    BY RuntimeFsAssumption
  <2>4. r # Closed
    BY NoneIsNoNode DEF Closed
  <2> HIDE DEF s, r
  <2>5. files'[s] = r /\ \A g \in File \ {s} : files'[g] = files[g]
    BY <2>1, <2>2 DEF FilesTyped
  <2>6. FilesTyped'
    BY <2>1, <2>2, <2>3 DEF FilesTyped
  <2>7. Opened' = Opened \cup {s}
    BY <2>1, <2>4, <2>5 DEF Opened
  <2> QED
    BY <2>1, <2>3, <2>5, <2>6, <2>7
<1> QED
  BY <1>1, <1>2

-----------------------------------------------------------------------------
(* The parts of the invariant.                                             *)

\* What a step keeps of the open files
Kept ==
  \A f \in File : f \in Opened /\ files'[f] # Closed =>
    /\ files'[f].node = files[f].node
    /\ kind'[files[f].node] = kind[files[f].node] /\ owner'[files[f].node] = owner[files[f].node]

\* The nodes of open files are not given to others
NodesKept ==
  \A f \in Opened : /\ kind'[files[f].node] = kind[files[f].node]
                    /\ owner'[files[f].node] = owner[files[f].node]

(* Filling a node that is not open keeps what is about nodes alone.        *)
LEMMA FillInv ==
  ASSUME FsInv, NEW n \in Node, NEW k \in {"free", "dir", "reg"}, NEW d \in Node,
         NEW piece \in Names \cup {Empty}, NEW p \in Pids \cup {NoOwner}, NEW m \in SUBSET {"read", "write"},
         Fill(n, k, d, piece, p, m), Emptied(n),
         k = "free" => d = Root /\ piece = Empty /\ p = NoOwner /\ m = {},
         \A f \in Opened : files[f].node # n
  PROVE  /\ NodesTyped' /\ BytesTyped' /\ FreeIsClear' /\ NoStaleBytes' /\ NodesKept
         /\ kind'[n] = k /\ owner'[n] = p
<1>0. NodesTyped /\ BytesTyped
  BY DEF FsInv, TypeOK
<1>1. /\ NodesTyped' /\ BytesTyped'
      /\ kind'[n] = k /\ parent'[n] = d /\ name'[n] = piece /\ owner'[n] = p /\ mode'[n] = m
      /\ size'[n] = 0 /\ data'[n] = Zeros
      /\ \A o \in Node \ {n} :
           /\ kind'[o] = kind[o] /\ parent'[o] = parent[o] /\ name'[o] = name[o]
           /\ owner'[o] = owner[o] /\ mode'[o] = mode[o]
           /\ size'[o] = size[o] /\ data'[o] = data[o]
  BY <1>0, FillTyped
<1>2. FreeIsClear'
  BY <1>1 DEF FsInv, FreeIsClear
<1>3. NoStaleBytes'
  <2> SUFFICES ASSUME NEW o \in Node, NEW i \in size'[o] .. (Capacity - 1) PROVE data'[o][i] = 0
    BY DEF NoStaleBytes
  <2>1. CASE o = n
    <3>1. i \in 0 .. (Capacity - 1)
      BY <1>1, <2>1
    <3> QED
      BY <1>1, <2>1, <3>1 DEF Zeros
  <2>2. CASE o # n
    BY <1>1, <2>2 DEF FsInv, NoStaleBytes
  <2> QED
    BY <2>1, <2>2
<1>4. NodesKept
  BY <1>1 DEF NodesKept, FsInv, OpenOnNodes
<1> QED
  BY <1>1, <1>2, <1>3, <1>4

(* Leaving the open files alone keeps what is about them.                  *)
LEMMA SameFilesInv ==
  ASSUME FsInv, NodesKept, files' = files
  PROVE  FilesTyped' /\ OpenOnNodes' /\ WritersOwn' /\ Kept
<1>1. Opened' = Opened
  BY DEF Opened
<1>2. FilesTyped'
  BY DEF FsInv, TypeOK, FilesTyped
<1>3. OpenOnNodes'
  BY <1>1 DEF FsInv, OpenOnNodes, NodesKept
<1>4. WritersOwn'
  BY <1>1 DEF FsInv, WritersOwn, NodesKept, Allows
<1>5. Kept
  BY DEF Kept, NodesKept
<1> QED
  BY <1>2, <1>3, <1>4, <1>5

(* An open that is granted keeps what is about open files.                 *)
LEMMA SlottedInv ==
  ASSUME FsInv, NodesKept, NEW n \in Node, NEW p \in Pids, NEW flags, Slotted(n, p, flags),
         n = Root \/ kind'[n] # "free",
         "write" \in flags => kind'[n] = "reg" /\ owner'[n] \in {NoOwner, p} /\ ~HasWriter(n)
  PROVE  FilesTyped' /\ OpenOnNodes' /\ WritersOwn' /\ Kept
<1>0. FilesTyped
  BY DEF FsInv, TypeOK
<1>1. CASE files' = files
  BY <1>1, SameFilesInv
<1>2. CASE files' # files
  <2>1. FilesTyped'
    BY <1>0, SlottedTyped
  <2>2. PICK s \in File \ Opened :
          /\ files'[s].node = n /\ files'[s].flags = flags \cap {"read", "write"}
          /\ files'[s].owner = p
          /\ \A g \in File \ {s} : files'[g] = files[g]
          /\ Opened' = Opened \cup {s}
    BY <1>0, <1>2, SlottedTyped
  <2>3. \A g \in Opened : g # s /\ g \in File /\ files'[g] = files[g]
    BY <2>2 DEF Opened
  <2>4. OpenOnNodes'
    <3> SUFFICES ASSUME NEW f \in Opened'
                 PROVE  /\ files'[f].node \in Node
                        /\ files'[f].node = Root \/ kind'[files'[f].node] # "free"
      BY DEF OpenOnNodes
    <3>1. CASE f = s
      BY <2>2, <3>1
    <3>2. CASE f \in Opened
      BY <2>3, <3>2 DEF FsInv, OpenOnNodes, NodesKept
    <3> QED
      BY <2>2, <3>1, <3>2
  <2>5. WritersOwn'
    <3> SUFFICES ASSUME NEW f \in Opened', "write" \in files'[f].flags
                 PROVE  /\ kind'[files'[f].node] = "reg"
                        /\ owner'[files'[f].node] \in {NoOwner, files'[f].owner}
                        /\ \A g \in Opened' \ {f} : files'[g].node = files'[f].node =>
                                                      "write" \notin files'[g].flags
      BY DEF WritersOwn, Allows
    <3>1. CASE f = s
      <4>1. "write" \in flags
        BY <2>2, <3>1
      <4>2. \A g \in Opened : files[g].node = n => "write" \notin files[g].flags
        BY <4>1 DEF HasWriter
      <4> QED
        BY <2>2, <2>3, <3>1, <4>1, <4>2
    <3>2. CASE f \in Opened
      <4>1. /\ "write" \in files[f].flags
            /\ kind[files[f].node] = "reg" /\ owner[files[f].node] \in {NoOwner, files[f].owner}
            /\ \A g \in Opened \ {f} : files[g].node = files[f].node => "write" \notin files[g].flags
        BY <2>3, <3>2 DEF FsInv, WritersOwn, Allows
      <4>2. files'[s].node = files'[f].node => "write" \notin files'[s].flags
        BY <2>2, <2>3, <3>2, <4>1 DEF HasWriter
      <4> QED
        BY <2>2, <2>3, <3>2, <4>1, <4>2 DEF NodesKept
    <3> QED
      BY <2>2, <3>1, <3>2
  <2>6. Kept
    BY <2>3 DEF Kept, NodesKept
  <2> QED
    BY <2>1, <2>4, <2>5, <2>6
<1> QED
  BY <1>1, <1>2

(* Moving the offset or the cursor of an open file keeps what is about     *)
(* open files.                                                             *)
LEMMA MovedInv ==
  ASSUME FsInv, NodesKept, NEW f \in Opened, NEW o \in 0 .. Capacity, NEW c \in Nat,
         files' = [files EXCEPT ![f] = [files[f] EXCEPT !.offset = o, !.cursor = c]]
  PROVE  FilesTyped' /\ OpenOnNodes' /\ WritersOwn' /\ Kept
<1>0. FilesTyped /\ f \in File /\ files[f].node \in Node
  BY DEF FsInv, TypeOK, OpenOnNodes, Opened
<1>1. FilesTyped'
  BY <1>0 DEF FilesTyped
<1>2. \A g \in File : /\ files'[g].node = files[g].node /\ files'[g].flags = files[g].flags
                      /\ files'[g].owner = files[g].owner
  BY <1>0 DEF FilesTyped
<1>3. Opened' = Opened
  <2>1. files'[f] # Closed
    <3>1. Closed.node = None
      BY DEF Closed
    <3> QED
      BY <1>0, <1>2, <3>1, NoneIsNoNode
  <2>2. \A g \in File \ {f} : files'[g] = files[g]
    BY <1>0 DEF FilesTyped
  <2> QED
    BY <2>1, <2>2 DEF Opened
<1>4. \A g \in Opened : g \in File
  BY DEF Opened
<1>5. OpenOnNodes'
  BY <1>2, <1>3, <1>4 DEF FsInv, OpenOnNodes, NodesKept
<1>6. WritersOwn'
  BY <1>2, <1>3, <1>4 DEF FsInv, WritersOwn, NodesKept, Allows
<1>7. Kept
  BY <1>2 DEF Kept, NodesKept
<1> QED
  BY <1>1, <1>5, <1>6, <1>7

-----------------------------------------------------------------------------
(* The operations.                                                         *)

(* A directory is made at a free node.                                     *)
LEMMA MkdirInv ==
  ASSUME FsInv, NEW p \in Pids, NEW path \in Path, NEW m \in Modes, Mkdir(p, path, m)
  PROVE  FsInv' /\ Kept
<1> DEFINE d == Parent(path)
           n == FreeNode
<1>1. d \in Node /\ Leaf(path) \in Names \cup {Empty} /\ m \in SUBSET {"read", "write"}
  BY ParentTyped, RuntimeFsAssumption DEF Mkdir
<1>2. n \in Node /\ n # Root /\ kind[n] = "free"
  BY FreeNodeIsFree DEF Mkdir
<1>3. Fill(n, "dir", d, Leaf(path), p, m) /\ Emptied(n) /\ files' = files
  BY DEF Mkdir
<1> HIDE DEF d, n
<1>4. \A f \in Opened : files[f].node # n
  BY <1>2 DEF FsInv, OpenOnNodes
<1>5. NodesTyped' /\ BytesTyped' /\ FreeIsClear' /\ NoStaleBytes' /\ NodesKept
  BY <1>1, <1>2, <1>3, <1>4, FillInv
<1>6. FilesTyped' /\ OpenOnNodes' /\ WritersOwn' /\ Kept
  BY <1>3, <1>5, SameFilesInv
<1> QED
  BY <1>5, <1>6 DEF FsInv, TypeOK

(* A node that is not open is freed.                                       *)
LEMMA RemoveInv ==
  ASSUME FsInv, NEW p \in Pids, NEW path \in Path, Remove(p, path)
  PROVE  FsInv' /\ Kept
<1> DEFINE n == Resolve(path)
<1>1. n \in Node
  BY ResolveTyped DEF Remove
<1>2. Fill(n, "free", Root, Empty, NoOwner, {}) /\ Emptied(n) /\ files' = files /\ ~IsOpen(n)
  BY DEF Remove
<1> HIDE DEF n
<1>3. \A f \in Opened : files[f].node # n
  BY <1>2 DEF IsOpen
<1>4. NodesTyped' /\ BytesTyped' /\ FreeIsClear' /\ NoStaleBytes' /\ NodesKept
  BY <1>1, <1>2, <1>3, FillInv, NoneIsNoNode
<1>5. FilesTyped' /\ OpenOnNodes' /\ WritersOwn' /\ Kept
  BY <1>2, <1>4, SameFilesInv
<1> QED
  BY <1>4, <1>5 DEF FsInv, TypeOK

(* A node that is the root or in use is moved.                             *)
LEMMA RenameInv ==
  ASSUME FsInv, NEW p \in Pids, NEW old \in Path, NEW new \in Path, Rename(p, old, new)
  PROVE  FsInv' /\ Kept
<1> DEFINE n == Resolve(old)
           d == Parent(new)
<1>1. n \in Node /\ (n = Root \/ kind[n] # "free")
  BY ResolveTyped DEF Rename
<1>2. d \in Node /\ Leaf(new) \in Names \cup {Empty}
  BY ParentTyped DEF Rename
<1>3. /\ parent' = [parent EXCEPT ![n] = d]
      /\ name' = [name EXCEPT ![n] = Leaf(new)]
      /\ UNCHANGED <<kind, owner, mode, size, data, files>>
  BY DEF Rename, contents
<1> HIDE DEF n, d
<1>4. NodesTyped' /\ BytesTyped'
  BY <1>1, <1>2, <1>3 DEF FsInv, TypeOK, NodesTyped, BytesTyped
<1>5. FreeIsClear'
  BY <1>1, <1>2, <1>3 DEF FsInv, TypeOK, NodesTyped, FreeIsClear
<1>6. NoStaleBytes' /\ NodesKept
  BY <1>3 DEF FsInv, NoStaleBytes, NodesKept
<1>7. FilesTyped' /\ OpenOnNodes' /\ WritersOwn' /\ Kept
  BY <1>3, <1>6, SameFilesInv
<1> QED
  BY <1>4, <1>5, <1>6, <1>7 DEF FsInv, TypeOK

(* A node that exists is opened, and may be truncated though the open is   *)
(* refused in the end.                                                     *)
LEMMA OpenExistingInv ==
  ASSUME FsInv, NEW p \in Pids, NEW path \in Path, NEW flags \in FlagSets, OpenExisting(p, path, flags)
  PROVE  FsInv' /\ Kept
<1> DEFINE n == Resolve(path)
<1>1. n \in Node /\ (n = Root \/ kind[n] # "free")
  BY ResolveTyped DEF OpenExisting
<1>2. /\ ~RefusedEarly(n, flags)
      /\ IF "truncate" \in flags /\ kind[n] = "reg" THEN Emptied(n) ELSE UNCHANGED contents
      /\ IF RefusedLate(n, p, flags) THEN files' = files ELSE Slotted(n, p, flags)
      /\ UNCHANGED <<kind, parent, name, owner, mode>>
  BY DEF OpenExisting, tree
<1> HIDE DEF n
<1>3. NodesTyped' /\ NodesKept
  BY <1>2 DEF FsInv, TypeOK, NodesTyped, NodesKept
<1>4. BytesTyped' /\ FreeIsClear' /\ NoStaleBytes'
  <2>1. CASE "truncate" \in flags /\ kind[n] = "reg"
    <3>1. size' = [size EXCEPT ![n] = 0] /\ data' = [data EXCEPT ![n] = Zeros]
      BY <1>2, <2>1 DEF Emptied
    <3>2. Zeros \in [0 .. (Capacity - 1) -> {0, 1}] /\ BytesTyped
      BY DEF Zeros, FsInv, TypeOK
    <3>3. BytesTyped'
      BY <1>1, <3>1, <3>2, RuntimeFsAssumption DEF BytesTyped
    <3>4. FreeIsClear'
      BY <1>2, <3>1, <3>2 DEF BytesTyped, FsInv, FreeIsClear
    <3>5. NoStaleBytes'
      <4> SUFFICES ASSUME NEW o \in Node, NEW i \in size'[o] .. (Capacity - 1) PROVE data'[o][i] = 0
        BY DEF NoStaleBytes
      <4>1. CASE o = n
        <5>1. i \in 0 .. (Capacity - 1) /\ data'[o] = Zeros
          BY <1>1, <3>1, <3>2, <4>1 DEF BytesTyped
        <5> QED
          BY <5>1 DEF Zeros
      <4>2. CASE o # n
        BY <3>1, <3>2, <4>2 DEF BytesTyped, FsInv, NoStaleBytes
      <4> QED
        BY <4>1, <4>2
    <3> QED
      BY <3>3, <3>4, <3>5
  <2>2. CASE ~("truncate" \in flags /\ kind[n] = "reg")
    <3>1. UNCHANGED <<size, data>>
      BY <1>2, <2>2 DEF contents
    <3> QED
      BY <1>2, <3>1 DEF FsInv, TypeOK, BytesTyped, FreeIsClear, NoStaleBytes
  <2> QED
    BY <2>1, <2>2
<1>5. FilesTyped' /\ OpenOnNodes' /\ WritersOwn' /\ Kept
  <2>1. CASE RefusedLate(n, p, flags)
    BY <1>2, <1>3, <2>1, SameFilesInv
  <2>2. CASE ~RefusedLate(n, p, flags)
    <3>1. ASSUME "write" \in flags
          PROVE  kind'[n] = "reg" /\ owner'[n] \in {NoOwner, p} /\ ~HasWriter(n)
      <4>1. kind[n] # "dir" /\ "write" \in mode[n]
        BY <1>2, <3>1 DEF RefusedEarly
      <4>2. kind[n] = "reg"
        BY <1>1, <4>1 DEF FsInv, TypeOK, NodesTyped, FreeIsClear
      <4>3. ~HasWriter(n) /\ owner[n] \in {NoOwner, p}
        BY <2>2, <3>1 DEF RefusedLate, RefusedIfBusy, RefusedIfForeign, Allows
      <4> QED
        BY <1>2, <4>2, <4>3
    <3>2. Slotted(n, p, flags) /\ (n = Root \/ kind'[n] # "free")
      BY <1>1, <1>2, <2>2
    <3> QED
      BY <1>1, <1>3, <3>1, <3>2, SlottedInv
  <2> QED
    BY <2>1, <2>2
<1> QED
  BY <1>3, <1>4, <1>5 DEF FsInv, TypeOK

(* A file is made at a free node and opened, if there is a slot.           *)
LEMMA OpenCreatingInv ==
  ASSUME FsInv, NEW p \in Pids, NEW path \in Path, NEW flags \in FlagSets, OpenCreating(p, path, flags)
  PROVE  FsInv' /\ Kept
<1> DEFINE d == Parent(path)
           n == FreeNode
           m == {"read", "write"}
<1>1. d \in Node /\ Leaf(path) \in Names \cup {Empty} /\ m \in SUBSET {"read", "write"}
  BY ParentTyped DEF OpenCreating
<1>2. n \in Node /\ n # Root /\ kind[n] = "free"
  BY FreeNodeIsFree DEF OpenCreating
<1>3. Fill(n, "reg", d, Leaf(path), p, m) /\ Emptied(n) /\ Slotted(n, p, flags)
  BY DEF OpenCreating
<1> HIDE DEF d, n, m
<1>4. \A f \in Opened : files[f].node # n
  BY <1>2 DEF FsInv, OpenOnNodes
<1>5. NodesTyped' /\ BytesTyped' /\ FreeIsClear' /\ NoStaleBytes' /\ NodesKept /\ kind'[n] = "reg" /\ owner'[n] = p
  BY <1>1, <1>2, <1>3, <1>4, FillInv
<1>6. ~HasWriter(n)
  BY <1>4 DEF HasWriter
<1>7. FilesTyped' /\ OpenOnNodes' /\ WritersOwn' /\ Kept
  BY <1>2, <1>3, <1>5, <1>6, SlottedInv
<1> QED
  BY <1>5, <1>7 DEF FsInv, TypeOK

(* The nodes and their bytes are as they were, and so is what is about     *)
(* them.                                                                   *)
LEMMA SameNodes ==
  ASSUME FsInv, UNCHANGED <<tree, contents>>
  PROVE  NodesTyped' /\ BytesTyped' /\ FreeIsClear' /\ NoStaleBytes' /\ NodesKept
<1>1. UNCHANGED <<kind, parent, name, owner, mode, size, data>>
  BY DEF tree, contents
<1> QED
  BY <1>1 DEF FsInv, TypeOK, NodesTyped, BytesTyped, FreeIsClear, NoStaleBytes, NodesKept

(* A read moves the offset, up to the size of the file.                    *)
LEMMA ReadInv ==
  ASSUME FsInv, NEW f \in File, NEW count \in 1 .. Capacity, Read(f, count)
  PROVE  FsInv' /\ Kept
<1> DEFINE n == files[f].node
           left == size[n] - files[f].offset
           o == files[f].offset + (IF count < left THEN count ELSE left)
<1>1. f \in Opened /\ n \in Node
  BY DEF Read, OpenRegular, FsInv, OpenOnNodes
<1>2. files[f] \in [node : Node \cup {None}, flags : SUBSET {"read", "write"},
                    owner : Pids \cup {NoOwner}, offset : 0 .. Capacity, cursor : Nat]
  BY DEF FsInv, TypeOK, FilesTyped
<1>3. size[n] \in 0 .. Capacity /\ files[f].offset \in 0 .. Capacity /\ files[f].offset < size[n]
  BY <1>1, <1>2 DEF FsInv, TypeOK, BytesTyped, Read
<1>4. o \in 0 .. Capacity
  BY <1>3, RuntimeFsAssumption
<1>5. files' = [files EXCEPT ![f] = [files[f] EXCEPT !.offset = o, !.cursor = files[f].cursor]]
  <2>1. files' = [files EXCEPT ![f].offset = o]
    BY DEF Read
  <2> HIDE DEF o
  <2> QED
    BY <1>2, <2>1
<1> HIDE DEF o
<1>6. NodesTyped' /\ BytesTyped' /\ FreeIsClear' /\ NoStaleBytes' /\ NodesKept
  BY SameNodes DEF Read
<1>7. FilesTyped' /\ OpenOnNodes' /\ WritersOwn' /\ Kept
  BY <1>1, <1>2, <1>4, <1>5, <1>6, MovedInv
<1> QED
  BY <1>6, <1>7 DEF FsInv, TypeOK

(* A byte beyond the new size was beyond the old one and is not written.   *)
LEMMA BeyondTheEnd ==
  ASSUME NEW cap \in Nat, NEW old \in 0 .. cap, NEW from \in 0 .. cap, NEW end \in 0 .. cap,
         NEW new \in 0 .. cap, end <= new, old <= new, NEW i \in new .. (cap - 1)
  PROVE  i \in 0 .. (cap - 1) /\ i \in old .. (cap - 1) /\ i \notin from .. (end - 1)
OBVIOUS

(* A write fills the gap below the offset with zeros, and its bytes end at *)
(* or below the new size.                                                  *)
LEMMA WriteInv ==
  ASSUME FsInv, NEW f \in File, NEW count \in 1 .. Capacity, Write(f, count)
  PROVE  FsInv' /\ Kept
<1> DEFINE n == files[f].node
           from == files[f].offset
           end == from + count
           bytes == [i \in DOMAIN data[n] |-> IF i \in from .. (end - 1) THEN 1
                                              ELSE IF i \in size[n] .. (from - 1) THEN 0 ELSE data[n][i]]
           new == IF end > size[n] THEN end ELSE size[n]
<1>1. f \in Opened /\ n \in Node /\ kind[n] = "reg"
  BY DEF Write, OpenRegular, FsInv, OpenOnNodes
<1>2. files[f] \in [node : Node \cup {None}, flags : SUBSET {"read", "write"},
                    owner : Pids \cup {NoOwner}, offset : 0 .. Capacity, cursor : Nat]
  BY DEF FsInv, TypeOK, FilesTyped
<1>3. /\ size \in [Node -> 0 .. Capacity] /\ data \in [Node -> [0 .. (Capacity - 1) -> {0, 1}]]
      /\ size[n] \in 0 .. Capacity /\ from \in 0 .. Capacity
  BY <1>1, <1>2 DEF FsInv, TypeOK, BytesTyped
<1>4. end \in 0 .. Capacity /\ new \in 0 .. Capacity /\ end <= new /\ size[n] <= new
  BY <1>3, RuntimeFsAssumption DEF Write, Fits
<1>5. /\ files' = [files EXCEPT ![f].offset = end]
      /\ data' = [data EXCEPT ![n] = bytes]
      /\ size' = [size EXCEPT ![n] = new]
      /\ UNCHANGED <<kind, parent, name, owner, mode>>
  BY DEF Write, tree
<1>6. bytes \in [0 .. (Capacity - 1) -> {0, 1}]
  BY <1>1, <1>3
<1>7. \A i \in new .. (Capacity - 1) : bytes[i] = 0
  <2> SUFFICES ASSUME NEW i \in new .. (Capacity - 1) PROVE bytes[i] = 0
    OBVIOUS
  <2>1. i \in 0 .. (Capacity - 1) /\ i \in size[n] .. (Capacity - 1) /\ i \notin from .. (end - 1)
    <3> HIDE DEF n, from, end, new
    <3> QED
      BY <1>3, <1>4, RuntimeFsAssumption, BeyondTheEnd
  <2>2. data[n][i] = 0
    BY <1>1, <2>1 DEF FsInv, NoStaleBytes
  <2>3. i \in DOMAIN data[n]
    BY <1>1, <1>3, <2>1
  <2> QED
    BY <2>1, <2>2, <2>3
<1> HIDE DEF bytes, new, end
<1>8. BytesTyped'
  BY <1>1, <1>3, <1>4, <1>5, <1>6 DEF BytesTyped
<1>9. /\ size'[n] = new /\ data'[n] = bytes
      /\ \A o \in Node \ {n} : size'[o] = size[o] /\ data'[o] = data[o]
  BY <1>1, <1>3, <1>5
<1>10. NoStaleBytes'
  BY <1>7, <1>9 DEF FsInv, NoStaleBytes
<1>11. FreeIsClear' /\ NodesTyped' /\ NodesKept
  BY <1>1, <1>5, <1>9 DEF FsInv, TypeOK, NodesTyped, FreeIsClear, NodesKept
<1>12. files' = [files EXCEPT ![f] = [files[f] EXCEPT !.offset = end, !.cursor = files[f].cursor]]
  <2>1. files' = [files EXCEPT ![f].offset = end]
    BY <1>5
  <2> QED
    BY <1>2, <2>1
<1>13. FilesTyped' /\ OpenOnNodes' /\ WritersOwn' /\ Kept
  BY <1>1, <1>2, <1>4, <1>11, <1>12, MovedInv
<1> QED
  BY <1>8, <1>10, <1>11, <1>13 DEF FsInv, TypeOK

(* A seek sets the offset.                                                 *)
LEMMA SeekInv ==
  ASSUME FsInv, NEW f \in File, NEW offset \in 0 .. Capacity, Seek(f, offset)
  PROVE  FsInv' /\ Kept
<1>1. files[f] \in [node : Node \cup {None}, flags : SUBSET {"read", "write"},
                    owner : Pids \cup {NoOwner}, offset : 0 .. Capacity, cursor : Nat]
  BY DEF FsInv, TypeOK, FilesTyped
<1>2. files' = [files EXCEPT ![f] = [files[f] EXCEPT !.offset = offset, !.cursor = files[f].cursor]]
  <2>1. files' = [files EXCEPT ![f].offset = offset]
    BY DEF Seek
  <2> QED
    BY <1>1, <2>1
<1>3. NodesTyped' /\ BytesTyped' /\ FreeIsClear' /\ NoStaleBytes' /\ NodesKept
  BY SameNodes DEF Seek
<1>4. f \in Opened /\ files[f].cursor \in Nat
  BY <1>1 DEF Seek
<1>5. FilesTyped' /\ OpenOnNodes' /\ WritersOwn' /\ Kept
  BY <1>2, <1>3, <1>4, MovedInv
<1> QED
  BY <1>3, <1>5 DEF FsInv, TypeOK

(* Reading a directory moves its cursor.                                   *)
LEMMA ReaddirInv ==
  ASSUME FsInv, NEW f \in File, Readdir(f)
  PROVE  FsInv' /\ Kept
<1> DEFINE S == {n \in Node : n >= files[f].cursor /\ kind[n] # "free" /\ parent[n] = files[f].node}
           entry == Least(S)
<1>1. files[f] \in [node : Node \cup {None}, flags : SUBSET {"read", "write"},
                    owner : Pids \cup {NoOwner}, offset : 0 .. Capacity, cursor : Nat]
  BY DEF FsInv, TypeOK, FilesTyped
<1>2. entry + 1 \in Nat
  <2>1. S \in SUBSET Node
    OBVIOUS
  <2> HIDE DEF S
  <2>2. Least(S) \in Node \cup {None}
    BY <2>1, LeastOf
  <2>3. entry \in Nat
    BY <2>2, NoneIsNoNode
  <2> HIDE DEF entry
  <2> QED
    BY <2>3
<1>3. files' = [files EXCEPT ![f] = [files[f] EXCEPT !.offset = files[f].offset, !.cursor = entry + 1]]
  <2>1. files' = [files EXCEPT ![f].cursor = entry + 1]
    BY DEF Readdir
  <2> HIDE DEF entry
  <2> QED
    BY <1>1, <2>1
<1> HIDE DEF entry
<1>4. NodesTyped' /\ BytesTyped' /\ FreeIsClear' /\ NoStaleBytes' /\ NodesKept
  BY SameNodes DEF Readdir
<1>5. f \in Opened /\ files[f].offset \in 0 .. Capacity
  BY <1>1 DEF Readdir
<1>6. FilesTyped' /\ OpenOnNodes' /\ WritersOwn' /\ Kept
  BY <1>2, <1>3, <1>4, <1>5, MovedInv
<1> QED
  BY <1>4, <1>6 DEF FsInv, TypeOK

(* A closed slot is an open file's no more.                                *)
LEMMA ClosedTyped ==
  Closed \in [node : Node \cup {None}, flags : SUBSET {"read", "write"},
              owner : Pids \cup {NoOwner}, offset : 0 .. Capacity, cursor : Nat]
BY RuntimeFsAssumption DEF Closed

(* Where files are only closed, what is about open files stays.            *)
LEMMA FewerFilesInv ==
  ASSUME FsInv, NodesKept, FilesTyped', \A f \in File : files'[f] \in {files[f], Closed}
  PROVE  OpenOnNodes' /\ WritersOwn' /\ Kept
<1>1. \A f \in Opened' : f \in File /\ f \in Opened /\ files'[f] = files[f]
  BY DEF Opened
<1>2. OpenOnNodes'
  BY <1>1 DEF FsInv, OpenOnNodes, NodesKept
<1>3. WritersOwn'
  BY <1>1 DEF FsInv, WritersOwn, NodesKept, Allows
<1>4. Kept
  BY DEF Kept, NodesKept
<1> QED
  BY <1>2, <1>3, <1>4

(* One file is closed.                                                     *)
LEMMA CloseInv ==
  ASSUME FsInv, NEW f \in File, Close(f)
  PROVE  FsInv' /\ Kept
<1>1. NodesTyped' /\ BytesTyped' /\ FreeIsClear' /\ NoStaleBytes' /\ NodesKept
  BY SameNodes DEF Close
<1>2. FilesTyped' /\ \A g \in File : files'[g] \in {files[g], Closed}
  <2>1. FilesTyped /\ files' = [files EXCEPT ![f] = Closed]
    BY DEF FsInv, TypeOK, Close
  <2> QED
    BY <2>1, ClosedTyped DEF FilesTyped
<1>3. OpenOnNodes' /\ WritersOwn' /\ Kept
  BY <1>1, <1>2, FewerFilesInv
<1> QED
  BY <1>1, <1>2, <1>3 DEF FsInv, TypeOK

-----------------------------------------------------------------------------
(* A checkpoint: what is imported is what was exported.                    *)

(* The place of a node's bytes in the payload is a number, and comes after *)
(* the bytes of the node before it.                                        *)
LEMMA PayloadCursorTyped ==
  ASSUME BytesTyped
  PROVE  /\ PayloadCursor \in [0 .. MaxNodes -> Nat]
         /\ PayloadCursor[0] = 0
         /\ \A n \in 1 .. MaxNodes : PayloadCursor[n] = PayloadCursor[n - 1] + DataSize(n - 1)
<1> DEFINE N == MaxNodes
           F == [x \in (1 .. N) \X Nat |-> x[2] + DataSize(x[1] - 1)]
           at == CHOOSE g : g = [n \in 0 .. MaxNodes |-> IF n = 0 THEN 0 ELSE g[n - 1] + DataSize(n - 1)]
<1>1. N \in Nat
  BY RuntimeFsAssumption
<1>2. \A n \in 1 .. N : DataSize(n - 1) \in Nat
  BY RuntimeFsAssumption DEF DataSize, BytesTyped, Node
<1>3. F \in [(1 .. N) \X Nat -> Nat]
  BY <1>2
<1>4. \E g : g = [n \in 0 .. MaxNodes |-> IF n = 0 THEN 0 ELSE g[n - 1] + DataSize(n - 1)]
  <2>1. PICK g : IsIteration(g, Nat, 0, N, F)
    <3> HIDE DEF N, F, at
    <3> QED
      BY <1>1, <1>3, IterateExists
  <2>2. g \in [0 .. N -> Nat] /\ g[0] = 0 /\ \A n \in 1 .. N : g[n] = F[<<n, g[n - 1]>>]
    <3> HIDE DEF N, F, at
    <3> QED
      BY <2>1 DEF IsIteration
  <2>3. \A n \in 1 .. N : g[n] = g[n - 1] + DataSize(n - 1)
    <3> TAKE n \in 1 .. N
    <3>1. g[n - 1] \in Nat
      BY <1>1, <2>2
    <3>2. F[<<n, g[n - 1]>>] = g[n - 1] + DataSize(n - 1)
      <4> HIDE DEF N
      <4> QED
        BY <3>1
    <3> QED
      BY <2>2, <3>2
  <2>4. \A n \in 0 .. N : n = 0 \/ n \in 1 .. N
    BY <1>1
  <2>5. g = [n \in 0 .. N |-> g[n]]
    BY <2>2
  <2>6. g = [n \in 0 .. MaxNodes |-> IF n = 0 THEN 0 ELSE g[n - 1] + DataSize(n - 1)]
    BY <2>2, <2>3, <2>4, <2>5
  <2> QED
    BY <2>6
<1>5. at = [n \in 0 .. MaxNodes |-> IF n = 0 THEN 0 ELSE at[n - 1] + DataSize(n - 1)]
  BY <1>4
<1>6. PayloadCursor = at
  BY DEF PayloadCursor
<1> HIDE DEF at
<1>7. at = [n \in 0 .. N |-> at[n]] /\ at[0] = 0
  BY <1>1, <1>5
<1>8. ASSUME NEW n \in 1 .. N
      PROVE  at[n] = at[n - 1] + DataSize(n - 1)
  <2>1. n \in 0 .. MaxNodes /\ n # 0
    BY <1>1
  <2> QED
    BY <1>5, <2>1
<1>9. at \in [0 .. N -> Nat]
  <2>1. \A n \in 1 .. N : at[n - 1] \in Nat => at[n] \in Nat
    BY <1>2, <1>8
  <2>2. at[0] \in Nat
    BY <1>7
  <2> HIDE DEF N
  <2> QED
    BY <1>1, <1>7, <2>1, <2>2, IterateTyped
<1> QED
  BY <1>6, <1>7, <1>8, <1>9

(* The lists of the used nodes, one table entry after the other.           *)
LEMMA NodesBelowTyped ==
  /\ NodesBelow \in [0 .. MaxNodes -> Seq(Node)]
  /\ NodesBelow[0] = <<>>
  /\ \A n \in 1 .. MaxNodes :
       NodesBelow[n] = IF kind[n - 1] = "free" THEN NodesBelow[n - 1]
                       ELSE Append(NodesBelow[n - 1], n - 1)
<1> DEFINE N == MaxNodes
           S == Seq(Node)
           F == [x \in (1 .. N) \X S |->
                  IF kind[x[1] - 1] = "free" THEN x[2] ELSE Append(x[2], x[1] - 1)]
           below == CHOOSE g : g = [n \in 0 .. MaxNodes |->
             IF n = 0 THEN <<>>
             ELSE IF kind[n - 1] = "free" THEN g[n - 1] ELSE Append(g[n - 1], n - 1)]
<1>0. <<>> \in S
  OBVIOUS
<1>1. N \in Nat
  BY RuntimeFsAssumption
<1>2. \A n \in 1 .. N : n - 1 \in Node
  BY RuntimeFsAssumption DEF Node
<1>3. F \in [(1 .. N) \X S -> S]
  <2>1. ASSUME NEW n \in 1 .. N, NEW s \in S
        PROVE  (IF kind[n - 1] = "free" THEN s ELSE Append(s, n - 1)) \in S
    BY <1>2
  <2> QED
    BY <2>1
<1>4. \E g : g = [n \in 0 .. MaxNodes |->
             IF n = 0 THEN <<>>
             ELSE IF kind[n - 1] = "free" THEN g[n - 1] ELSE Append(g[n - 1], n - 1)]
  <2>1. PICK g : IsIteration(g, S, <<>>, N, F)
    <3> HIDE DEF S, N, F, below
    <3> QED
      BY <1>0, <1>1, <1>3, IterateExists
  <2>2. g \in [0 .. N -> S] /\ g[0] = <<>> /\ \A n \in 1 .. N : g[n] = F[<<n, g[n - 1]>>]
    <3> HIDE DEF S, N, F, below
    <3> QED
      BY <2>1 DEF IsIteration
  <2>3. \A n \in 1 .. N : g[n] = IF kind[n - 1] = "free" THEN g[n - 1] ELSE Append(g[n - 1], n - 1)
    <3> TAKE n \in 1 .. N
    <3>1. n - 1 \in 0 .. N
      BY <1>1
    <3>2. g[n - 1] \in S
      <4> HIDE DEF S, N
      <4> QED
        BY <2>2, <3>1
    <3>3. F[<<n, g[n - 1]>>] = IF kind[n - 1] = "free" THEN g[n - 1] ELSE Append(g[n - 1], n - 1)
      <4> HIDE DEF S, N
      <4> QED
        BY <3>2
    <3> QED
      BY <2>2, <3>3
  <2>4. \A n \in 0 .. N : n = 0 \/ n \in 1 .. N
    BY <1>1
  <2>5. g = [n \in 0 .. N |-> g[n]]
    BY <2>2
  <2>6. g = [n \in 0 .. MaxNodes |->
             IF n = 0 THEN <<>>
             ELSE IF kind[n - 1] = "free" THEN g[n - 1] ELSE Append(g[n - 1], n - 1)]
    BY <2>2, <2>3, <2>4, <2>5
  <2> QED
    BY <2>6
<1>5. below = [n \in 0 .. MaxNodes |->
         IF n = 0 THEN <<>>
         ELSE IF kind[n - 1] = "free" THEN below[n - 1] ELSE Append(below[n - 1], n - 1)]
  BY <1>4
<1>6. NodesBelow = below
  BY DEF NodesBelow
<1> HIDE DEF below
<1>7. below = [n \in 0 .. N |-> below[n]] /\ below[0] = <<>>
  BY <1>1, <1>5
<1>8. ASSUME NEW n \in 1 .. N
      PROVE  below[n] = IF kind[n - 1] = "free" THEN below[n - 1] ELSE Append(below[n - 1], n - 1)
  <2>1. n \in 0 .. MaxNodes /\ n # 0
    BY <1>1
  <2>2. below[n] = [m \in 0 .. MaxNodes |->
           IF m = 0 THEN <<>>
           ELSE IF kind[m - 1] = "free" THEN below[m - 1] ELSE Append(below[m - 1], m - 1)][n]
    BY <1>5
  <2> QED
    BY <2>1, <2>2
<1>9. below \in [0 .. N -> S]
  <2>1. \A n \in 1 .. N : below[n - 1] \in S => below[n] \in S
    <3> TAKE n \in 1 .. N
    <3> HAVE below[n - 1] \in S
    <3>1. n - 1 \in Node
      BY <1>2
    <3>2. below[n] = IF kind[n - 1] = "free" THEN below[n - 1] ELSE Append(below[n - 1], n - 1)
      BY <1>8
    <3> QED
      BY <3>1, <3>2
  <2>2. below[0] \in S
    BY <1>0, <1>7
  <2>3. below = [n \in 0 .. N |-> below[n]]
    BY <1>7
  <2> HIDE DEF S, N, F
  <2> QED
    BY <1>1, <2>1, <2>2, <2>3, IterateTyped
<1> QED
  BY <1>6, <1>7, <1>8, <1>9

(* The list has the used nodes and no others, in their order, and the      *)
(* bytes of each follow those of the one before it.                        *)
ListFacts(n, s, c) ==
  /\ \A j \in 1 .. Len(s) : s[j] \in 0 .. (n - 1) /\ kind[s[j]] # "free"
  /\ \A j \in 1 .. Len(s) : \A i \in 1 .. (j - 1) : s[i] < s[j]
  /\ \A m \in 0 .. (n - 1) : kind[m] # "free" => \E j \in 1 .. Len(s) : s[j] = m
  /\ Len(s) = 0 => c[n] = 0
  /\ Len(s) > 0 => c[s[1]] = 0 /\ c[n] = c[s[Len(s)]] + DataSize(s[Len(s)])
  /\ \A j \in 1 .. (Len(s) - 1) : c[s[j + 1]] = c[s[j]] + DataSize(s[j])

(* One more node of the table.                                             *)
LEMMA ListGrows ==
  ASSUME NEW n \in Nat, n + 1 <= MaxNodes, NEW s \in Seq(Node), NEW t,
         NEW c \in [0 .. MaxNodes -> Nat], c[n + 1] = c[n] + DataSize(n), ListFacts(n, s, c),
         t = IF kind[n] = "free" THEN s ELSE Append(s, n)
  PROVE  ListFacts(n + 1, t, c)
<1>1. /\ \A j \in 1 .. Len(s) : s[j] \in 0 .. (n - 1) /\ kind[s[j]] # "free"
      /\ \A j \in 1 .. Len(s) : \A i \in 1 .. (j - 1) : s[i] < s[j]
      /\ \A m \in 0 .. (n - 1) : kind[m] # "free" => \E j \in 1 .. Len(s) : s[j] = m
      /\ Len(s) = 0 => c[n] = 0
      /\ Len(s) > 0 => c[s[1]] = 0 /\ c[n] = c[s[Len(s)]] + DataSize(s[Len(s)])
      /\ \A j \in 1 .. (Len(s) - 1) : c[s[j + 1]] = c[s[j]] + DataSize(s[j])
  BY DEF ListFacts
<1>2. n \in Node /\ n \in 0 .. MaxNodes /\ c[n] \in Nat /\ Len(s) \in Nat
  BY RuntimeFsAssumption DEF Node
<1>3. CASE kind[n] = "free"
  <2>1. DataSize(n) = 0 /\ t = s
    BY <1>3 DEF DataSize
  <2>2. c[n + 1] = c[n]
    BY <1>2, <2>1
  <2> QED
    BY <1>1, <1>2, <1>3, <2>1, <2>2 DEF ListFacts
<1>4. CASE kind[n] # "free"
  <2> DEFINE l == Len(s)
  <2>1. /\ l \in Nat /\ Len(t) = l + 1
        /\ t[l + 1] = n /\ \A j \in 1 .. l : t[j] = s[j]
    BY <1>2, <1>4
  <2> HIDE DEF l
  <2>2. \A j \in 1 .. (l + 1) : j = l + 1 \/ j \in 1 .. l
    BY <2>1
  <2>3. \A j \in 1 .. Len(t) : t[j] \in 0 .. n /\ kind[t[j]] # "free"
    BY <1>1, <1>2, <1>4, <2>1, <2>2 DEF l
  <2>4. \A j \in 1 .. Len(t) : \A i \in 1 .. (j - 1) : t[i] < t[j]
    <3> TAKE j \in 1 .. Len(t)
    <3> TAKE i \in 1 .. (j - 1)
    <3>1. i \in 1 .. l /\ t[i] = s[i]
      BY <2>1
    <3>2. CASE j = l + 1
      BY <1>1, <2>1, <3>1, <3>2 DEF l
    <3>3. CASE j # l + 1
      <4>1. j \in 1 .. l
        BY <2>1, <3>3
      <4> QED
        BY <1>1, <2>1, <3>1, <4>1 DEF l
    <3> QED
      BY <3>2, <3>3
  <2>5. \A m \in 0 .. n : kind[m] # "free" => \E j \in 1 .. Len(t) : t[j] = m
    <3> TAKE m \in 0 .. n
    <3> HAVE kind[m] # "free"
    <3>1. CASE m = n
      BY <2>1, <3>1
    <3>2. CASE m # n
      <4>1. PICK j \in 1 .. l : s[j] = m
        BY <1>1, <3>2 DEF l
      <4> QED
        BY <2>1, <4>1
    <3> QED
      BY <3>1, <3>2
  <2>6. c[t[1]] = 0
    <3>1. CASE l = 0
      BY <1>1, <2>1, <3>1 DEF l
    <3>2. CASE l # 0
      BY <1>1, <2>1, <3>2 DEF l
    <3> QED
      BY <3>1, <3>2
  <2>7. \A j \in 1 .. l : c[t[j + 1]] = c[t[j]] + DataSize(t[j])
    <3> TAKE j \in 1 .. l
    <3>1. CASE j = l
      <4>1. l > 0 /\ t[j + 1] = n /\ t[j] = s[l]
        BY <2>1, <3>1
      <4> QED
        BY <1>1, <4>1 DEF l
    <3>2. CASE j # l
      <4>1. j \in 1 .. (l - 1) /\ j + 1 \in 1 .. l
        BY <2>1, <3>2
      <4> QED
        BY <1>1, <2>1, <4>1 DEF l
    <3> QED
      BY <3>1, <3>2
  <2>8. /\ Len(t) # 0 /\ Len(t) > 0 /\ (n + 1) - 1 = n /\ Len(t) - 1 = l
        /\ c[n + 1] = c[t[Len(t)]] + DataSize(t[Len(t)])
    BY <2>1
  <2> QED
    BY <2>3, <2>4, <2>5, <2>6, <2>7, <2>8 DEF ListFacts
<1> QED
  BY <1>3, <1>4

(* All of the table.                                                       *)
LEMMA NodesBelowComplete ==
  ASSUME BytesTyped
  PROVE  /\ NodesBelow[MaxNodes] \in Seq(Node)
         /\ ListFacts(MaxNodes, NodesBelow[MaxNodes], PayloadCursor)
<1>1. /\ NodesBelow \in [0 .. MaxNodes -> Seq(Node)]
      /\ NodesBelow[0] = <<>>
      /\ \A n \in 1 .. MaxNodes :
           NodesBelow[n] = IF kind[n - 1] = "free" THEN NodesBelow[n - 1]
                           ELSE Append(NodesBelow[n - 1], n - 1)
  BY NodesBelowTyped
<1>2. /\ PayloadCursor \in [0 .. MaxNodes -> Nat]
      /\ PayloadCursor[0] = 0
      /\ \A n \in 1 .. MaxNodes : PayloadCursor[n] = PayloadCursor[n - 1] + DataSize(n - 1)
  BY PayloadCursorTyped
<1>3. MaxNodes \in Nat
  BY RuntimeFsAssumption
<1> DEFINE D == {n \in Nat : n <= MaxNodes => ListFacts(n, NodesBelow[n], PayloadCursor)}
<1>4. 0 \in D
  <2>1. ListFacts(0, <<>>, PayloadCursor)
    BY <1>2 DEF ListFacts
  <2> QED
    BY <1>1, <2>1
<1>5. ASSUME NEW n \in Nat, n \in D PROVE n + 1 \in D
  <2>1. SUFFICES ASSUME n + 1 <= MaxNodes
                 PROVE  ListFacts(n + 1, NodesBelow[n + 1], PayloadCursor)
    OBVIOUS
  <2>2. n \in 0 .. MaxNodes /\ n + 1 \in 1 .. MaxNodes /\ (n + 1) - 1 = n /\ n <= MaxNodes
    BY <1>3, <2>1
  <2>3. /\ NodesBelow[n] \in Seq(Node)
        /\ NodesBelow[n + 1] = IF kind[n] = "free" THEN NodesBelow[n] ELSE Append(NodesBelow[n], n)
        /\ PayloadCursor[n + 1] = PayloadCursor[n] + DataSize(n)
        /\ ListFacts(n, NodesBelow[n], PayloadCursor)
    BY <1>1, <1>2, <1>5, <2>2
  <2> QED
    BY <1>2, <2>1, <2>3, ListGrows
<1>6. Nat \subseteq D
  <2> HIDE DEF D
  <2> QED
    BY <1>4, <1>5, NatSetInduction
<1> QED
  BY <1>1, <1>3, <1>6

(* The bytes of a node in the payload.                                     *)
LEMMA BytesOf ==
  ASSUME BytesTyped, NEW n \in Node
  PROVE  /\ DataSize(n) \in Nat /\ DataSize(n) <= Capacity
         /\ Bytes(n) \in Seq({0, 1}) /\ Len(Bytes(n)) = DataSize(n)
         /\ \A i \in 1 .. DataSize(n) : Bytes(n)[i] = data[n][i - 1]
<1>1. DataSize(n) \in Nat /\ DataSize(n) <= Capacity
  BY RuntimeFsAssumption DEF BytesTyped, DataSize
<1>2. \A i \in 1 .. DataSize(n) : i - 1 \in 0 .. (Capacity - 1) /\ data[n][i - 1] \in {0, 1}
  BY <1>1, RuntimeFsAssumption DEF BytesTyped
<1> DEFINE b == DataSize(n)
<1>3. Bytes(n) = [i \in 1 .. b |-> data[n][i - 1]]
  BY DEF Bytes
<1> HIDE DEF b
<1>4. Bytes(n) \in [1 .. b -> {0, 1}] /\ b \in Nat
  BY <1>1, <1>2, <1>3 DEF b
<1>5. Bytes(n) \in Seq({0, 1}) /\ Len(Bytes(n)) = b
  BY <1>4
<1> QED
  BY <1>1, <1>3, <1>5 DEF b

(* The payload after k records of the list.                                *)
PayloadAfter(list) ==
  CHOOSE g : g = [k \in 0 .. Len(list) |->
                    IF k = 0 THEN <<>> ELSE g[k - 1] \o Bytes(list[k])]

(* It is a sequence of bytes, one file after the other.                    *)
LEMMA PayloadTyped ==
  ASSUME BytesTyped, NEW list \in Seq(Node)
  PROVE  /\ PayloadAfter(list) \in [0 .. Len(list) -> Seq({0, 1})]
         /\ PayloadAfter(list)[0] = <<>>
         /\ \A k \in 1 .. Len(list) :
              PayloadAfter(list)[k] = PayloadAfter(list)[k - 1] \o Bytes(list[k])
<1> DEFINE N == Len(list)
           S == Seq({0, 1})
           F == [x \in (1 .. N) \X S |-> x[2] \o Bytes(list[x[1]])]
           at == PayloadAfter(list)
<1>1. N \in Nat /\ \A k \in 1 .. N : list[k] \in Node
  OBVIOUS
<1>2. <<>> \in S
  OBVIOUS
<1>3. \A k \in 1 .. N : Bytes(list[k]) \in S
  BY <1>1, BytesOf
<1>4. F \in [(1 .. N) \X S -> S]
  <2>1. ASSUME NEW k \in 1 .. N, NEW s \in S PROVE s \o Bytes(list[k]) \in S
    BY <1>3
  <2> HIDE DEF S, N
  <2> QED
    BY <2>1
<1>5. \E g : g = [k \in 0 .. Len(list) |-> IF k = 0 THEN <<>> ELSE g[k - 1] \o Bytes(list[k])]
  <2>1. PICK g : IsIteration(g, S, <<>>, N, F)
    <3> HIDE DEF S, N, F, at
    <3> QED
      BY <1>1, <1>2, <1>4, IterateExists
  <2>2. g \in [0 .. N -> S] /\ g[0] = <<>> /\ \A k \in 1 .. N : g[k] = F[<<k, g[k - 1]>>]
    <3> HIDE DEF S, N, F, at
    <3> QED
      BY <2>1 DEF IsIteration
  <2>3. \A k \in 1 .. N : g[k] = g[k - 1] \o Bytes(list[k])
    <3> TAKE k \in 1 .. N
    <3>1. k - 1 \in 0 .. N
      BY <1>1
    <3>2. g[k - 1] \in S
      <4> HIDE DEF S, N
      <4> QED
        BY <2>2, <3>1
    <3>3. F[<<k, g[k - 1]>>] = g[k - 1] \o Bytes(list[k])
      <4> HIDE DEF S, N
      <4> QED
        BY <3>2
    <3> QED
      BY <2>2, <3>3
  <2>4. \A k \in 0 .. N : k = 0 \/ k \in 1 .. N
    BY <1>1
  <2>5. g = [k \in 0 .. N |-> g[k]]
    BY <2>2
  <2>6. g = [k \in 0 .. Len(list) |-> IF k = 0 THEN <<>> ELSE g[k - 1] \o Bytes(list[k])]
    BY <2>2, <2>3, <2>4, <2>5
  <2> QED
    BY <2>6
<1>6. at = [k \in 0 .. Len(list) |-> IF k = 0 THEN <<>> ELSE at[k - 1] \o Bytes(list[k])]
  BY <1>5 DEF PayloadAfter
<1> HIDE DEF at
<1>7. at = [k \in 0 .. N |-> at[k]] /\ at[0] = <<>>
  BY <1>1, <1>6
<1>8. ASSUME NEW k \in 1 .. N
      PROVE  at[k] = at[k - 1] \o Bytes(list[k])
  <2>1. k \in 0 .. Len(list) /\ k # 0
    BY <1>1
  <2>2. at[k] = [j \in 0 .. Len(list) |-> IF j = 0 THEN <<>> ELSE at[j - 1] \o Bytes(list[j])][k]
    BY <1>6
  <2> QED
    BY <2>1, <2>2
<1>9. at \in [0 .. N -> S]
  <2>1. \A k \in 1 .. N : at[k - 1] \in S => at[k] \in S
    <3> TAKE k \in 1 .. N
    <3> HAVE at[k - 1] \in S
    <3>1. at[k] = at[k - 1] \o Bytes(list[k]) /\ Bytes(list[k]) \in S
      BY <1>3, <1>8
    <3> QED
      BY <3>1
  <2>2. at[0] \in S
    BY <1>2, <1>7
  <2> HIDE DEF S, N
  <2> QED
    BY <1>1, <1>7, <2>1, <2>2, IterateTyped
<1> QED
  BY <1>7, <1>8, <1>9 DEF at

(* What the payload u has after k records of the list: the bytes of each   *)
(* of their nodes, where the cursor says, and nothing else.                *)
PayloadFacts(list, c, k, u) ==
  /\ Len(u) = IF k = Len(list) THEN c[MaxNodes] ELSE c[list[k + 1]]
  /\ \A j \in 1 .. k : c[list[j]] + DataSize(list[j]) <= Len(u)
  /\ \A j \in 1 .. k : \A i \in 1 .. DataSize(list[j]) :
       c[list[j]] + i \in 1 .. Len(u) /\ u[c[list[j]] + i] = Bytes(list[j])[i]
  /\ \A x \in 1 .. Len(u) : \E j \in 1 .. k : \E i \in 1 .. DataSize(list[j]) : x = c[list[j]] + i

(* One more record.                                                        *)
LEMMA PayloadGrows ==
  ASSUME BytesTyped, NEW list \in Seq(Node), NEW c \in [0 .. MaxNodes -> Nat],
         ListFacts(MaxNodes, list, c), NEW k \in 0 .. (Len(list) - 1),
         NEW u \in Seq({0, 1}), NEW v, v = u \o Bytes(list[k + 1]), PayloadFacts(list, c, k, u)
  PROVE  PayloadFacts(list, c, k + 1, v)
<1> DEFINE n == list[k + 1]
           b == Bytes(n)
<1>1. Len(list) \in Nat /\ k + 1 \in 1 .. Len(list) /\ k # Len(list) /\ \A j \in 1 .. Len(list) : list[j] \in Node
  OBVIOUS
<1>2. n \in Node /\ n \in 0 .. MaxNodes /\ c[n] \in Nat
  BY <1>1, RuntimeFsAssumption DEF Node
<1>3. /\ DataSize(n) \in Nat
      /\ b \in Seq({0, 1}) /\ Len(b) = DataSize(n)
  BY <1>2, BytesOf
<1>4. Len(u) = c[n]
  BY <1>1 DEF PayloadFacts
<1>5. IF k + 1 = Len(list) THEN c[MaxNodes] = c[n] + DataSize(n)
      ELSE c[list[(k + 1) + 1]] = c[n] + DataSize(n)
  <2>1. CASE k + 1 = Len(list)
    BY <1>1, <2>1 DEF ListFacts
  <2>2. CASE k + 1 # Len(list)
    <3>1. k + 1 \in 1 .. (Len(list) - 1)
      BY <1>1, <2>2
    <3> QED
      BY <2>2, <3>1 DEF ListFacts
  <2> QED
    BY <2>1, <2>2
<1> HIDE DEF n, b
<1>6. v = u \o b
  BY DEF b, n
<1>7. /\ Len(v) = Len(u) + Len(b)
      /\ \A x \in 1 .. Len(u) : v[x] = u[x]
      /\ \A i \in 1 .. Len(b) : v[Len(u) + i] = b[i]
      /\ Len(u) \in Nat /\ Len(b) \in Nat
  BY <1>3, <1>6
<1>8. \A j \in 1 .. (k + 1) : j = k + 1 \/ j \in 1 .. k
  OBVIOUS
<1>9. ASSUME NEW j \in 1 .. (k + 1), NEW i \in 1 .. DataSize(list[j])
      PROVE  c[list[j]] + i \in 1 .. Len(v) /\ v[c[list[j]] + i] = Bytes(list[j])[i]
  <2>1. CASE j = k + 1
    <3>1. list[j] = n /\ Bytes(list[j]) = b /\ i \in 1 .. Len(b)
      BY <1>3, <2>1 DEF n, b
    <3> QED
      BY <1>2, <1>4, <1>7, <3>1
  <2>2. CASE j \in 1 .. k
    <3>1. c[list[j]] + i \in 1 .. Len(u) /\ u[c[list[j]] + i] = Bytes(list[j])[i]
      BY <2>2 DEF PayloadFacts
    <3> QED
      BY <1>7, <3>1
  <2> QED
    BY <1>8, <2>1, <2>2
<1>10. ASSUME NEW x \in 1 .. Len(v)
       PROVE  \E j \in 1 .. (k + 1) : \E i \in 1 .. DataSize(list[j]) : x = c[list[j]] + i
  <2>1. CASE x <= Len(u)
    <3>1. x \in 1 .. Len(u)
      BY <1>7, <2>1
    <3>2. PICK j \in 1 .. k : \E i \in 1 .. DataSize(list[j]) : x = c[list[j]] + i
      BY <3>1 DEF PayloadFacts
    <3>3. j \in 1 .. (k + 1)
      OBVIOUS
    <3> QED
      BY <3>2, <3>3
  <2>2. CASE x > Len(u)
    <3>1. x - Len(u) \in 1 .. DataSize(n) /\ x = c[n] + (x - Len(u))
      BY <1>2, <1>3, <1>4, <1>7, <2>2
    <3>2. k + 1 \in 1 .. (k + 1)
      OBVIOUS
    <3> QED
      BY <3>1, <3>2 DEF n
  <2>3. x <= Len(u) \/ x > Len(u)
    BY <1>7
  <2> QED
    BY <2>1, <2>2, <2>3
<1>11. Len(v) = IF k + 1 = Len(list) THEN c[MaxNodes] ELSE c[list[(k + 1) + 1]]
  BY <1>3, <1>4, <1>5, <1>7
<1>12. ASSUME NEW j \in 1 .. (k + 1)
       PROVE  c[list[j]] + DataSize(list[j]) <= Len(v)
  <2>1. CASE j = k + 1
    BY <1>3, <1>4, <1>7, <2>1 DEF n
  <2>2. CASE j \in 1 .. k
    <3>1. c[list[j]] + DataSize(list[j]) <= Len(u)
      BY <2>2 DEF PayloadFacts
    <3>2. list[j] \in Node /\ list[j] \in 0 .. MaxNodes
      <4>1. j \in 1 .. Len(list)
        BY <1>1, <2>2
      <4>2. list[j] \in Node
        BY <1>1, <4>1
      <4>3. \A m \in Node : m \in 0 .. MaxNodes
        BY RuntimeFsAssumption DEF Node
      <4> QED
        BY <4>2, <4>3
    <3>3. c[list[j]] \in Nat /\ DataSize(list[j]) \in Nat
      BY <3>2, BytesOf
    <3> QED
      BY <1>7, <3>1, <3>3
  <2> QED
    BY <1>8, <2>1, <2>2
<1> QED
  BY <1>9, <1>10, <1>11, <1>12 DEF PayloadFacts

(* All of the records.                                                     *)
LEMMA PayloadComplete ==
  ASSUME BytesTyped, NEW list \in Seq(Node), NEW c \in [0 .. MaxNodes -> Nat],
         ListFacts(MaxNodes, list, c)
  PROVE  \A k \in 0 .. Len(list) : PayloadFacts(list, c, k, PayloadAfter(list)[k])
<1> DEFINE N == Len(list)
           at == PayloadAfter(list)
           D == {k \in Nat : k <= N => PayloadFacts(list, c, k, at[k])}
<1>1. N \in Nat
  OBVIOUS
<1>2. /\ at \in [0 .. N -> Seq({0, 1})] /\ at[0] = <<>>
      /\ \A k \in 1 .. N : at[k] = at[k - 1] \o Bytes(list[k])
  BY PayloadTyped
<1> HIDE DEF at
<1>3. 0 \in D
  <2>1. PayloadFacts(list, c, 0, <<>>)
    <3>1. (IF 0 = Len(list) THEN c[MaxNodes] ELSE c[list[0 + 1]]) = 0
      BY <1>1 DEF ListFacts
    <3> QED
      BY <3>1 DEF PayloadFacts
  <2> QED
    BY <1>2, <2>1
<1>4. ASSUME NEW k \in Nat, k \in D PROVE k + 1 \in D
  <2>1. SUFFICES ASSUME k + 1 <= N PROVE PayloadFacts(list, c, k + 1, at[k + 1])
    OBVIOUS
  <2>2. k \in 0 .. (N - 1) /\ k \in 0 .. N /\ k + 1 \in 1 .. N /\ (k + 1) - 1 = k /\ k <= N
    BY <1>1, <2>1
  <2>3. at[k] \in Seq({0, 1}) /\ at[k + 1] = at[k] \o Bytes(list[k + 1])
    BY <1>2, <2>2
  <2>4. PayloadFacts(list, c, k, at[k])
    BY <1>4, <2>2
  <2>5. k \in 0 .. (Len(list) - 1)
    BY <2>2
  <2> QED
    BY <2>3, <2>4, <2>5, PayloadGrows
<1>5. Nat \subseteq D
  <2> HIDE DEF D
  <2> QED
    BY <1>3, <1>4, NatSetInduction
<1>6. \A k \in 0 .. N : PayloadFacts(list, c, k, at[k])
  BY <1>1, <1>5
<1> QED
  BY <1>6 DEF at

(* The fields of the record of a node.                                     *)
LEMMA RecordFields ==
  ASSUME NEW n
  PROVE  /\ RecordOf(n).node = n /\ RecordOf(n).type = kind[n] /\ RecordOf(n).parent = parent[n]
         /\ RecordOf(n).owner = owner[n] /\ RecordOf(n).mode = mode[n] /\ RecordOf(n).size = size[n]
         /\ RecordOf(n).offset = OffsetOf(n) /\ RecordOf(n).bytes = DataSize(n)
         /\ RecordOf(n).dataHash = Bytes(n)
         /\ RecordOf(n).name = Ended(name[n]) /\ RecordOf(n).name.text = name[n]
         /\ RecordOf(n).objectHash = ObjectHash(RecordOf(n))
BY DEF RecordOf, ObjectHash, Ended

(* The records of an export are those of the used nodes.                   *)
LEMMA ExportRecords ==
  Export.records = [k \in DOMAIN NodesBelow[MaxNodes] |-> RecordOf(NodesBelow[MaxNodes][k])]
BY DEF Export, Sealed

(* What the validation of an export says of the records.                   *)
LEMMA ExportValid ==
  ASSUME Validate(Export, Export.header.bytes), NEW k \in DOMAIN Export.records
  PROVE  /\ Export.records[k].type \in {"dir", "reg"}
         /\ Export.records[k].dataHash
              = SubSeq(Export.payload, Export.records[k].offset + 1,
                       Export.records[k].offset + Export.records[k].bytes)
<1>1. RecordOk(Export, k)
  BY DEF Validate
<1> QED
  BY <1>1 DEF RecordOk

(* The import of an export that validates is the file system again, every  *)
(* node with its name, owner and mode, and its bytes.                      *)
LEMMA ImportRestores ==
  ASSUME FsInv, kind[Root] = "dir", Validate(Export, Export.header.bytes)
  PROVE  Imported(Export) = Columns
<1> DEFINE list == NodesBelow[MaxNodes]
           records == Export.records
           P == Export.payload
           in(n) == \E k \in DOMAIN records : records[k].node = n
           of(n) == records[CHOOSE k \in DOMAIN records : records[k].node = n]
           t == Imported(Export)
<1>0. NodesTyped /\ BytesTyped /\ FreeIsClear /\ NoStaleBytes
  BY DEF FsInv, TypeOK
<1>1. /\ records = [k \in DOMAIN list |-> RecordOf(list[k])]
      /\ list \in Seq(Node)
      /\ \A n \in Node : kind[n] # "free" => \E k \in DOMAIN list : list[k] = n
  <2>1. /\ \A n \in Node : kind[n] # "free" => \E k \in 1 .. Len(list) : list[k] = n
        /\ list \in Seq(Node)
    BY <1>0, NodesBelowComplete DEF ListFacts, Node
  <2> QED
    BY <2>1, ExportRecords
<1>2. /\ DOMAIN records = DOMAIN list
      /\ \A k \in DOMAIN list : records[k] = RecordOf(list[k]) /\ records[k].node = list[k]
  BY <1>1, RecordFields
<1>3. \A k \in DOMAIN list : kind[list[k]] # "free"
  <2> TAKE k \in DOMAIN list
  <2>1. records[k].type \in {"dir", "reg"}
    BY <1>2, ExportValid
  <2> QED
    BY <1>2, <2>1, RecordFields
<1>4. ASSUME NEW n \in Node
      PROVE  in(n) <=> kind[n] # "free"
  <2> HIDE DEF list, records
  <2>1. ASSUME in(n) PROVE kind[n] # "free"
    BY <1>2, <1>3, <2>1
  <2>2. ASSUME kind[n] # "free" PROVE in(n)
    <3>1. PICK k \in DOMAIN list : list[k] = n
      BY <1>1, <2>2
    <3>2. k \in DOMAIN records /\ records[k].node = n
      BY <1>2, <3>1
    <3> QED
      BY <3>2
  <2> QED
    BY <2>1, <2>2
<1>5. ASSUME NEW n \in Node, in(n)
      PROVE  /\ of(n) = RecordOf(n)
             /\ \E k \in DOMAIN records : records[k] = RecordOf(n)
  <2> DEFINE c == CHOOSE k \in DOMAIN records : records[k].node = n
  <2>1. c \in DOMAIN records /\ records[c].node = n
    BY <1>5
  <2> HIDE DEF c, list
  <2>2. records[c] = RecordOf(n)
    BY <1>2, <2>1
  <2> QED
    BY <2>1, <2>2 DEF c
<1>6. ASSUME NEW n \in Node, in(n), NEW i \in 0 .. (Capacity - 1), i < DataSize(n)
      PROVE  P[OffsetOf(n) + i + 1] = data[n][i]
  <2>1. PICK k \in DOMAIN records : records[k] = RecordOf(n)
    BY <1>5, <1>6
  <2> DEFINE o == OffsetOf(n)
             b == DataSize(n)
  <2>2. Bytes(n) = SubSeq(P, o + 1, o + b)
    BY <2>1, ExportValid, RecordFields
  <2>3. b \in Nat
    BY <1>0 DEF BytesTyped, DataSize
  <2>4. o \in Nat
    <3>1. n \in 0 .. MaxNodes
      BY RuntimeFsAssumption DEF Node
    <3> QED
      BY <1>0, <3>1, PayloadCursorTyped DEF OffsetOf
  <2>5. Bytes(n)[i + 1] = data[n][i]
    BY <1>6, <2>3 DEF Bytes
  <2> HIDE DEF o, b, P
  <2>6. i \in 0 .. (b - 1)
    BY <1>6, <2>3, RuntimeFsAssumption DEF b
  <2>7. SubSeq(P, o + 1, o + b)[i + 1] = P[o + i + 1]
    BY <2>3, <2>4, <2>6
  <2> QED
    BY <2>2, <2>5, <2>7 DEF o
<1>7. ASSUME NEW n \in Node, NEW i \in 0 .. (Capacity - 1), i >= DataSize(n)
      PROVE  data[n][i] = 0
  <2>1. size[n] \in Nat /\ (kind[n] # "reg" => size[n] = 0)
    BY <1>0 DEF BytesTyped, FreeIsClear
  <2>2. i \in size[n] .. (Capacity - 1)
    BY <1>7, <2>1, RuntimeFsAssumption DEF DataSize
  <2> QED
    BY <1>0, <2>2 DEF NoStaleBytes
<1>8. /\ t.kind = [n \in Node |-> IF in(n) THEN of(n).type ELSE "free"]
      /\ t.parent = [n \in Node |-> IF in(n) THEN of(n).parent ELSE Root]
      /\ t.name = [n \in Node |-> IF in(n) THEN of(n).name.text ELSE Empty]
      /\ t.owner = [n \in Node |-> IF in(n) THEN of(n).owner ELSE NoOwner]
      /\ t.mode = [n \in Node |-> IF in(n) THEN of(n).mode ELSE {}]
      /\ t.size = [n \in Node |-> IF in(n) THEN of(n).size ELSE 0]
      /\ t.data = [n \in Node |-> [i \in 0 .. (Capacity - 1) |->
                    IF in(n) THEN IF i < of(n).bytes THEN P[of(n).offset + i + 1] ELSE 0 ELSE 0]]
  BY DEF Imported
<1> HIDE DEF in, of, P, records, list, t
<1>9. kind[Root] = "dir"
  OBVIOUS
<1>10. \A n \in Node : in(n) => /\ of(n).type = kind[n] /\ of(n).parent = parent[n] /\ of(n).name.text = name[n]
                                /\ of(n).owner = owner[n] /\ of(n).mode = mode[n] /\ of(n).size = size[n]
                                /\ of(n).offset = OffsetOf(n) /\ of(n).bytes = DataSize(n)
  BY <1>5, RecordFields
<1>11. \A n \in Node : ~in(n) => /\ kind[n] = "free" /\ parent[n] = Root /\ name[n] = Empty
                                 /\ owner[n] = NoOwner /\ mode[n] = {} /\ size[n] = 0 /\ DataSize(n) = 0
  BY <1>0, <1>4, <1>9 DEF FreeIsClear, NodesTyped, DataSize
<1>12. t.kind = kind /\ t.parent = parent /\ t.name = name /\ t.owner = owner /\ t.mode = mode
  BY <1>0, <1>8, <1>10, <1>11 DEF NodesTyped
<1>13. t.size = size
  BY <1>0, <1>8, <1>10, <1>11 DEF BytesTyped
<1>14. t.data = data
  <2>1. ASSUME NEW n \in Node, NEW i \in 0 .. (Capacity - 1)
        PROVE  data[n][i] = IF in(n) THEN IF i < of(n).bytes THEN P[of(n).offset + i + 1] ELSE 0 ELSE 0
    <3>1. DataSize(n) \in Nat
      BY <1>0 DEF BytesTyped, DataSize
    <3>2. CASE in(n) /\ i < DataSize(n)
      BY <1>6, <1>10, <3>2
    <3>3. CASE i >= DataSize(n)
      BY <1>7, <1>10, <3>1, <3>3
    <3>4. CASE ~in(n)
      BY <1>7, <1>11, <3>4
    <3> QED
      BY <3>1, <3>2, <3>3, <3>4
  <2>2. ASSUME NEW n \in Node PROVE t.data[n] = data[n]
    <3>1. t.data[n] = [i \in 0 .. (Capacity - 1) |->
            IF in(n) THEN IF i < of(n).bytes THEN P[of(n).offset + i + 1] ELSE 0 ELSE 0]
      BY <1>8
    <3>2. data[n] = [i \in 0 .. (Capacity - 1) |-> data[n][i]]
      BY <1>0 DEF BytesTyped
    <3> QED
      BY <2>1, <3>1, <3>2
  <2> QED
    BY <1>0, <1>8, <2>2 DEF BytesTyped
<1>15. t = [kind |-> t.kind, parent |-> t.parent, name |-> t.name, owner |-> t.owner,
            mode |-> t.mode, size |-> t.size, data |-> t.data]
  BY DEF t, Imported
<1> QED
  BY <1>12, <1>13, <1>14, <1>15 DEF Columns, t

(* A checkpoint leaves the nodes and their bytes as they are.              *)
LEMMA CheckpointSame ==
  ASSUME FsInv, Checkpoint
  PROVE  UNCHANGED <<tree, contents>>
<1>1. kind[Root] = "dir" /\ Validate(Export, Export.header.bytes)
  BY DEF Checkpoint, Exportable, ValidNodes, Columns
<1>2. Imported(Export) = Columns
  BY <1>1, ImportRestores
<1>3. /\ kind' = Columns.kind /\ parent' = Columns.parent /\ name' = Columns.name
      /\ owner' = Columns.owner /\ mode' = Columns.mode
      /\ size' = Columns.size /\ data' = Columns.data
  BY <1>2 DEF Checkpoint
<1> QED
  BY <1>3 DEF Columns, tree, contents

(* A checkpoint closes nothing, as nothing is open.                        *)
LEMMA CheckpointInv ==
  ASSUME FsInv, Checkpoint
  PROVE  FsInv' /\ Kept
<1>1. NodesTyped' /\ BytesTyped' /\ FreeIsClear' /\ NoStaleBytes' /\ NodesKept
  BY CheckpointSame, SameNodes
<1>2. FilesTyped' /\ \A g \in File : files'[g] \in {files[g], Closed}
  <2>1. files' = [f \in File |-> Closed]
    BY DEF Checkpoint
  <2> QED
    BY <2>1, ClosedTyped DEF FilesTyped
<1>3. OpenOnNodes' /\ WritersOwn' /\ Kept
  BY <1>1, <1>2, FewerFilesInv
<1> QED
  BY <1>1, <1>2, <1>3 DEF FsInv, TypeOK

-----------------------------------------------------------------------------
(* The shape of the tree.  That the parents lead to the root is stated     *)
(* with ranks that get smaller towards it, which a step can be shown to    *)
(* keep and from which the walks of the code are shown to end.             *)

(* A node that may be a parent: the root's slot, or a directory.           *)
Holds(n) == n = Root \/ kind[n] = "dir"

(* rank falls from every used node to its parent.                          *)
RanksFall(rank) ==
  /\ rank \in [Node -> Nat]
  /\ \A n \in Used \ {Root} : Holds(parent[n]) /\ rank[parent[n]] < rank[n]

(* The nodes are a tree below the root's slot.                             *)
TreeInv ==
  /\ \A n \in Used \ {Root} : name[n] # Empty
  /\ \A n, m \in Used \ {Root} : parent[n] = parent[m] /\ name[n] = name[m] => n = m
  /\ \E rank : RanksFall(rank)

(* They are one whose root is in place, which the checks of the code ask   *)
(* for.                                                                    *)
RootedTree == TreeInv /\ RootStays

(* A climb of N steps from d inside S: what a recursive function along the *)
(* parents computes.                                                       *)
IsClimb(at, S, up, d, N) ==
  /\ at \in [0 .. N -> S]
  /\ at[0] = d
  /\ \A k \in 1 .. N : at[k] = IF at[k - 1] = Root THEN Root ELSE up[at[k - 1]]

(* There is such a function, and it is the one the definitions choose.     *)
LEMMA ClimbTyped ==
  ASSUME NEW S, Root \in S, NEW up \in [S -> S], NEW d \in S, NEW N \in Nat
  PROVE  IsClimb(CHOOSE g : g = [k \in 0 .. N |->
                   IF k = 0 THEN d ELSE IF g[k - 1] = Root THEN Root ELSE up[g[k - 1]]], S, up, d, N)
<1> DEFINE F == [x \in (1 .. N) \X S |-> IF x[2] = Root THEN Root ELSE up[x[2]]]
           at == CHOOSE g : g = [k \in 0 .. N |->
                   IF k = 0 THEN d ELSE IF g[k - 1] = Root THEN Root ELSE up[g[k - 1]]]
<1>1. Root \in S /\ d \in S
  OBVIOUS
<1>2. F \in [(1 .. N) \X S -> S]
  BY <1>1
<1>3. \E g : g = [k \in 0 .. N |->
                   IF k = 0 THEN d ELSE IF g[k - 1] = Root THEN Root ELSE up[g[k - 1]]]
  <2>1. PICK g : IsIteration(g, S, d, N, F)
    <3> HIDE DEF F, at
    <3> QED
      BY <1>1, <1>2, IterateExists
  <2>2. g \in [0 .. N -> S] /\ g[0] = d /\ \A k \in 1 .. N : g[k] = F[<<k, g[k - 1]>>]
    <3> HIDE DEF F, at
    <3> QED
      BY <2>1 DEF IsIteration
  <2>3. \A k \in 1 .. N : g[k] = IF g[k - 1] = Root THEN Root ELSE up[g[k - 1]]
    <3> TAKE k \in 1 .. N
    <3>1. k - 1 \in 0 .. N
      OBVIOUS
    <3>2. g[k - 1] \in S
      BY <2>2, <3>1
    <3>3. F[<<k, g[k - 1]>>] = IF g[k - 1] = Root THEN Root ELSE up[g[k - 1]]
      BY <3>2
    <3> QED
      BY <2>2, <3>3
  <2>4. \A k \in 0 .. N : k = 0 \/ k \in 1 .. N
    OBVIOUS
  <2>5. g = [k \in 0 .. N |-> g[k]]
    BY <2>2
  <2>6. g = [k \in 0 .. N |->
              IF k = 0 THEN d ELSE IF g[k - 1] = Root THEN Root ELSE up[g[k - 1]]]
    BY <2>2, <2>3, <2>4, <2>5
  <2> QED
    BY <2>6
<1>4. at = [k \in 0 .. N |-> IF k = 0 THEN d ELSE IF at[k - 1] = Root THEN Root ELSE up[at[k - 1]]]
  BY <1>3
<1> SUFFICES IsClimb(at, S, up, d, N)
  OBVIOUS
<1> HIDE DEF at
<1>5. at = [k \in 0 .. N |-> at[k]] /\ at[0] = d
  BY <1>4
<1>6. ASSUME NEW k \in 1 .. N
      PROVE  at[k] = IF at[k - 1] = Root THEN Root ELSE up[at[k - 1]]
  <2>1. k \in 0 .. N /\ k # 0
    OBVIOUS
  <2>2. at[k] = [j \in 0 .. N |->
           IF j = 0 THEN d ELSE IF at[j - 1] = Root THEN Root ELSE up[at[j - 1]]][k]
    BY <1>4
  <2> QED
    BY <2>1, <2>2
<1>7. at \in [0 .. N -> S]
  <2>1. \A k \in 1 .. N : at[k - 1] \in S => at[k] \in S
    BY <1>1, <1>6
  <2>2. at[0] \in S
    BY <1>1, <1>5
  <2> QED
    BY <1>5, <2>1, <2>2, IterateTyped
<1> QED
  BY <1>5, <1>6, <1>7 DEF IsClimb

(* A climb from a used node meets used nodes with ever smaller ranks, all  *)
(* directories but for the first, until it is at the root's slot, where it *)
(* stays.                                                                  *)
LEMMA ClimbFalls ==
  ASSUME NodesTyped, NEW rank, RanksFall(rank),
         NEW d \in Used \cup {Root}, NEW N \in Nat, NEW at, IsClimb(at, Node, parent, d, N)
  PROVE  /\ \A k \in 0 .. N : at[k] \in Used \cup {Root}
         /\ \A k \in 1 .. N : Holds(at[k])
         /\ \A j \in 0 .. N : at[j] # Root =>
              \A i \in 0 .. (j - 1) : at[i] # Root /\ rank[at[j]] < rank[at[i]]
<1>1. /\ at \in [0 .. N -> Node] /\ at[0] = d
      /\ \A k \in 1 .. N : at[k] = IF at[k - 1] = Root THEN Root ELSE parent[at[k - 1]]
  BY DEF IsClimb
<1>2. \A n \in Used \ {Root} : Holds(parent[n]) /\ rank[parent[n]] < rank[n]
  BY DEF RanksFall
<1>3. rank \in [Node -> Nat] /\ parent \in [Node -> Node]
  BY DEF RanksFall, NodesTyped
<1> DEFINE S == Used \cup {Root}
<1>k. \A k \in 1 .. N : at[k - 1] \in S => at[k] \in S /\ Holds(at[k])
  BY <1>1, <1>2, <1>3, NoneIsNoNode DEF Used, Holds
<1>4. at \in [0 .. N -> S]
  <2>1. \A k \in 1 .. N : at[k - 1] \in S => at[k] \in S
    BY <1>k
  <2>2. at = [k \in 0 .. N |-> at[k]] /\ at[0] \in S
    BY <1>1
  <2> HIDE DEF S
  <2> QED
    BY <2>1, <2>2, IterateTyped
<1>5. \A k \in 0 .. N : at[k] \in Used \cup {Root}
  BY <1>4
<1>d. \A k \in 1 .. N : Holds(at[k])
  <2> TAKE k \in 1 .. N
  <2>1. k - 1 \in 0 .. N
    OBVIOUS
  <2> QED
    BY <1>5, <1>k, <2>1
<1> DEFINE Falls(j) == at[j] # Root => \A i \in 0 .. (j - 1) : at[i] # Root /\ rank[at[j]] < rank[at[i]]
           D == {j \in Nat : j <= N => Falls(j)}
<1>6. 0 \in D
  OBVIOUS
<1>7. ASSUME NEW j \in Nat, j \in D PROVE j + 1 \in D
  <2>1. SUFFICES ASSUME j + 1 <= N, at[j + 1] # Root, NEW i \in 0 .. j
                 PROVE  at[i] # Root /\ rank[at[j + 1]] < rank[at[i]]
    OBVIOUS
  <2>2. j \in 0 .. N /\ j + 1 \in 1 .. N /\ (j + 1) - 1 = j /\ i \in 0 .. N
    BY <2>1
  <2>3. at[j] # Root /\ at[j + 1] = parent[at[j]]
    BY <1>1, <2>1, <2>2
  <2>4. rank[at[j + 1]] < rank[at[j]]
    BY <1>2, <1>5, <2>2, <2>3
  <2>5. CASE i = j
    BY <2>3, <2>4, <2>5
  <2>6. CASE i # j
    <3>1. i \in 0 .. (j - 1) /\ j <= N
      BY <2>1, <2>6
    <3>2. at[i] # Root /\ rank[at[j]] < rank[at[i]]
      BY <1>7, <2>3, <3>1
    <3>3. rank[at[j + 1]] \in Nat /\ rank[at[j]] \in Nat /\ rank[at[i]] \in Nat
      BY <1>1, <1>3, <2>2
    <3> QED
      BY <2>4, <3>2, <3>3
  <2> QED
    BY <2>5, <2>6
<1>8. Nat \subseteq D
  <2> HIDE DEF D
  <2> QED
    BY <1>6, <1>7, NatSetInduction
<1>9. \A j \in 0 .. N : Falls(j)
  <2> HIDE DEF Falls
  <2> QED
    BY <1>8
<1> QED
  BY <1>5, <1>9, <1>d

(* A climb of as many steps as there are other nodes ends at the root.     *)
LEMMA ClimbEnds ==
  ASSUME NodesTyped, NEW rank, RanksFall(rank),
         NEW d \in Used \cup {Root}, NEW N \in Nat, N >= MaxNodes - 1,
         NEW at, IsClimb(at, Node, parent, d, N)
  PROVE  at[N] = Root
<1> SUFFICES ASSUME at[N] # Root PROVE FALSE
  OBVIOUS
<1>1. /\ \A k \in 0 .. N : at[k] \in Node
      /\ \A j \in 0 .. N : at[j] # Root =>
           \A i \in 0 .. (j - 1) : at[i] # Root /\ rank[at[j]] < rank[at[i]]
  BY ClimbFalls, NoneIsNoNode DEF Used
<1>2. \A k \in 0 .. N : at[k] # Root
  <2>1. N \in 0 .. N /\ \A k \in 0 .. N : k = N \/ k \in 0 .. (N - 1)
    OBVIOUS
  <2> QED
    BY <1>1, <2>1
<1> DEFINE S == 0 .. N
           T == Node \ {Root}
<1>3. at \in [S -> T]
  <2>1. at = [k \in 0 .. N |-> at[k]]
    BY DEF IsClimb
  <2> QED
    BY <1>1, <1>2, <2>1
<1>4. IsFiniteSet(S) /\ Cardinality(S) = N + 1
  BY FS_Interval
<1>5. IsFiniteSet(T) /\ Cardinality(T) = MaxNodes - 1
  <2>1. MaxNodes - 1 \in Int /\ MaxNodes - 1 >= 0
    BY RuntimeFsAssumption
  <2>2. IsFiniteSet(Node) /\ Cardinality(Node) = MaxNodes
    BY <2>1, FS_Interval, RuntimeFsAssumption DEF Node
  <2> QED
    BY <2>2, FS_RemoveElement, NoneIsNoNode
<1>6. Cardinality(T) < Cardinality(S)
  BY <1>4, <1>5, RuntimeFsAssumption
<1>7. PICK x, y \in S : x # y /\ at[x] = at[y]
  <2> HIDE DEF S, T
  <2> QED
    BY <1>3, <1>4, <1>5, <1>6, FS_PigeonHole
<1>8. rank[at[x]] \in Nat
  BY <1>1 DEF RanksFall
<1>9. x \in 0 .. (y - 1) \/ y \in 0 .. (x - 1)
  BY <1>7
<1> QED
  BY <1>1, <1>2, <1>7, <1>8, <1>9

(* The chain of a directory: directories no further from the root, with    *)
(* the parents of all of them.                                             *)
LEMMA ChainClosed ==
  ASSUME NodesTyped, NEW rank, RanksFall(rank),
         NEW d \in Node, Holds(d)
  PROVE  /\ d \in Chain(d) \cup {Root}
         /\ \A m \in Chain(d) :
              /\ m \in Node \ {Root} /\ kind[m] = "dir" /\ rank[m] <= rank[d]
              /\ parent[m] \in Chain(d) \cup {Root}
<1> DEFINE N == MaxNodes - 1
           at == CHOOSE g : g = [k \in 0 .. N |->
                   IF k = 0 THEN d ELSE IF g[k - 1] = Root THEN Root ELSE parent[g[k - 1]]]
<1>1. N \in Nat /\ Node = 0 .. N
  BY RuntimeFsAssumption DEF Node
<1>2. Chain(d) = {at[k] : k \in 0 .. N} \ {Root}
  BY <1>1 DEF Chain
<1>3. IsClimb(at, Node, parent, d, N)
  <2>1. parent \in [Node -> Node]
    BY DEF NodesTyped
  <2>2. Root \in Node
    BY NoneIsNoNode
  <2>3. N \in Nat
    BY <1>1
  <2> HIDE DEF N
  <2> QED
    BY <2>1, <2>2, <2>3, ClimbTyped
<1> HIDE DEF at
<1>u. d \in Used \cup {Root}
  BY DEF Used, Holds
<1>4. /\ \A k \in 0 .. N : at[k] \in Node /\ Holds(at[k])
      /\ \A j \in 0 .. N : at[j] # Root =>
           \A i \in 0 .. (j - 1) : at[i] # Root /\ rank[at[j]] < rank[at[i]]
  <2>1. /\ \A k \in 0 .. N : at[k] \in Used \cup {Root}
        /\ \A k \in 1 .. N : Holds(at[k])
        /\ \A j \in 0 .. N : at[j] # Root =>
             \A i \in 0 .. (j - 1) : at[i] # Root /\ rank[at[j]] < rank[at[i]]
    <3> HIDE DEF N
    <3> QED
      BY <1>1, <1>3, <1>u, ClimbFalls
  <2>2. at[0] = d /\ \A k \in 0 .. N : k = 0 \/ k \in 1 .. N
    BY <1>1, <1>3 DEF IsClimb
  <2> HIDE DEF N
  <2> QED
    BY <2>1, <2>2, NoneIsNoNode DEF Used
<1>5. at[N] = Root
  <2>1. N >= MaxNodes - 1
    BY <1>1
  <2> HIDE DEF N
  <2> QED
    BY <1>1, <1>3, <1>u, <2>1, ClimbEnds
<1>6. at[0] = d /\ \A k \in 1 .. N : at[k] = IF at[k - 1] = Root THEN Root ELSE parent[at[k - 1]]
  BY <1>3 DEF IsClimb
<1> HIDE DEF N
<1>7. d \in Chain(d) \cup {Root}
  BY <1>1, <1>2, <1>6
<1>8. ASSUME NEW k \in 0 .. N, at[k] # Root
      PROVE  rank[at[k]] <= rank[d] /\ parent[at[k]] \in Chain(d) \cup {Root}
  <2>1. rank[at[k]] \in Nat /\ rank[d] \in Nat
    BY <1>4 DEF RanksFall
  <2>2. k = 0 \/ 0 \in 0 .. (k - 1)
    BY <1>1
  <2>3. rank[at[k]] <= rank[d]
    BY <1>4, <1>6, <1>8, <2>1, <2>2
  <2>4. k + 1 \in 1 .. N /\ (k + 1) - 1 = k /\ k + 1 \in 0 .. N
    BY <1>1, <1>5, <1>8
  <2>5. at[k + 1] = parent[at[k]]
    BY <1>6, <1>8, <2>4
  <2> QED
    BY <1>2, <2>3, <2>4, <2>5
<1> QED
  BY <1>2, <1>4, <1>7, <1>8 DEF Holds

(* The invariant says what DirectoryTree does: no walk from a node comes   *)
(* back to it.                                                             *)
LEMMA TreeInvIsTree ==
  ASSUME NodesTyped, TreeInv
  PROVE  DirectoryTree
<1>1. PICK rank : RanksFall(rank)
  BY DEF TreeInv
<1>2. ASSUME NEW n \in Used \ {Root}
      PROVE  Holds(parent[n]) /\ n \notin Chain(parent[n])
  <2>1. /\ Holds(parent[n]) /\ rank[parent[n]] < rank[n]
        /\ n \in Node /\ parent[n] \in Node
    BY <1>1 DEF RanksFall, NodesTyped, Used
  <2>2. rank[n] \in Nat /\ rank[parent[n]] \in Nat
    BY <1>1, <2>1 DEF RanksFall
  <2>3. \A m \in Chain(parent[n]) : rank[m] <= rank[parent[n]]
    BY <1>1, <2>1, ChainClosed
  <2>4. ~(rank[n] <= rank[parent[n]])
    BY <2>1, <2>2
  <2> QED
    BY <2>1, <2>3, <2>4
<1> QED
  BY <1>2 DEF TreeInv, DirectoryTree, Holds

(* A new node under a directory, with a name that is free there.           *)
LEMMA GrownTree ==
  ASSUME NodesTyped, TreeInv, NEW n \in Node, n # Root, kind[n] = "free",
         NEW d \in Node, Holds(d), NEW piece \in Names \ {Empty}, Child(d, piece) = None,
         NEW k \in {"dir", "reg"}, kind'[n] = k, parent'[n] = d, name'[n] = piece,
         \A o \in Node \ {n} : kind'[o] = kind[o] /\ parent'[o] = parent[o] /\ name'[o] = name[o]
  PROVE  TreeInv'
<1>1. PICK rank : RanksFall(rank)
  BY DEF TreeInv
<1> DEFINE rank2 == [rank EXCEPT ![n] = rank[d] + 1]
<1>2. rank2 \in [Node -> Nat] /\ rank2[n] = rank[d] + 1 /\ \A o \in Node \ {n} : rank2[o] = rank[o]
  BY <1>1 DEF RanksFall
<1> HIDE DEF rank2
<1>3. Used' = Used \cup {n} /\ n \notin Used /\ Used \subseteq Node /\ d # n
  BY DEF Used, Holds
<1>4. rank[d] \in Nat
  BY <1>1 DEF RanksFall
<1>5. \A o \in Used \ {Root} :
        /\ o \in Node \ {n} /\ parent[o] \in Node \ {n}
        /\ Holds(parent[o]) /\ rank[parent[o]] < rank[o]
  BY <1>1, <1>3 DEF RanksFall, NodesTyped, Used, Holds
<1>6. \A o \in Used' \ {Root} : Holds(parent[o])' /\ rank2[parent'[o]] < rank2[o]
  <2> TAKE o \in Used' \ {Root}
  <2>1. CASE o = n
    BY <1>2, <1>3, <1>4, <2>1 DEF Holds
  <2>2. CASE o # n
    <3>1. o \in Used \ {Root} /\ o \in Node \ {n}
      BY <1>3, <2>2
    <3>2. parent'[o] = parent[o] /\ parent[o] \in Node \ {n}
      BY <1>5, <3>1
    <3> QED
      BY <1>2, <1>5, <3>1, <3>2 DEF Holds
  <2> QED
    BY <2>1, <2>2
<1>7. RanksFall(rank2)'
  BY <1>2, <1>6 DEF RanksFall
<1>8. (\E r : RanksFall(r))'
  BY <1>7
<1>10. \A o \in Used' \ {Root} : name'[o] # Empty
  BY <1>3, <1>5 DEF TreeInv
<1>11. \A o \in Used \ {Root} : ~(parent[o] = d /\ name[o] = piece)
  BY ChildOf DEF Used
<1>12. \A o, m \in Used' \ {Root} : parent'[o] = parent'[m] /\ name'[o] = name'[m] => o = m
  BY <1>3, <1>5, <1>11 DEF TreeInv
<1> QED
  BY <1>8, <1>10, <1>12 DEF TreeInv

(* Making a directory.                                                     *)
LEMMA MkdirTree ==
  ASSUME FsInv, TreeInv, NEW p \in Pids, NEW path \in Path, NEW m \in Modes, Mkdir(p, path, m)
  PROVE  TreeInv'
<1> DEFINE d == Parent(path)
           n == FreeNode
<1>1. /\ Resolve(path) = None /\ d # None /\ n # None
      /\ Fill(n, "dir", d, Leaf(path), p, m) /\ Emptied(n)
  BY DEF Mkdir
<1>2. n \in Node /\ n # Root /\ kind[n] = "free"
  BY <1>1, FreeNodeIsFree
<1>3. /\ d \in Node /\ Holds(d) /\ Leaf(path) \in Names \ {Empty}
      /\ Child(d, Leaf(path)) = None
  BY <1>1, ParentTyped DEF Holds
<1>4. NodesTyped /\ BytesTyped /\ m \in SUBSET {"read", "write"}
  BY RuntimeFsAssumption DEF FsInv, TypeOK
<1> HIDE DEF d, n
<1>5. /\ kind'[n] = "dir" /\ parent'[n] = d /\ name'[n] = Leaf(path)
      /\ \A o \in Node \ {n} : kind'[o] = kind[o] /\ parent'[o] = parent[o] /\ name'[o] = name[o]
  BY <1>1, <1>2, <1>3, <1>4, FillTyped
<1> QED
  BY <1>2, <1>3, <1>4, <1>5, GrownTree

(* Opening a path that creates a file.                                     *)
LEMMA OpenCreatingTree ==
  ASSUME FsInv, TreeInv, NEW p \in Pids, NEW path \in Path, NEW flags \in FlagSets,
         OpenCreating(p, path, flags)
  PROVE  TreeInv'
<1> DEFINE d == Parent(path)
           n == FreeNode
<1>1. /\ Resolve(path) = None /\ d # None /\ n # None
      /\ Fill(n, "reg", d, Leaf(path), p, {"read", "write"}) /\ Emptied(n)
  BY DEF OpenCreating
<1>2. n \in Node /\ n # Root /\ kind[n] = "free"
  BY <1>1, FreeNodeIsFree
<1>3. /\ d \in Node /\ Holds(d) /\ Leaf(path) \in Names \ {Empty}
      /\ Child(d, Leaf(path)) = None
  BY <1>1, ParentTyped DEF Holds
<1>4. NodesTyped /\ BytesTyped
  BY DEF FsInv, TypeOK
<1> HIDE DEF d, n
<1>5. /\ kind'[n] = "reg" /\ parent'[n] = d /\ name'[n] = Leaf(path)
      /\ \A o \in Node \ {n} : kind'[o] = kind[o] /\ parent'[o] = parent[o] /\ name'[o] = name[o]
  BY <1>1, <1>2, <1>3, <1>4, FillTyped
<1> QED
  BY <1>2, <1>3, <1>4, <1>5, GrownTree

(* Removing a node: it has no children, as a directory that has some is    *)
(* refused and a file cannot have any, or it is in the root's slot, which  *)
(* stays the parent of its children.                                       *)
LEMMA RemoveTree ==
  ASSUME FsInv, TreeInv, NEW p \in Pids, NEW path \in Path, Remove(p, path)
  PROVE  TreeInv'
<1> DEFINE n == Resolve(path)
<1>1. /\ n # None /\ ~(kind[n] = "dir" /\ HasChildren(n))
      /\ Fill(n, "free", Root, Empty, NoOwner, {}) /\ Emptied(n)
  BY DEF Remove
<1>2. n \in Node
  BY <1>1, ResolveTyped
<1>3. NodesTyped /\ BytesTyped
  BY DEF FsInv, TypeOK
<1> HIDE DEF n
<1>4. /\ kind'[n] = "free"
      /\ \A o \in Node \ {n} : kind'[o] = kind[o] /\ parent'[o] = parent[o] /\ name'[o] = name[o]
  BY <1>1, <1>2, <1>3, NoneIsNoNode, FillTyped
<1>5. PICK rank : RanksFall(rank)
  BY DEF TreeInv
<1>6. Used' = Used \ {n} /\ Used \subseteq Node
  BY <1>2, <1>4 DEF Used
<1>7. \A o \in Used \ {Root, n} : parent[o] = Root \/ parent[o] \in Node \ {n}
  BY <1>1, <1>2, <1>3, <1>5, <1>6 DEF HasChildren, RanksFall, NodesTyped, Used, Holds
<1>8. \A o \in Used' \ {Root} :
        /\ o \in Used \ {Root} /\ o \in Node \ {n} /\ parent'[o] = parent[o]
        /\ Holds(parent[o])' /\ rank[parent'[o]] < rank[o]
  BY <1>4, <1>5, <1>6, <1>7 DEF RanksFall, Holds
<1>9. RanksFall(rank)'
  BY <1>5, <1>8 DEF RanksFall
<1>10. (\E r : RanksFall(r))'
  BY <1>9
<1>12. /\ \A o \in Used' \ {Root} : name'[o] # Empty
       /\ \A o, m \in Used' \ {Root} : parent'[o] = parent'[m] /\ name'[o] = name'[m] => o = m
  BY <1>4, <1>8 DEF TreeInv
<1> QED
  BY <1>10, <1>12 DEF TreeInv

(* Moving a node under a directory that is not below it: the nodes off the *)
(* directory's chain move away from the root.                              *)
LEMMA RenameTree ==
  ASSUME FsInv, TreeInv,
         NEW p \in Pids, NEW old \in Path, NEW new \in Path, Rename(p, old, new)
  PROVE  TreeInv'
<1> DEFINE n == Resolve(old)
           d == Parent(new)
           piece == Leaf(new)
<1>1. /\ n # None /\ Resolve(new) = None /\ d # None /\ MayMove(n, d)
      /\ parent' = [parent EXCEPT ![n] = d] /\ name' = [name EXCEPT ![n] = piece]
      /\ kind' = kind
  BY DEF Rename
<1>2. n \in Node /\ (n = Root \/ kind[n] # "free")
  BY <1>1, ResolveTyped
<1>3. /\ d \in Node /\ Holds(d) /\ piece \in Names \ {Empty} /\ Child(d, piece) = None
  BY <1>1, ParentTyped DEF Holds
<1>4. NodesTyped
  BY DEF FsInv, TypeOK
<1> HIDE DEF n, d, piece
<1>5. PICK rank : RanksFall(rank)
  BY DEF TreeInv
<1>6. PICK A : A = Chain(d) \cup {Root}
  OBVIOUS
<1>7. /\ d \in A /\ Root \in A
      /\ \A m \in A \ {Root} : kind[m] = "dir" /\ parent[m] \in A
  BY <1>3, <1>4, <1>5, <1>6, ChainClosed
<1>8. n # Root => n \notin A
  BY <1>1, <1>2, <1>6, <1>7 DEF MayMove
<1>9. PICK rank2 : rank2 = [m \in Node |-> IF m \in A THEN rank[m] ELSE rank[m] + rank[d] + 1]
  OBVIOUS
<1>10. rank \in [Node -> Nat] /\ rank[d] \in Nat
  BY <1>3, <1>5 DEF RanksFall
<1>11. rank2 \in [Node -> Nat]
  BY <1>9, <1>10
<1>12. /\ parent'[n] = d /\ name'[n] = piece
       /\ \A o \in Node \ {n} : parent'[o] = parent[o] /\ name'[o] = name[o]
  BY <1>1, <1>2, <1>4 DEF NodesTyped
<1>13. Used' = Used /\ Used \subseteq Node
  BY <1>1 DEF Used
<1>14. ASSUME NEW o \in Used' \ {Root}
       PROVE  Holds(parent[o])' /\ rank2[parent'[o]] < rank2[o]
  <2>1. CASE o = n
    <3>1. rank2[d] = rank[d] /\ rank2[n] = rank[n] + rank[d] + 1 /\ rank[n] \in Nat
      BY <1>2, <1>3, <1>7, <1>8, <1>9, <1>10, <2>1
    <3> QED
      BY <1>1, <1>3, <1>10, <1>12, <2>1, <3>1 DEF Holds
  <2>2. CASE o # n
    <3>1. /\ parent'[o] = parent[o] /\ Holds(parent[o]) /\ rank[parent[o]] < rank[o]
          /\ o \in Node /\ parent[o] \in Node
      BY <1>4, <1>5, <1>12, <1>13, <2>2 DEF RanksFall, NodesTyped, Used
    <3>2. rank[o] \in Nat /\ rank[parent[o]] \in Nat
      BY <1>10, <3>1
    <3>3. /\ rank2[o] = IF o \in A THEN rank[o] ELSE rank[o] + rank[d] + 1
          /\ rank2[parent[o]] = IF parent[o] \in A THEN rank[parent[o]]
                                ELSE rank[parent[o]] + rank[d] + 1
      BY <1>9, <3>1
    <3>4. o \in A => parent[o] \in A
      BY <1>7
    <3>5. rank2[parent[o]] < rank2[o]
      BY <1>10, <3>1, <3>2, <3>3, <3>4
    <3> QED
      BY <1>1, <3>1, <3>5 DEF Holds
  <2> QED
    BY <2>1, <2>2
<1>15. RanksFall(rank2)'
  BY <1>11, <1>14 DEF RanksFall
<1>16. (\E r : RanksFall(r))'
  BY <1>15
<1>18. \A o \in Used \ {Root} : ~(parent[o] = d /\ name[o] = piece)
  BY ChildOf, <1>3 DEF Used
<1>19. /\ \A o \in Used' \ {Root} : name'[o] # Empty
       /\ \A o, m \in Used' \ {Root} : parent'[o] = parent'[m] /\ name'[o] = name'[m] => o = m
  BY <1>3, <1>12, <1>13, <1>18 DEF TreeInv
<1> QED
  BY <1>16, <1>19 DEF TreeInv

(* A step that leaves the nodes alone.                                     *)
LEMMA SameTree == TreeInv /\ UNCHANGED tree => TreeInv'
<1> SUFFICES ASSUME TreeInv, kind' = kind, parent' = parent, name' = name PROVE TreeInv'
  BY DEF tree
<1>1. PICK rank : RanksFall(rank)
  BY DEF TreeInv
<1>2. RanksFall(rank)'
  BY <1>1 DEF RanksFall, Used, Holds
<1>3. (\E r : RanksFall(r))'
  BY <1>2
<1> QED
  BY <1>3 DEF TreeInv, Used

-----------------------------------------------------------------------------
(* An export is valid.                                                     *)

(* The powers of two that the Merkle tree may have as leaves.              *)
LEMMA NextPow2Is ==
  ASSUME NEW n \in 1 .. 16
  PROVE  NextPow2(n) = IF n = 1 THEN 1 ELSE IF n = 2 THEN 2 ELSE IF n <= 4 THEN 4
                       ELSE IF n <= 8 THEN 8 ELSE 16
<1> DEFINE S == {k \in {1, 2, 4, 8, 16} : k >= n}
           m == IF n = 1 THEN 1 ELSE IF n = 2 THEN 2 ELSE IF n <= 4 THEN 4
                ELSE IF n <= 8 THEN 8 ELSE 16
<1>1. m \in S /\ \A k \in S : m <= k
  OBVIOUS
<1>2. S \subseteq Nat
  OBVIOUS
<1>3. NextPow2(n) = CHOOSE x \in S : \A y \in S : x <= y
  BY DEF NextPow2, Min
<1> HIDE DEF S, m
<1>4. \A x \in S : (\A y \in S : x <= y) => x = m
  BY <1>1, <1>2
<1>5. NextPow2(n) \in S /\ \A y \in S : NextPow2(n) <= y
  BY <1>1, <1>3
<1>6. NextPow2(n) = m
  BY <1>4, <1>5
<1> QED
  BY <1>6 DEF m

(* The parts of an export, by the list of its nodes.                       *)
LEMMA ExportParts ==
  ASSUME BytesTyped, NEW list, list = NodesBelow[MaxNodes]
  PROVE  /\ Export.records = [k \in 1 .. Len(list) |-> RecordOf(list[k])]
         /\ Len(Export.records) = Len(list) /\ DOMAIN Export.records = 1 .. Len(list)
         /\ Export.payload = PayloadAfter(list)[Len(list)]
         /\ Export.header.count = Len(list)
         /\ Export.header.leaves = NextPow2(Len(list))
         /\ Export.header.hashes = 2 * NextPow2(Len(list)) - 1
         /\ Export.header.data = Len(Export.payload)
         /\ Export.header.bytes = ImageBytes(Export.header)
         /\ Export.header.root = Export.hash[0]
         /\ Export.hash = TreeHashes([k \in DOMAIN Export.records |-> Export.records[k].objectHash],
                                     NextPow2(Len(list)))
<1>1. list \in Seq(Node)
  BY NodesBelowComplete
<1>2. DOMAIN list = 1 .. Len(list) /\ Len(list) \in Nat
  BY <1>1
<1> DEFINE records == [k \in DOMAIN list |-> RecordOf(list[k])]
           payload == PayloadAfter(list)[Len(list)]
<1>3. Export = Sealed(records, payload)
  BY DEF Export, PayloadAfter
<1>4. Len(records) = Len(list) /\ DOMAIN records = 1 .. Len(list)
  BY <1>2
<1> HIDE DEF records, payload
<1>5. Export.records = records /\ Export.payload = payload
  BY <1>3 DEF Sealed
<1> DEFINE leaves == NextPow2(Len(records))
           hash == TreeHashes([k \in DOMAIN records |-> records[k].objectHash], leaves)
           h == [count |-> Len(records), leaves |-> leaves, hashes |-> 2 * leaves - 1,
                 data |-> Len(payload), root |-> hash[0], bytes |-> 0]
<1>6. Export.header = [h EXCEPT !.bytes = ImageBytes(h)] /\ Export.hash = hash
  BY <1>3 DEF Sealed
<1> HIDE DEF hash, leaves
<1>7. /\ Export.header.count = Len(records) /\ Export.header.leaves = leaves
      /\ Export.header.hashes = 2 * leaves - 1 /\ Export.header.data = Len(payload)
      /\ Export.header.root = hash[0] /\ Export.header.bytes = ImageBytes(h)
  BY <1>6
<1>8. ImageBytes(Export.header) = ImageBytes(h)
  BY <1>7 DEF ImageBytes
<1>9. leaves = NextPow2(Len(list))
  BY <1>4 DEF leaves
<1>10. hash = TreeHashes([k \in DOMAIN Export.records |-> Export.records[k].objectHash], leaves)
  BY <1>5 DEF hash
<1>11. records = [k \in 1 .. Len(list) |-> RecordOf(list[k])]
  BY <1>2 DEF records
<1> QED
  BY <1>4, <1>5, <1>6, <1>7, <1>8, <1>9, <1>10, <1>11 DEF payload

(* The running offset of the validation.                                   *)
LEMMA ExpectedTyped ==
  ASSUME NEW records, Len(records) \in Nat, \A k \in 1 .. Len(records) : records[k].bytes \in Nat
  PROVE  /\ ExpectedOffset(records) \in [0 .. Len(records) -> Nat]
         /\ ExpectedOffset(records)[0] = 0
         /\ \A k \in 1 .. Len(records) :
              ExpectedOffset(records)[k] = ExpectedOffset(records)[k - 1] + records[k].bytes
<1> DEFINE N == Len(records)
           F == [x \in (1 .. N) \X Nat |-> x[2] + records[x[1]].bytes]
           at == CHOOSE g : g = [k \in 0 .. Len(records) |-> IF k = 0 THEN 0 ELSE g[k - 1] + records[k].bytes]
<1>1. N \in Nat
  OBVIOUS
<1>2. F \in [(1 .. N) \X Nat -> Nat]
  OBVIOUS
<1>3. \E g : g = [k \in 0 .. Len(records) |-> IF k = 0 THEN 0 ELSE g[k - 1] + records[k].bytes]
  <2>1. PICK g : IsIteration(g, Nat, 0, N, F)
    <3> HIDE DEF N, F, at
    <3> QED
      BY <1>1, <1>2, IterateExists
  <2>2. g \in [0 .. N -> Nat] /\ g[0] = 0 /\ \A k \in 1 .. N : g[k] = F[<<k, g[k - 1]>>]
    <3> HIDE DEF N, F, at
    <3> QED
      BY <2>1 DEF IsIteration
  <2>3. \A k \in 1 .. N : g[k] = g[k - 1] + records[k].bytes
    <3> TAKE k \in 1 .. N
    <3>1. g[k - 1] \in Nat
      BY <1>1, <2>2
    <3>2. F[<<k, g[k - 1]>>] = g[k - 1] + records[k].bytes
      <4> HIDE DEF N
      <4> QED
        BY <3>1
    <3> QED
      BY <2>2, <3>2
  <2>4. \A k \in 0 .. N : k = 0 \/ k \in 1 .. N
    BY <1>1
  <2>5. g = [k \in 0 .. N |-> g[k]]
    BY <2>2
  <2>6. g = [k \in 0 .. Len(records) |-> IF k = 0 THEN 0 ELSE g[k - 1] + records[k].bytes]
    BY <2>2, <2>3, <2>4, <2>5
  <2> QED
    BY <2>6
<1>4. at = [k \in 0 .. Len(records) |-> IF k = 0 THEN 0 ELSE at[k - 1] + records[k].bytes]
  BY <1>3
<1>5. ExpectedOffset(records) = at
  BY DEF ExpectedOffset
<1> HIDE DEF at
<1>6. at = [k \in 0 .. N |-> at[k]] /\ at[0] = 0
  BY <1>1, <1>4
<1>7. ASSUME NEW k \in 1 .. N
      PROVE  at[k] = at[k - 1] + records[k].bytes
  <2>1. k \in 0 .. Len(records) /\ k # 0
    BY <1>1
  <2> QED
    BY <1>4, <2>1
<1>8. at \in [0 .. N -> Nat]
  <2>1. \A k \in 1 .. N : at[k - 1] \in Nat => at[k] \in Nat
    BY <1>7
  <2>2. at[0] \in Nat
    BY <1>6
  <2> HIDE DEF N
  <2> QED
    BY <1>1, <1>6, <2>1, <2>2, IterateTyped
<1> QED
  BY <1>5, <1>6, <1>7, <1>8

(* The running offset after k records of an export is the length of the    *)
(* payload so far.                                                         *)
LEMMA ExpectedIsLength ==
  ASSUME BytesTyped, NEW list \in Seq(Node), NEW records, Len(records) = Len(list),
         \A k \in 1 .. Len(list) : records[k].bytes = DataSize(list[k])
  PROVE  \A k \in 0 .. Len(list) : ExpectedOffset(records)[k] = Len(PayloadAfter(list)[k])
<1> DEFINE N == Len(list)
           at == PayloadAfter(list)
           off == ExpectedOffset(records)
           D == {k \in Nat : k <= N => off[k] = Len(at[k])}
<1>1. N \in Nat /\ \A k \in 1 .. N : list[k] \in Node
  OBVIOUS
<1>2. \A k \in 1 .. N : /\ DataSize(list[k]) \in Nat /\ records[k].bytes = DataSize(list[k])
                        /\ Bytes(list[k]) \in Seq({0, 1}) /\ Len(Bytes(list[k])) = DataSize(list[k])
  BY <1>1, BytesOf
<1>3. /\ off[0] = 0
      /\ \A k \in 1 .. N : off[k] = off[k - 1] + records[k].bytes
  BY <1>1, <1>2, ExpectedTyped
<1>4. /\ at \in [0 .. N -> Seq({0, 1})] /\ at[0] = <<>>
      /\ \A k \in 1 .. N : at[k] = at[k - 1] \o Bytes(list[k])
  BY PayloadTyped
<1> HIDE DEF at, off
<1>5. 0 \in D
  BY <1>3, <1>4
<1>6. ASSUME NEW k \in Nat, k \in D PROVE k + 1 \in D
  <2>1. SUFFICES ASSUME k + 1 <= N PROVE off[k + 1] = Len(at[k + 1])
    OBVIOUS
  <2>2. k \in 0 .. N /\ k + 1 \in 1 .. N /\ (k + 1) - 1 = k /\ k <= N
    BY <1>1, <2>1
  <2>3. off[k] = Len(at[k]) /\ off[k + 1] = off[k] + DataSize(list[k + 1])
    BY <1>2, <1>3, <1>6, <2>2
  <2>4. at[k] \in Seq({0, 1}) /\ at[k + 1] = at[k] \o Bytes(list[k + 1])
    BY <1>4, <2>2
  <2>5. Bytes(list[k + 1]) \in Seq({0, 1}) /\ Len(Bytes(list[k + 1])) = DataSize(list[k + 1])
    BY <1>2, <2>2
  <2>6. Len(at[k + 1]) = Len(at[k]) + Len(Bytes(list[k + 1]))
    <3> DEFINE u == at[k]
               b == Bytes(list[k + 1])
    <3>1. u \in Seq({0, 1}) /\ b \in Seq({0, 1}) /\ at[k + 1] = u \o b
      BY <2>4, <2>5
    <3> HIDE DEF u, b
    <3>2. Len(u \o b) = Len(u) + Len(b)
      BY <3>1
    <3> QED
      BY <3>1, <3>2 DEF u, b
  <2> QED
    BY <2>3, <2>5, <2>6
<1>7. Nat \subseteq D
  <2> HIDE DEF D
  <2> QED
    BY <1>5, <1>6, NatSetInduction
<1> QED
  BY <1>1, <1>7 DEF at, off

(* Walks from a used node stay in use and end at the root.                 *)
LEMMA WalkEnds ==
  ASSUME NodesTyped, RootedTree, NEW n \in Used, NEW N \in Nat
  PROVE  /\ Walk(n, parent, N) \in Used
         /\ N >= MaxNodes - 1 => Walk(n, parent, N) = Root
<1> DEFINE at == CHOOSE g : g = [k \in 0 .. N |->
                   IF k = 0 THEN n ELSE IF g[k - 1] = Root THEN Root ELSE parent[g[k - 1]]]
<1>1. Walk(n, parent, N) = at[N]
  BY DEF Walk
<1>2. IsClimb(at, Node, parent, n, N)
  <2>1. parent \in [Node -> Node] /\ n \in Node
    BY DEF NodesTyped, Used
  <2>2. Root \in Node
    BY NoneIsNoNode
  <2> QED
    BY <2>1, <2>2, ClimbTyped
<1> HIDE DEF at
<1>3. PICK rank : RanksFall(rank)
  BY DEF RootedTree, RootStays, TreeInv
<1>4. kind[Root] = "dir"
  BY DEF RootedTree, RootStays
<1>5. \A k \in 0 .. N : at[k] \in Used
  BY <1>2, <1>3, <1>4, ClimbFalls, NoneIsNoNode DEF Used
<1>6. N >= MaxNodes - 1 => at[N] = Root
  BY <1>2, <1>3, ClimbEnds
<1> QED
  BY <1>1, <1>5, <1>6

(* runtime_fs_validate accepts the file system.                            *)
LEMMA TreeIsValid ==
  ASSUME FsInv, RootedTree
  PROVE  ValidNodes(Columns)
<1>1. NodesTyped /\ BytesTyped
  BY DEF FsInv, TypeOK
<1>2. /\ Columns.kind = kind /\ Columns.parent = parent /\ Columns.name = name
      /\ Columns.size = size
  BY DEF Columns
<1>3. ASSUME NEW n \in Node \ {Root}, kind[n] # "free"
      PROVE  ValidNode(Columns, n)
  <2>1. n \in Used \ {Root}
    BY <1>3 DEF Used
  <2>2. name[n] # Empty /\ parent[n] \in Node /\ kind[parent[n]] = "dir" /\ size[n] <= Capacity
    BY <1>1, <2>1, RuntimeFsAssumption DEF RootedTree, RootStays, TreeInv, RanksFall, Holds, NodesTyped, BytesTyped
  <2>3. Walk(n, parent, MaxNodes) = Root
    <3>1. MaxNodes \in Nat /\ MaxNodes >= MaxNodes - 1
      BY RuntimeFsAssumption
    <3> QED
      BY <1>1, <2>1, <3>1, WalkEnds
  <2>4. \A depth \in 1 .. MaxNodes : kind[Walk(n, parent, depth)] # "free"
    <3> TAKE depth \in 1 .. MaxNodes
    <3>1. depth \in Nat
      OBVIOUS
    <3>2. Walk(n, parent, depth) \in Used
      BY <1>1, <2>1, <3>1, WalkEnds
    <3> QED
      BY <3>2 DEF Used
  <2>5. \A peer \in (n + 1) .. (MaxNodes - 1) :
          kind[peer] # "free" /\ parent[peer] = parent[n] => name[peer] # name[n]
    <3> TAKE peer \in (n + 1) .. (MaxNodes - 1)
    <3>1. peer \in Node /\ peer # n /\ peer # Root
      BY RuntimeFsAssumption DEF Node, Root
    <3> QED
      BY <2>1, <3>1 DEF RootedTree, TreeInv, Used
  <2> QED
    BY <1>2, <2>2, <2>3, <2>4, <2>5 DEF ValidNode
<1> QED
  BY <1>2, <1>3 DEF ValidNodes, RootedTree, RootStays

(* The list of nodes begins with the root and is no longer than the table. *)
LEMMA ListBounds ==
  ASSUME kind[Root] = "dir", NEW c, NEW list \in Seq(Node), ListFacts(MaxNodes, list, c)
  PROVE  /\ Len(list) \in 1 .. MaxNodes
         /\ list[1] = Root
<1>1. /\ \A j \in 1 .. Len(list) : list[j] \in 0 .. (MaxNodes - 1)
      /\ \A j \in 1 .. Len(list) : \A i \in 1 .. (j - 1) : list[i] < list[j]
      /\ \A m \in 0 .. (MaxNodes - 1) : kind[m] # "free" => \E j \in 1 .. Len(list) : list[j] = m
  BY DEF ListFacts
<1>2. Root \in 0 .. (MaxNodes - 1) /\ MaxNodes \in Nat /\ Len(list) \in Nat
  BY RuntimeFsAssumption DEF Root
<1>3. PICK j \in 1 .. Len(list) : list[j] = Root
  BY <1>1, <1>2
<1>4. Len(list) >= 1 /\ 1 \in 1 .. Len(list)
  BY <1>2
<1>5. list[1] = Root
  <2>1. list[1] \in Nat
    BY <1>1, <1>4
  <2>2. j = 1 \/ 1 \in 1 .. (j - 1)
    OBVIOUS
  <2>3. j # 1 => list[1] < 0
    BY <1>1, <1>3, <2>2 DEF Root
  <2> QED
    BY <1>3, <2>1, <2>3
<1>6. Len(list) <= MaxNodes
  <2> DEFINE S == 1 .. Len(list)
             T == 0 .. (MaxNodes - 1)
             f == [k \in S |-> list[k]]
  <2>1. f \in [S -> T]
    BY <1>1
  <2>2. IsFiniteSet(S) /\ Cardinality(S) = Len(list)
    BY <1>2, <1>4, FS_Interval
  <2>3. IsFiniteSet(T) /\ Cardinality(T) = MaxNodes
    <3>1. MaxNodes - 1 \in Int /\ ~(0 > MaxNodes - 1) /\ (MaxNodes - 1) - 0 + 1 = MaxNodes
      BY RuntimeFsAssumption
    <3> QED
      BY <3>1, FS_Interval
  <2>4. ASSUME Cardinality(T) < Cardinality(S) PROVE FALSE
    <3>1. PICK x, y \in S : x # y /\ f[x] = f[y]
      <4> HIDE DEF S, T, f
      <4> QED
        BY <2>1, <2>2, <2>3, <2>4, FS_PigeonHole
    <3>2. list[x] = list[y] /\ list[x] \in Nat
      BY <1>1, <3>1
    <3>3. x \in 1 .. (y - 1) \/ y \in 1 .. (x - 1)
      BY <3>1
    <3>4. list[x] < list[y] \/ list[y] < list[x]
      BY <1>1, <3>3
    <3> QED
      BY <3>2, <3>4
  <2> QED
    BY <1>2, <2>2, <2>3, <2>4
<1> QED
  BY <1>2, <1>4, <1>5, <1>6

(* The numbers of the header.                                              *)
LEMMA ExportHeader ==
  ASSUME BytesTyped, kind[Root] = "dir"
  PROVE  HeaderOk(Export.header, Export.header.bytes)
<1> DEFINE list == NodesBelow[MaxNodes]
           n == Len(list)
           h == Export.header
<1>1. /\ h.count = n /\ h.leaves = NextPow2(n) /\ h.hashes = 2 * NextPow2(n) - 1
      /\ h.bytes = ImageBytes(h)
  BY ExportParts
<1>2. n \in 1 .. MaxNodes
  BY NodesBelowComplete, ListBounds
<1> HIDE DEF list, n, h
<1>3. n \in 1 .. 16 /\ MaxNodes \in 1 .. 16 /\ NextPow2(MaxNodes) <= MaxLeaves
  BY <1>2, FsImageAssumption
<1>4. NextPow2(n) = IF n = 1 THEN 1 ELSE IF n = 2 THEN 2 ELSE IF n <= 4 THEN 4
                    ELSE IF n <= 8 THEN 8 ELSE 16
  BY <1>3, NextPow2Is
<1>5. NextPow2(MaxNodes) = IF MaxNodes = 1 THEN 1 ELSE IF MaxNodes = 2 THEN 2 ELSE IF MaxNodes <= 4 THEN 4
                           ELSE IF MaxNodes <= 8 THEN 8 ELSE 16
  BY <1>3, NextPow2Is
<1>6. NextPow2(n) \in 1 .. 16 /\ NextPow2(n) >= n /\ NextPow2(n) <= NextPow2(MaxNodes)
  BY <1>2, <1>3, <1>4, <1>5
<1>7. NextPow2(NextPow2(n)) = NextPow2(n)
  <2> DEFINE m == NextPow2(n)
  <2>1. NextPow2(m) = IF m = 1 THEN 1 ELSE IF m = 2 THEN 2 ELSE IF m <= 4 THEN 4
                      ELSE IF m <= 8 THEN 8 ELSE 16
    BY <1>6, NextPow2Is
  <2>2. m \in {1, 2, 4, 8, 16}
    BY <1>3, <1>4
  <2> HIDE DEF m
  <2>3. NextPow2(m) = m
    BY <2>1, <2>2
  <2> QED
    BY <2>3 DEF m
<1>8. NextPow2(n) \in 1 .. MaxLeaves
  BY <1>3, <1>5, <1>6, FsImageAssumption
<1> QED
  BY <1>1, <1>2, <1>6, <1>7, <1>8 DEF HeaderOk, h

(* The records of an export are those of the listed nodes.                 *)
LEMMA ExportList ==
  ASSUME BytesTyped, NEW list, list = NodesBelow[MaxNodes]
  PROVE  /\ list \in Seq(Node) /\ Len(list) \in Nat
         /\ Export.records = [j \in 1 .. Len(list) |-> RecordOf(list[j])]
         /\ Len(Export.records) = Len(list) /\ DOMAIN Export.records = 1 .. Len(list)
<1>1. list \in Seq(Node)
  BY NodesBelowComplete
<1>2. DOMAIN list = 1 .. Len(list) /\ Len(list) \in Nat
  BY <1>1
<1>3. Export.records = [j \in 1 .. Len(list) |-> RecordOf(list[j])]
  BY <1>2, ExportRecords
<1> QED
  BY <1>1, <1>2, <1>3

(* The records of an export, by the list of its nodes.                     *)
LEMMA RecordsOfList ==
  ASSUME BytesTyped, NEW list, list = NodesBelow[MaxNodes], NEW k \in 1 .. Len(list)
  PROVE  /\ list \in Seq(Node) /\ list[k] \in Node /\ kind[list[k]] # "free"
         /\ Export.records[k] = RecordOf(list[k])
<1>1. list \in Seq(Node) /\ \A j \in 1 .. Len(list) : kind[list[j]] # "free"
  BY NodesBelowComplete DEF ListFacts
<1>2. Export.records = [j \in 1 .. Len(list) |-> RecordOf(list[j])]
  BY ExportList
<1> QED
  BY <1>1, <1>2

(* The offsets and the bytes of the records.                               *)
LEMMA ExportPlaces ==
  ASSUME BytesTyped, NEW list, list = NodesBelow[MaxNodes], NEW k \in 1 .. Len(list)
  PROVE  LET n == list[k]
         IN  /\ OffsetOf(n) \in Nat /\ DataSize(n) \in Nat
             /\ OffsetOf(n) = ExpectedOffset(Export.records)[k - 1]
             /\ OffsetOf(n) + DataSize(n) <= Export.header.data
             /\ Bytes(n) = SubSeq(Export.payload, OffsetOf(n) + 1, OffsetOf(n) + DataSize(n))
<1> DEFINE c == PayloadCursor
           n == list[k]
           L == Len(list)
           P == Export.payload
           at == PayloadAfter(list)
<1>1. list \in Seq(Node) /\ n \in Node
  BY RecordsOfList
<1>2. ListFacts(MaxNodes, list, c) /\ c \in [0 .. MaxNodes -> Nat]
  BY NodesBelowComplete, PayloadCursorTyped
<1>3. L \in Nat /\ k - 1 \in 0 .. L /\ L \in 0 .. L /\ k - 1 # L /\ (k - 1) + 1 = k
  BY <1>1
<1>4. \A j \in 0 .. L : PayloadFacts(list, c, j, at[j])
  BY <1>1, <1>2, PayloadComplete
<1>5. P = at[L] /\ P \in Seq({0, 1}) /\ Export.header.data = Len(P)
  <2>1. at \in [0 .. L -> Seq({0, 1})]
    BY <1>1, PayloadTyped
  <2>2. P = at[L] /\ Export.header.data = Len(P)
    BY ExportParts
  <2> QED
    BY <1>3, <2>1, <2>2
<1>6. Len(at[k - 1]) = c[n]
  BY <1>3, <1>4 DEF PayloadFacts
<1>7. /\ c[n] + DataSize(n) <= Len(P)
      /\ \A i \in 1 .. DataSize(n) : c[n] + i \in 1 .. Len(P) /\ P[c[n] + i] = Bytes(n)[i]
  <2>1. PayloadFacts(list, c, L, P)
    BY <1>3, <1>4, <1>5
  <2> QED
    BY <2>1 DEF PayloadFacts
<1>8. OffsetOf(n) = c[n] /\ c[n] \in Nat
  <2>1. n \in 0 .. MaxNodes
    BY <1>1, RuntimeFsAssumption DEF Node
  <2> QED
    BY <1>2, <2>1 DEF OffsetOf
<1>9. /\ DataSize(n) \in Nat
      /\ Bytes(n) \in Seq({0, 1}) /\ Len(Bytes(n)) = DataSize(n)
  BY <1>1, BytesOf
<1>10. ExpectedOffset(Export.records)[k - 1] = Len(at[k - 1])
  <2>1. \A j \in 1 .. L : Export.records[j].bytes = DataSize(list[j])
    BY RecordsOfList, RecordFields
  <2>2. Len(Export.records) = Len(list)
    BY ExportParts
  <2> QED
    BY <1>1, <1>3, <2>1, <2>2, ExpectedIsLength
<1>11. Bytes(n) = SubSeq(P, c[n] + 1, c[n] + DataSize(n))
  <2> DEFINE o == c[n]
             b == DataSize(n)
             s == Bytes(n)
  <2>1. /\ o \in Nat /\ b \in Nat /\ o + b <= Len(P) /\ P \in Seq({0, 1})
        /\ s \in Seq({0, 1}) /\ Len(s) = b
        /\ \A i \in 1 .. b : P[o + i] = s[i]
    BY <1>5, <1>7, <1>8, <1>9
  <2> HIDE DEF o, b, s, P
  <2>2. SubSeq(P, o + 1, o + b) = [i \in 1 .. b |-> P[o + i]]
    BY <2>1
  <2>3. s = [i \in 1 .. b |-> s[i]]
    BY <2>1
  <2>4. s = SubSeq(P, o + 1, o + b)
    BY <2>1, <2>2, <2>3
  <2> QED
    BY <2>4 DEF o, b, s, P
<1> QED
  BY <1>5, <1>6, <1>7, <1>8, <1>9, <1>10, <1>11

(* Every record passes its checks.                                         *)
LEMMA ExportRecordOk ==
  ASSUME FsInv, RootedTree, NEW k \in DOMAIN Export.records
  PROVE  RecordOk(Export, k)
<1>0. NodesTyped /\ BytesTyped
  BY DEF FsInv, TypeOK
<1>1. PICK list : list = NodesBelow[MaxNodes]
  OBVIOUS
<1>2. DOMAIN Export.records = 1 .. Len(list) /\ list \in Seq(Node) /\ Len(list) \in Nat
  BY <1>0, <1>1, ExportList
<1>3. k \in 1 .. Len(list) /\ k \in Nat
  BY <1>2
<1>4. PICK n : n = list[k]
  OBVIOUS
<1>5. n \in Node /\ kind[n] # "free" /\ Export.records[k] = RecordOf(n)
  BY <1>0, <1>1, <1>3, <1>4, RecordsOfList
<1>6. /\ OffsetOf(n) \in Nat /\ DataSize(n) \in Nat
      /\ OffsetOf(n) = ExpectedOffset(Export.records)[k - 1]
      /\ OffsetOf(n) + DataSize(n) <= Export.header.data
      /\ Bytes(n) = SubSeq(Export.payload, OffsetOf(n) + 1, OffsetOf(n) + DataSize(n))
  BY <1>0, <1>1, <1>3, <1>4, ExportPlaces
<1>7. k = 1 => n = Root
  <2>1. kind[Root] = "dir" /\ ListFacts(MaxNodes, list, PayloadCursor)
    BY <1>0, <1>1, NodesBelowComplete DEF RootedTree, RootStays
  <2> QED
    BY <1>2, <1>4, <2>1, ListBounds
<1>8. ASSUME k # 1
      PROVE  n > Export.records[k - 1].node /\ n # Root
  <2>1. k - 1 \in 1 .. Len(list) /\ k - 1 \in 1 .. (k - 1)
    BY <1>2, <1>3, <1>8
  <2>2. list[k - 1] < n
    BY <1>0, <1>1, <1>3, <1>4, <2>1, NodesBelowComplete DEF ListFacts
  <2>3. Export.records[k - 1].node = list[k - 1] /\ list[k - 1] \in Node
    BY <1>0, <1>1, <2>1, RecordsOfList, RecordFields
  <2> QED
    BY <1>5, <2>2, <2>3 DEF Node, Root
<1>9. /\ kind[n] \in {"dir", "reg"}
      /\ DataSize(n) = IF kind[n] = "dir" THEN 0 ELSE size[n]
      /\ size[n] <= Capacity
  BY <1>0, <1>5, RuntimeFsAssumption DEF NodesTyped, BytesTyped, DataSize
<1>10. k = 1 => parent[n] = Root /\ kind[n] = "dir" /\ name[n] = Empty
  BY <1>7 DEF RootedTree, RootStays
<1>11. k # 1 => name[n] # Empty
  BY <1>5, <1>8 DEF RootedTree, TreeInv, Used
<1>12. /\ RecordOf(n).node = n /\ RecordOf(n).type = kind[n] /\ RecordOf(n).parent = parent[n]
       /\ RecordOf(n).size = size[n] /\ RecordOf(n).offset = OffsetOf(n)
       /\ RecordOf(n).bytes = DataSize(n) /\ RecordOf(n).dataHash = Bytes(n)
       /\ RecordOf(n).name.text = name[n] /\ RecordOf(n).objectHash = ObjectHash(RecordOf(n))
  BY RecordFields
<1> QED
  BY <1>5, <1>6, <1>7, <1>8, <1>9, <1>10, <1>11, <1>12 DEF RecordOk

(* The parents of the records lead to the root, and siblings differ.       *)
LEMMA ExportTreeOk ==
  ASSUME FsInv, RootedTree
  PROVE  /\ \A k \in DOMAIN Export.records : ParentOk(Export.records, k)
         /\ SiblingsDiffer(Export.records)
<1> DEFINE records == Export.records
           at(n) == CHOOSE j \in DOMAIN records : records[j].node = n
           nodes == {records[j].node : j \in DOMAIN records}
           up == [n \in nodes |-> records[at(n)].parent]
<1>0. NodesTyped /\ BytesTyped
  BY DEF FsInv, TypeOK
<1>1. PICK list : list = NodesBelow[MaxNodes]
  OBVIOUS
<1>2. DOMAIN records = 1 .. Len(list) /\ list \in Seq(Node) /\ Len(list) \in Nat
  BY <1>0, <1>1, ExportList
<1>3. \A j \in 1 .. Len(list) :
        /\ list[j] \in Node /\ kind[list[j]] # "free" /\ records[j] = RecordOf(list[j])
        /\ records[j].node = list[j] /\ records[j].type = kind[list[j]]
        /\ records[j].parent = parent[list[j]] /\ records[j].name.text = name[list[j]]
  BY <1>0, <1>1, RecordsOfList, RecordFields
<1>4. /\ \A m \in Node : kind[m] # "free" => \E j \in 1 .. Len(list) : list[j] = m
      /\ \A j \in 1 .. Len(list) : \A i \in 1 .. (j - 1) : list[i] < list[j]
  BY <1>0, <1>1, NodesBelowComplete DEF ListFacts, Node
<1> HIDE DEF records
<1>5. nodes = Used
  BY <1>2, <1>3, <1>4 DEF Used
<1>6. \A n \in nodes : records[at(n)].parent = parent[n]
  <2> TAKE n \in nodes
  <2>1. \E j \in DOMAIN records : records[j].node = n
    OBVIOUS
  <2>2. at(n) \in DOMAIN records /\ records[at(n)].node = n
    BY <2>1
  <2> HIDE DEF at
  <2> QED
    BY <1>2, <1>3, <2>2
<1>7. up = [n \in Used |-> parent[n]]
  <2> HIDE DEF at, nodes
  <2> QED
    BY <1>5, <1>6
<1>8. PICK rank : RanksFall(rank)
  BY DEF RootedTree, TreeInv
<1>9. /\ kind[Root] = "dir" /\ parent[Root] = Root /\ Root \in Used
      /\ \A n \in Used \ {Root} : kind[parent[n]] = "dir"
  BY <1>8, NoneIsNoNode DEF RootedTree, RootStays, RanksFall, Holds, Used
<1>10. \A n \in Used : parent[n] \in Used /\ kind[parent[n]] = "dir"
  BY <1>0, <1>9, NoneIsNoNode DEF NodesTyped, Used
<1>11. \A k \in DOMAIN records : records[k].node \in Used /\ records[k].parent = parent[records[k].node]
  BY <1>2, <1>3 DEF Used
<1> HIDE DEF at, nodes, up
<1>12. ASSUME NEW k \in DOMAIN records
       PROVE  ParentIsDirectory(records, k)
  <2> DEFINE m == parent[records[k].node]
  <2>1. m \in Used /\ kind[m] = "dir" /\ records[k].parent = m
    BY <1>10, <1>11
  <2> HIDE DEF m
  <2>2. PICK j \in 1 .. Len(list) : list[j] = m
    BY <1>4, <2>1 DEF Used
  <2>3. j \in DOMAIN records /\ records[j].node = records[k].parent /\ records[j].type = "dir"
    BY <1>2, <1>3, <2>1, <2>2
  <2> QED
    BY <2>3 DEF ParentIsDirectory
<1>13. \A j \in DOMAIN records : records[j].parent \in nodes
  BY <1>5, <1>10, <1>11
<1>14. ASSUME NEW k \in DOMAIN records
       PROVE  Walk(records[k].node, up, MaxNodes) = Root
  <2> DEFINE d == records[k].node
             climb == CHOOSE g : g = [i \in 0 .. MaxNodes |->
                        IF i = 0 THEN d ELSE IF g[i - 1] = Root THEN Root ELSE up[g[i - 1]]]
  <2>1. d \in Used /\ MaxNodes \in Nat /\ MaxNodes >= MaxNodes - 1
    BY <1>11, RuntimeFsAssumption
  <2>2. up \in [Used -> Used]
    BY <1>7, <1>10
  <2>3. Walk(d, up, MaxNodes) = climb[MaxNodes]
    BY DEF Walk
  <2> HIDE DEF d
  <2>4. IsClimb(climb, Used, up, d, MaxNodes)
    BY <1>9, <2>1, <2>2, ClimbTyped
  <2> HIDE DEF climb
  <2>5. IsClimb(climb, Node, parent, d, MaxNodes)
    <3>1. /\ climb \in [0 .. MaxNodes -> Used] /\ climb[0] = d
          /\ \A i \in 1 .. MaxNodes : climb[i] = IF climb[i - 1] = Root THEN Root ELSE up[climb[i - 1]]
      BY <2>4 DEF IsClimb
    <3>2. \A i \in 1 .. MaxNodes : up[climb[i - 1]] = parent[climb[i - 1]]
      <4> TAKE i \in 1 .. MaxNodes
      <4>1. i - 1 \in 0 .. MaxNodes
        BY <2>1
      <4>2. climb[i - 1] \in Used
        BY <3>1, <4>1
      <4> QED
        BY <1>7, <4>2
    <3>3. climb \in [0 .. MaxNodes -> Node]
      BY <3>1 DEF Used
    <3> QED
      BY <3>1, <3>2, <3>3 DEF IsClimb
  <2>6. climb[MaxNodes] = Root
    BY <1>0, <1>8, <1>9, <2>1, <2>5, ClimbEnds
  <2> QED
    BY <2>3, <2>6 DEF d
<1>15. \A k \in DOMAIN records : ParentOk(records, k)
  BY <1>12, <1>13, <1>14 DEF ParentOk, up, at, nodes
<1>16. SiblingsDiffer(records)
  <2> SUFFICES ASSUME NEW j \in DOMAIN records, NEW k \in DOMAIN records, j < k,
                      records[j].parent = records[k].parent,
                      records[j].name.text = records[k].name.text
               PROVE  FALSE
    BY DEF SiblingsDiffer, NameEquals
  <2>1. j \in 1 .. Len(list) /\ k \in 1 .. Len(list) /\ j \in 1 .. (k - 1)
    BY <1>2
  <2>2. list[j] < list[k] /\ list[j] \in Nat /\ list[k] \in Nat
    BY <1>3, <1>4, <2>1, NoneIsNoNode
  <2>3. list[j] # list[k] /\ list[k] # Root
    BY <2>2 DEF Root
  <2>4. list[j] = Root \/ list[j] \in Used \ {Root}
    BY <1>3, <2>1 DEF Used
  <2>5. /\ list[k] \in Used \ {Root}
        /\ parent[list[j]] = parent[list[k]] /\ name[list[j]] = name[list[k]]
    BY <1>3, <2>1, <2>3 DEF Used
  <2>6. list[j] # Root
    BY <2>5 DEF RootedTree, RootStays, TreeInv
  <2> QED
    BY <2>3, <2>4, <2>5, <2>6 DEF RootedTree, RootStays, TreeInv
<1> QED
  BY <1>15, <1>16 DEF records

(* So an export validates, and its import is the file system.              *)
LEMMA ExportValidates ==
  ASSUME FsInv, RootedTree
  PROVE  Validate(Export, Export.header.bytes)
<1>0. NodesTyped /\ BytesTyped /\ kind[Root] = "dir"
  BY DEF FsInv, TypeOK, RootedTree, RootStays
<1>1. PICK list : list = NodesBelow[MaxNodes]
  OBVIOUS
<1>2. /\ Len(Export.records) = Len(list) /\ DOMAIN Export.records = 1 .. Len(list)
      /\ Export.payload = PayloadAfter(list)[Len(list)] /\ Export.header.data = Len(Export.payload)
      /\ Export.header.leaves = NextPow2(Len(list)) /\ Export.header.root = Export.hash[0]
      /\ Export.hash = TreeHashes([k \in DOMAIN Export.records |-> Export.records[k].objectHash],
                                  NextPow2(Len(list)))
  BY <1>0, <1>1, ExportParts
<1>3. HeaderOk(Export.header, Export.header.bytes)
  BY <1>0, ExportHeader
<1>4. \A k \in DOMAIN Export.records : RecordOk(Export, k)
  BY ExportRecordOk
<1>5. ExpectedOffset(Export.records)[Len(Export.records)] = Export.header.data
  <2>1. list \in Seq(Node)
    BY <1>0, <1>1, NodesBelowComplete
  <2>2. \A j \in 1 .. Len(list) : Export.records[j].bytes = DataSize(list[j])
    BY <1>0, <1>1, RecordsOfList, RecordFields
  <2>3. Len(list) \in 0 .. Len(list)
    BY <2>1
  <2> QED
    BY <1>0, <1>2, <2>1, <2>2, <2>3, ExpectedIsLength
<1>6. TreeOk(Export)
  BY <1>2 DEF TreeOk, TreeOkBelowRoot
<1> QED
  BY <1>3, <1>4, <1>5, <1>6, ExportTreeOk DEF Validate

-----------------------------------------------------------------------------
(* An image that validates imports as a valid file system.                 *)

(* Two climbs from the same node along parents that agree are the same.    *)
LEMMA ClimbUnique ==
  ASSUME NEW S, NEW up, NEW T, NEW up2, \A n \in S : up[n] = up2[n], NEW d, NEW N \in Nat,
         NEW at, IsClimb(at, S, up, d, N), NEW at2, IsClimb(at2, T, up2, d, N)
  PROVE  at[N] = at2[N]
<1>1. /\ at \in [0 .. N -> S] /\ at[0] = d
      /\ \A k \in 1 .. N : at[k] = IF at[k - 1] = Root THEN Root ELSE up[at[k - 1]]
  BY DEF IsClimb
<1>2. /\ at2[0] = d
      /\ \A k \in 1 .. N : at2[k] = IF at2[k - 1] = Root THEN Root ELSE up2[at2[k - 1]]
  BY DEF IsClimb
<1> DEFINE D == {k \in Nat : k <= N => at[k] = at2[k]}
<1>3. 0 \in D
  BY <1>1, <1>2
<1>4. ASSUME NEW k \in Nat, k \in D PROVE k + 1 \in D
  <2>1. SUFFICES ASSUME k + 1 <= N PROVE at[k + 1] = at2[k + 1]
    OBVIOUS
  <2>2. k \in 0 .. N /\ k + 1 \in 1 .. N /\ (k + 1) - 1 = k /\ k <= N
    BY <2>1
  <2>3. at[k] = at2[k] /\ at[k] \in S
    BY <1>1, <1>4, <2>2
  <2>4. at[k + 1] = IF at[k] = Root THEN Root ELSE up[at[k]]
    BY <1>1, <2>2
  <2>5. at2[k + 1] = IF at2[k] = Root THEN Root ELSE up2[at2[k]]
    BY <1>2, <2>2
  <2> QED
    BY <2>3, <2>4, <2>5
<1>5. Nat \subseteq D
  <2> HIDE DEF D
  <2> QED
    BY <1>3, <1>4, NatSetInduction
<1> QED
  BY <1>5

(* The nodes of records that pass their checks are in order.               *)
LEMMA NodesInOrder ==
  ASSUME NEW image, NEW L \in Nat, DOMAIN image.records = 1 .. L,
         \A k \in 1 .. L : RecordOk(image, k)
  PROVE  \A j \in 1 .. L : \A i \in 1 .. (j - 1) : image.records[i].node < image.records[j].node
<1> DEFINE r == image.records
           D == {j \in Nat : j \in 1 .. L => \A i \in 1 .. (j - 1) : r[i].node < r[j].node}
<1>1. /\ \A k \in 1 .. L : r[k].node \in Nat
      /\ \A k \in 1 .. L : k # 1 => r[k].node > r[k - 1].node
  BY NoneIsNoNode DEF RecordOk
<1> HIDE DEF r
<1>2. 0 \in D
  OBVIOUS
<1>3. ASSUME NEW j \in Nat, j \in D PROVE j + 1 \in D
  <2>1. SUFFICES ASSUME j + 1 \in 1 .. L, NEW i \in 1 .. j PROVE r[i].node < r[j + 1].node
    OBVIOUS
  <2>2. j \in 1 .. L /\ i \in 1 .. L /\ j + 1 # 1 /\ (j + 1) - 1 = j
    BY <2>1
  <2>3. r[j + 1].node > r[j].node
    BY <1>1, <2>1, <2>2
  <2>4. r[i].node \in Nat /\ r[j].node \in Nat /\ r[j + 1].node \in Nat
    BY <1>1, <2>1, <2>2
  <2>5. i = j \/ i \in 1 .. (j - 1)
    OBVIOUS
  <2>6. i \in 1 .. (j - 1) => r[i].node < r[j].node
    BY <1>3, <2>2
  <2> QED
    BY <2>3, <2>4, <2>5, <2>6
<1>4. Nat \subseteq D
  <2> HIDE DEF D
  <2> QED
    BY <1>2, <1>3, NatSetInduction
<1> QED
  BY <1>4 DEF r

(* What runtime_fs_image_validate accepts is what runtime_fs_validate      *)
(* accepts after the import, whatever the image, but for names that the    *)
(* import makes the same.                                                  *)
LEMMA ImportIsValid ==
  ASSUME NEW image, NEW b, Validate(image, b),
         NEW L \in Nat, DOMAIN image.records = 1 .. L, image.header.count = L
  PROVE  ValidNodes(Imported(image)) <=> ~NamesCollide(image.records)
<1> DEFINE records == image.records
           t == Imported(image)
           at(n) == CHOOSE k \in DOMAIN records : records[k].node = n
           nodes == {records[k].node : k \in DOMAIN records}
           up == [n \in nodes |-> records[at(n)].parent]
           in(n) == \E k \in DOMAIN records : records[k].node = n
<1>1. /\ \A k \in 1 .. L : RecordOk(image, k)
      /\ \A k \in 1 .. L : ParentOk(records, k)
      /\ DOMAIN records = 1 .. L
  BY DEF Validate
<1>2. 1 \in 1 .. L
  BY RuntimeFsAssumption DEF Validate, HeaderOk
<1>3. \A j \in 1 .. L : \A i \in 1 .. (j - 1) : records[i].node < records[j].node
  BY <1>1, NodesInOrder
<1>4. /\ \A k \in 1 .. L : records[k].node \in Node /\ records[k].size <= Capacity
      /\ \A k \in 1 .. L : k # 1 => records[k].name.text # Empty
      /\ records[1].node = Root /\ records[1].parent = Root /\ records[1].type = "dir"
      /\ records[1].name.text = Empty
      /\ \A k \in 1 .. L : records[k].type # "free"
  BY <1>1, <1>2 DEF RecordOk
<1>5. \A i, j \in 1 .. L : records[i].node = records[j].node => i = j
  <2> TAKE i, j \in 1 .. L
  <2>1. i = j \/ i \in 1 .. (j - 1) \/ j \in 1 .. (i - 1)
    OBVIOUS
  <2>2. records[i].node \in Nat /\ records[j].node \in Nat
    BY <1>4, NoneIsNoNode
  <2> QED
    BY <1>3, <2>1, <2>2
<1>6. /\ t.kind = [n \in Node |-> IF in(n) THEN records[at(n)].type ELSE "free"]
      /\ t.parent = [n \in Node |-> IF in(n) THEN records[at(n)].parent ELSE Root]
      /\ t.name = [n \in Node |-> IF in(n) THEN records[at(n)].name.text ELSE Empty]
      /\ t.size = [n \in Node |-> IF in(n) THEN records[at(n)].size ELSE 0]
  BY DEF Imported
<1>7. ASSUME NEW k \in 1 .. L
      PROVE  in(records[k].node) /\ at(records[k].node) = k
  <2> DEFINE n == records[k].node
  <2>1. in(n)
    BY <1>1
  <2>2. at(n) \in DOMAIN records /\ records[at(n)].node = n
    BY <2>1
  <2> HIDE DEF at
  <2> QED
    BY <1>1, <1>5, <2>1, <2>2
<1>8. ASSUME NEW k \in 1 .. L, NEW n, n = records[k].node
      PROVE  /\ n \in Node /\ t.kind[n] = records[k].type /\ t.parent[n] = records[k].parent
             /\ t.name[n] = records[k].name.text /\ t.size[n] = records[k].size
             /\ n \in nodes /\ up[n] = records[k].parent
  <2>1. n \in Node /\ in(n) /\ at(n) = k
    BY <1>4, <1>7, <1>8
  <2>2. n \in nodes
    BY <1>1, <1>8
  <2> HIDE DEF at, in, t
  <2> QED
    BY <1>6, <2>1, <2>2
<1>9. \A k \in 1 .. L :
        /\ \E j \in 1 .. L : records[j].node = records[k].parent /\ records[j].type = "dir"
        /\ records[k].parent \in nodes
        /\ Walk(records[k].node, up, MaxNodes) = Root
  <2> TAKE k \in 1 .. L
  <2>1. ParentOk(records, k)
    BY <1>1
  <2>2. ParentIsDirectory(records, k) /\ Walk(records[k].node, up, MaxNodes) = Root
        /\ \A j \in DOMAIN records : records[j].parent \in nodes
    BY <2>1 DEF ParentOk
  <2> HIDE DEF up, nodes
  <2> QED
    BY <1>1, <2>2 DEF ParentIsDirectory
<1>10. nodes \subseteq Node /\ Root \in nodes /\ \A n \in nodes : \E k \in 1 .. L : n = records[k].node
  BY <1>1, <1>2, <1>4
<1> HIDE DEF at, in, t, nodes, up
<1>11. \A n \in Node : t.kind[n] # "free" => n \in nodes
  BY <1>6 DEF in, nodes
<1>12. \A n \in nodes : up[n] \in nodes /\ up[n] = t.parent[n]
  <2> TAKE n \in nodes
  <2>1. PICK k \in 1 .. L : n = records[k].node
    BY <1>10
  <2>2. up[n] = records[k].parent /\ t.parent[n] = records[k].parent
    BY <1>8, <2>1
  <2>3. records[k].parent \in nodes
    BY <1>9
  <2> QED
    BY <2>2, <2>3
<1>13. t.parent \in [Node -> Node]
  <2>1. \A n \in Node : ~in(n) => t.parent[n] = Root
    BY <1>6
  <2>2. \A n \in Node : in(n) => n \in nodes
    BY DEF in, nodes
  <2>3. \A n \in Node : t.parent[n] \in Node
    BY <1>10, <1>12, <2>1, <2>2, NoneIsNoNode
  <2> QED
    BY <1>6, <2>3
<1>14. up \in [nodes -> nodes]
  BY <1>12 DEF up
<1>15. ASSUME NEW n \in nodes, NEW N \in Nat
       PROVE  \E climb, climb2 :
                /\ IsClimb(climb, nodes, up, n, N) /\ Walk(n, up, N) = climb[N]
                /\ IsClimb(climb2, Node, t.parent, n, N) /\ Walk(n, t.parent, N) = climb2[N]
  <2> DEFINE climb == CHOOSE g : g = [i \in 0 .. N |->
                        IF i = 0 THEN n ELSE IF g[i - 1] = Root THEN Root ELSE up[g[i - 1]]]
             climb2 == CHOOSE g : g = [i \in 0 .. N |->
                        IF i = 0 THEN n ELSE IF g[i - 1] = Root THEN Root ELSE t.parent[g[i - 1]]]
  <2>1. Walk(n, up, N) = climb[N] /\ Walk(n, t.parent, N) = climb2[N]
    BY DEF Walk
  <2>2. IsClimb(climb, nodes, up, n, N)
    BY <1>10, <1>14, ClimbTyped
  <2>3. IsClimb(climb2, Node, t.parent, n, N)
    <3>1. Root \in Node /\ n \in Node
      BY <1>10
    <3> QED
      BY <1>13, <3>1, ClimbTyped
  <2> HIDE DEF climb, climb2
  <2> QED
    BY <2>1, <2>2, <2>3
<1>16. ASSUME NEW n \in nodes, NEW N \in Nat
       PROVE  Walk(n, t.parent, N) = Walk(n, up, N) /\ Walk(n, up, N) \in nodes
  <2>1. PICK climb, climb2 :
                /\ IsClimb(climb, nodes, up, n, N) /\ Walk(n, up, N) = climb[N]
                /\ IsClimb(climb2, Node, t.parent, n, N) /\ Walk(n, t.parent, N) = climb2[N]
    BY <1>15
  <2>2. climb[N] = climb2[N]
    BY <1>12, <2>1, ClimbUnique
  <2>3. climb[N] \in nodes
    BY <2>1 DEF IsClimb
  <2> QED
    BY <2>1, <2>2, <2>3
<1>17. ASSUME ~NamesCollide(records), NEW n \in Node \ {Root}, t.kind[n] # "free"
       PROVE  ValidNode(t, n)
  <2>1. n \in nodes
    BY <1>11, <1>17
  <2>2. PICK k \in 1 .. L : n = records[k].node
    BY <1>10, <2>1
  <2>3. k # 1
    BY <1>4, <1>17, <2>2
  <2>4. t.name[n] # Empty /\ t.size[n] <= Capacity
    BY <1>4, <1>8, <2>2, <2>3
  <2>5. t.parent[n] \in Node /\ t.kind[t.parent[n]] = "dir"
    <3>1. PICK j \in 1 .. L : records[j].node = records[k].parent /\ records[j].type = "dir"
      BY <1>9
    <3> QED
      BY <1>8, <2>2, <3>1
  <2>6. Walk(n, t.parent, MaxNodes) = Root
    <3>1. MaxNodes \in Nat
      BY RuntimeFsAssumption
    <3> QED
      BY <1>9, <1>16, <2>1, <2>2, <3>1
  <2>7. \A depth \in 1 .. MaxNodes : t.kind[Walk(n, t.parent, depth)] # "free"
    <3> TAKE depth \in 1 .. MaxNodes
    <3>1. Walk(n, t.parent, depth) \in nodes
      <4>1. depth \in Nat
        OBVIOUS
      <4> QED
        BY <1>16, <2>1, <4>1
    <3>2. PICK j \in 1 .. L : Walk(n, t.parent, depth) = records[j].node
      BY <1>10, <3>1
    <3> QED
      BY <1>4, <1>8, <3>2
  <2>8. \A peer \in (n + 1) .. (MaxNodes - 1) :
          t.kind[peer] # "free" /\ t.parent[peer] = t.parent[n] => t.name[peer] # t.name[n]
    <3> TAKE peer \in (n + 1) .. (MaxNodes - 1)
    <3> HAVE t.kind[peer] # "free" /\ t.parent[peer] = t.parent[n]
    <3>1. peer \in Node /\ peer # n
      BY RuntimeFsAssumption DEF Node
    <3>2. PICK j \in 1 .. L : peer = records[j].node
      BY <1>10, <1>11, <3>1
    <3>3. j # k /\ (j < k \/ k < j)
      BY <2>2, <3>1, <3>2
    <3>4. records[j].parent = records[k].parent
      BY <1>8, <2>2, <3>2
    <3>5. records[j].name.text # records[k].name.text
      BY <1>1, <1>17, <3>3, <3>4 DEF NamesCollide
    <3> QED
      BY <1>8, <2>2, <3>2, <3>5
  <2> QED
    BY <2>4, <2>5, <2>6, <2>7, <2>8 DEF ValidNode
<1>18. t.kind[Root] = "dir" /\ t.parent[Root] = Root /\ t.name[Root] = Empty
  BY <1>2, <1>4, <1>8
<1>19. ~NamesCollide(records) => ValidNodes(t)
  BY <1>17, <1>18 DEF ValidNodes
<1>20. ASSUME NamesCollide(records) PROVE ~ValidNodes(t)
  <2>1. PICK i, j \in 1 .. L : /\ i < j /\ records[i].parent = records[j].parent
                              /\ records[i].name.text = records[j].name.text
    <3>1. PICK i, j \in 1 .. L : /\ i # j /\ records[i].parent = records[j].parent
                                /\ records[i].name.text = records[j].name.text
      BY <1>1, <1>20 DEF NamesCollide
    <3>2. i < j \/ j < i
      BY <3>1
    <3> QED
      BY <3>1, <3>2
  <2>2. PICK n, peer : n = records[i].node /\ peer = records[j].node
    OBVIOUS
  <2>3. n \in Node /\ peer \in Node /\ n < peer
    <3>1. i \in 1 .. (j - 1)
      BY <2>1
    <3> QED
      BY <1>3, <1>4, <2>2, <3>1
  <2>4. n # Root
    BY <1>2, <1>4, <1>5, <2>1, <2>2
  <2>5. /\ t.kind[n] # "free" /\ t.kind[peer] # "free"
        /\ t.parent[peer] = t.parent[n] /\ t.name[peer] = t.name[n]
    BY <1>4, <1>8, <2>1, <2>2
  <2>6. peer \in (n + 1) .. (MaxNodes - 1)
    BY <2>3, RuntimeFsAssumption DEF Node
  <2>7. ~ValidNode(t, n)
    BY <2>5, <2>6 DEF ValidNode
  <2> QED
    BY <2>3, <2>4, <2>5, <2>7 DEF ValidNodes
<1> QED
  BY <1>19, <1>20 DEF t, records

(* An edited list of records differs in one field of one record.           *)
LEMMA EditedRecords ==
  ASSUME NEW image, NEW records \in Edited(image)
  PROVE  /\ records # image.records
         /\ \E k \in DOMAIN image.records, field \in DOMAIN FieldValues :
              \E v \in FieldValues[field] : records = [image.records EXCEPT ![k][field] = v]
<1> DEFINE S(k, field) == {[image.records EXCEPT ![k][field] = v] : v \in FieldValues[field]}
           T(k) == UNION {S(k, field) : field \in DOMAIN FieldValues}
           U == UNION {T(k) : k \in DOMAIN image.records}
<1>1. Edited(image) = U \ {image.records}
  BY DEF Edited
<1>2. records \in U /\ records # image.records
  <2> HIDE DEF U
  <2> QED
    BY <1>1
<1>3. PICK k \in DOMAIN image.records : records \in T(k)
  <2> HIDE DEF T
  <2> QED
    BY <1>2
<1>4. PICK field \in DOMAIN FieldValues : records \in S(k, field)
  <2> HIDE DEF S
  <2> QED
    BY <1>3
<1>5. \E v \in FieldValues[field] : records = [image.records EXCEPT ![k][field] = v]
  BY <1>4
<1> QED
  BY <1>2, <1>3, <1>4, <1>5

(* An edited image with fitting hashes is refused or imports as a valid    *)
(* file system, but for names that the import makes the same.              *)
LEMMA EditedIsValid ==
  ASSUME BytesTyped
  PROVE  AcceptedIsValid
<1> SUFFICES ASSUME NEW records \in Edited(Export),
                    NEW resealed,
                    resealed = [k \in DOMAIN records |->
                                 [records[k] EXCEPT !.objectHash = ObjectHash(records[k])]],
                    NEW image, image = Sealed(resealed, Export.payload),
                    Validate(image, image.header.bytes)
             PROVE  ValidNodes(Imported(image)) <=> ~NamesCollide(image.records)
  BY DEF AcceptedIsValid
<1>1. PICK L \in Nat : DOMAIN Export.records = 1 .. L
  BY ExportList
<1>2. DOMAIN records = 1 .. L
  BY <1>1, EditedRecords
<1>3. DOMAIN resealed = 1 .. L /\ Len(resealed) = L
  BY <1>2
<1>4. image.records = resealed /\ image.header.count = Len(resealed)
  BY DEF Sealed
<1> QED
  BY <1>3, <1>4, ImportIsValid

-----------------------------------------------------------------------------
(* A damaged image is refused.                                             *)

(* The hashes of a tree are what the definition says, from the leaves up.  *)
LEMMA TreeHashesAre ==
  ASSUME NEW leaves \in Nat \ {0}, NEW leaf
  PROVE  TreeHashes(leaf, leaves) =
           [i \in 0 .. (2 * leaves - 2) |->
              IF i >= leaves - 1
              THEN LET k == i - (leaves - 1) + 1
                   IN  IF k <= Len(leaf) THEN leaf[k] ELSE EmptyHash
              ELSE <<TreeHashes(leaf, leaves)[2 * i + 1], TreeHashes(leaf, leaves)[2 * i + 2]>>]
<1> DEFINE M == 0 .. (2 * leaves - 2)
           low(i) == LET k == i - (leaves - 1) + 1
                     IN  IF k <= Len(leaf) THEN leaf[k] ELSE EmptyHash
           Upto(n, g) == g = [i \in M |-> IF i >= leaves - 1 THEN low(i)
                                          ELSE IF i + n >= leaves - 1 THEN <<g[2 * i + 1], g[2 * i + 2]>>
                                          ELSE 0]
           D == {n \in Nat : n <= leaves - 1 => \E g : Upto(n, g)}
<1> HIDE DEF low
<1>1. 0 \in D
  <2> DEFINE g == [i \in M |-> IF i >= leaves - 1 THEN low(i) ELSE 0]
  <2>1. \A i \in M : ~(i >= leaves - 1) => ~(i + 0 >= leaves - 1)
    OBVIOUS
  <2>2. Upto(0, g)
    BY <2>1
  <2> HIDE DEF g
  <2> QED
    BY <2>2
<1>2. ASSUME NEW n \in Nat, n \in D PROVE n + 1 \in D
  <2> SUFFICES ASSUME n + 1 <= leaves - 1 PROVE \E g : Upto(n + 1, g)
    OBVIOUS
  <2>1. PICK g : Upto(n, g)
    BY <1>2
  <2>2. PICK j \in Nat : j + (n + 1) = leaves - 1
    <3>1. leaves - 1 - (n + 1) \in Nat
      OBVIOUS
    <3> QED
      BY <3>1
  <2>3. j \in M /\ ~(j >= leaves - 1)
    BY <2>2
  <2>4. PICK f : f = [i \in M |-> IF i = j THEN <<g[2 * j + 1], g[2 * j + 2]>> ELSE g[i]]
    OBVIOUS
  <2>5. \A i \in M : i + (n + 1) >= leaves - 1 /\ ~(i >= leaves - 1) =>
          /\ 2 * i + 1 \in M /\ 2 * i + 2 \in M /\ 2 * i + 1 # j /\ 2 * i + 2 # j
          /\ i = j \/ i + n >= leaves - 1
    BY <2>2
  <2>6. ASSUME NEW i \in M
        PROVE  f[i] = IF i >= leaves - 1 THEN low(i)
                      ELSE IF i + (n + 1) >= leaves - 1 THEN <<f[2 * i + 1], f[2 * i + 2]>> ELSE 0
    <3>1. CASE i >= leaves - 1
      BY <2>1, <2>3, <2>4, <3>1
    <3>2. CASE ~(i >= leaves - 1) /\ i + (n + 1) >= leaves - 1
      <4>1. 2 * i + 1 \in M /\ 2 * i + 2 \in M /\ 2 * i + 1 # j /\ 2 * i + 2 # j
        BY <2>5, <3>2
      <4>2. f[2 * i + 1] = g[2 * i + 1] /\ f[2 * i + 2] = g[2 * i + 2]
        BY <2>4, <4>1
      <4>3. CASE i = j
        BY <2>4, <3>2, <4>2, <4>3
      <4>4. CASE i # j
        <5>1. i + n >= leaves - 1
          BY <2>5, <3>2, <4>4
        <5>2. f[i] = g[i] /\ g[i] = <<g[2 * i + 1], g[2 * i + 2]>>
          BY <2>1, <2>4, <3>2, <4>4, <5>1
        <5> QED
          BY <3>2, <4>2, <5>2
      <4> QED
        BY <4>3, <4>4
    <3>3. CASE ~(i >= leaves - 1) /\ ~(i + (n + 1) >= leaves - 1)
      <4>1. i # j /\ ~(i + n >= leaves - 1)
        BY <2>2, <3>3
      <4> QED
        BY <2>1, <2>4, <3>3, <4>1
    <3> QED
      BY <3>1, <3>2, <3>3
  <2>7. f = [i \in M |-> f[i]]
    BY <2>4
  <2>8. Upto(n + 1, f)
    <3> HIDE DEF M
    <3> QED
      BY <2>6, <2>7
  <2> QED
    BY <2>8
<1>3. Nat \subseteq D
  <2> HIDE DEF D
  <2> QED
    BY <1>1, <1>2, NatSetInduction
<1>4. PICK g : Upto(leaves - 1, g)
  <2>1. leaves - 1 \in Nat /\ leaves - 1 <= leaves - 1
    OBVIOUS
  <2> QED
    BY <1>3, <2>1
<1>5. g = [i \in M |-> IF i >= leaves - 1 THEN low(i) ELSE <<g[2 * i + 1], g[2 * i + 2]>>]
  <2>1. \A i \in M : i + (leaves - 1) >= leaves - 1
    OBVIOUS
  <2> QED
    BY <1>4, <2>1
<1>6. TreeHashes(leaf, leaves) =
        CHOOSE h : h = [i \in M |-> IF i >= leaves - 1 THEN low(i) ELSE <<h[2 * i + 1], h[2 * i + 2]>>]
  BY DEF TreeHashes, low
<1> DEFINE P(h) == h = [i \in M |-> IF i >= leaves - 1 THEN low(i) ELSE <<h[2 * i + 1], h[2 * i + 2]>>]
<1>7. P(TreeHashes(leaf, leaves))
  <2>1. P(g)
    BY <1>5
  <2>2. TreeHashes(leaf, leaves) = CHOOSE h : P(h)
    BY <1>6
  <2> HIDE DEF P
  <2> QED
    BY <2>1, <2>2
<1> QED
  BY <1>7 DEF low

(* No hash of a tree over the hashes of records is a sequence of one.      *)
LEMMA HashesNotOne ==
  ASSUME NEW leaves \in Nat \ {0}, NEW leaf, Len(leaf) \in Nat,
         \A k \in 1 .. Len(leaf) : leaf[k] # << 2 >>
  PROVE  /\ DOMAIN TreeHashes(leaf, leaves) = 0 .. (2 * leaves - 2)
         /\ \A i \in 0 .. (2 * leaves - 2) : TreeHashes(leaf, leaves)[i] # <<2>>
<1>1. PICK h : h = TreeHashes(leaf, leaves)
  OBVIOUS
<1>2. h = [i \in 0 .. (2 * leaves - 2) |->
             IF i >= leaves - 1
             THEN LET k == i - (leaves - 1) + 1
                  IN  IF k <= Len(leaf) THEN leaf[k] ELSE EmptyHash
             ELSE <<h[2 * i + 1], h[2 * i + 2]>>]
  BY <1>1, TreeHashesAre
<1>3. ASSUME NEW i \in 0 .. (2 * leaves - 2) PROVE h[i] # <<2>>
  <2>1. CASE i >= leaves - 1
    <3>1. PICK k \in Nat \ {0} : k = i - (leaves - 1) + 1
      BY <2>1
    <3>2. h[i] = IF k <= Len(leaf) THEN leaf[k] ELSE EmptyHash
      BY <1>2, <2>1, <3>1
    <3>3. EmptyHash # <<2>>
      <4>1. Len(EmptyHash) = 0 /\ Len(<<2>>) = 1
        BY DEF EmptyHash
      <4> QED
        BY <4>1
    <3>4. CASE k <= Len(leaf)
      <4>1. k \in 1 .. Len(leaf) /\ h[i] = leaf[k]
        BY <3>2, <3>4
      <4> QED
        BY <4>1, Zenon
    <3>5. CASE ~(k <= Len(leaf))
      BY <3>2, <3>3, <3>5
    <3> QED
      BY <3>4, <3>5
  <2>2. CASE ~(i >= leaves - 1)
    <3>1. PICK a, b : h[i] = <<a, b>>
      BY <1>2, <2>2
    <3>2. Len(<<a, b>>) = 2 /\ Len(<<2>>) = 1
      OBVIOUS
    <3> QED
      BY <3>1, <3>2
  <2> QED
    BY <2>1, <2>2
<1> QED
  BY <1>1, <1>2, <1>3

(* The hash of a record is no sequence of one.                             *)
LEMMA ObjectHashNotOne == \A r : ObjectHash(r) # <<2>>
<1> TAKE r
<1>1. Len(ObjectHash(r)) = 10 /\ Len(<<2>>) = 1
  BY DEF ObjectHash
<1> QED
  BY <1>1

(* An export by its four parts.                                            *)
LEMMA ExportShape ==
  Export = [header |-> Export.header, records |-> Export.records,
            hash |-> Export.hash, payload |-> Export.payload]
BY DEF Export, Sealed

(* Its header by its six numbers.                                          *)
LEMMA HeaderShape ==
  DOMAIN Export.header = {"count", "leaves", "hashes", "data", "root", "bytes"}
<1>1. \A records, payload : DOMAIN Sealed(records, payload).header
                               = {"count", "leaves", "hashes", "data", "root", "bytes"}
  BY DEF Sealed
<1>2. PICK records, payload : Export = Sealed(records, payload)
  BY DEF Export
<1> QED
  BY <1>1, <1>2

(* An edited field does not fit the hash of its record.                    *)
LEMMA RecordDamage ==
  ASSUME NEW n, NEW field \in DOMAIN FieldValues, NEW v \in FieldValues[field],
         NEW r, r = [RecordOf(n) EXCEPT ![field] = v], r # RecordOf(n)
  PROVE  r.objectHash # ObjectHash(r)
<1>1. PICK o : o = RecordOf(n)
  OBVIOUS
<1>2. o.objectHash = ObjectHash(o)
  BY <1>1, RecordFields
<1>3. DOMAIN o = {"node", "type", "parent", "owner", "mode", "size", "offset", "bytes",
                  "dataHash", "name", "objectHash"}
  BY <1>1 DEF RecordOf
<1>4. field \in DOMAIN o
  BY <1>3 DEF FieldValues
<1>5. CASE field = "objectHash"
  <2>1. v = <<2>>
    BY <1>5 DEF FieldValues
  <2>2. r.objectHash = <<2>>
    BY <1>1, <1>4, <1>5, <2>1
  <2> QED
    BY <2>2, ObjectHashNotOne
<1>6. CASE field # "objectHash"
  <2> SUFFICES ASSUME r.objectHash = ObjectHash(r) PROVE FALSE
    OBVIOUS
  <2>1. r.objectHash = o.objectHash
    BY <1>1, <1>3, <1>6
  <2>2. ObjectHash(r) = ObjectHash(o)
    BY <1>2, <2>1
  <2>3. /\ r.node = o.node /\ r.type = o.type /\ r.parent = o.parent /\ r.owner = o.owner
        /\ r.mode = o.mode /\ r.size = o.size /\ r.offset = o.offset /\ r.bytes = o.bytes
        /\ r.dataHash = o.dataHash /\ r.name = o.name
    BY <2>2 DEF ObjectHash
  <2>4. r[field] = o[field]
    BY <1>3, <1>4, <1>6, <2>3
  <2>5. r = [o EXCEPT ![field] = v]
    BY <1>1
  <2>6. v = o[field]
    BY <1>4, <2>4, <2>5
  <2>7. [o EXCEPT ![field] = v] = o
    <3>1. o = [x \in DOMAIN o |-> o[x]]
      BY <1>1 DEF RecordOf
    <3> QED
      BY <2>6, <3>1
  <2> QED
    BY <1>1, <2>5, <2>7
<1> QED
  BY <1>5, <1>6

(* An edited record is refused.                                            *)
LEMMA RecordsDamaged ==
  ASSUME BytesTyped, NEW records \in Edited(Export), NEW b
  PROVE  ~Validate([Export EXCEPT !.records = records], b)
<1>1. PICK list : list = NodesBelow[MaxNodes]
  OBVIOUS
<1>2. /\ DOMAIN Export.records = 1 .. Len(list) /\ Len(list) \in Nat
      /\ Export.records = [j \in 1 .. Len(list) |-> RecordOf(list[j])]
  BY <1>1, ExportList
<1>3. PICK k \in DOMAIN Export.records, field \in DOMAIN FieldValues :
        \E v \in FieldValues[field] : records = [Export.records EXCEPT ![k][field] = v]
  BY EditedRecords
<1>4. PICK v \in FieldValues[field] : records = [Export.records EXCEPT ![k][field] = v]
  BY <1>3
<1>5. PICK o : o = Export.records
  OBVIOUS
<1>6. o[k] = RecordOf(list[k]) /\ o = [j \in DOMAIN o |-> o[j]] /\ k \in DOMAIN o
  BY <1>2, <1>5
<1>7. PICK r : r = [RecordOf(list[k]) EXCEPT ![field] = v]
  OBVIOUS
<1>8. records = [o EXCEPT ![k] = r]
  BY <1>4, <1>5, <1>6, <1>7
<1>9. records[k] = r /\ DOMAIN records = DOMAIN o
  BY <1>6, <1>8
<1>10. r # RecordOf(list[k])
  <2>1. ASSUME r = o[k] PROVE FALSE
    <3>1. [o EXCEPT ![k] = r] = o
      BY <1>6, <2>1
    <3>2. records # o
      BY <1>5, EditedRecords
    <3> QED
      BY <1>8, <3>1, <3>2
  <2> QED
    BY <1>6, <2>1
<1>11. r.objectHash # ObjectHash(r)
  BY <1>7, <1>10, RecordDamage
<1>12. PICK image : image = [Export EXCEPT !.records = records]
  OBVIOUS
<1>13. image.records = records
  BY <1>12, ExportShape
<1>14. ASSUME Validate(image, b) PROVE FALSE
  <2>1. RecordOk(image, k)
    BY <1>6, <1>9, <1>13, <1>14 DEF Validate
  <2> QED
    BY <1>9, <1>11, <1>13, <2>1 DEF RecordOk
<1> QED
  BY <1>12, <1>14

(* A changed hash, of the tree or of the header, is refused.               *)
LEMMA HashDamaged ==
  ASSUME FsInv, RootedTree, NEW b
  PROVE  /\ \A i \in DOMAIN Export.hash : ~Validate([Export EXCEPT !.hash[i] = <<2>>], b)
         /\ ~Validate([Export EXCEPT !.header.root = <<2>>], b)
<1>0. BytesTyped /\ kind[Root] = "dir"
  BY DEF FsInv, TypeOK, RootedTree, RootStays
<1>1. PICK list : list = NodesBelow[MaxNodes]
  OBVIOUS
<1>2. /\ DOMAIN Export.records = 1 .. Len(list) /\ Len(list) \in Nat
      /\ \A k \in 1 .. Len(list) : Export.records[k] = RecordOf(list[k])
  BY <1>0, <1>1, ExportList
<1>3. PICK leaf : leaf = [k \in DOMAIN Export.records |-> Export.records[k].objectHash]
  OBVIOUS
<1>4. /\ Len(leaf) = Len(list) /\ \A k \in 1 .. Len(leaf) : leaf[k] # <<2>>
  <2>1. leaf = [k \in 1 .. Len(list) |-> leaf[k]]
    BY <1>2, <1>3
  <2>2. Len(leaf) = Len(list)
    BY <1>2, <2>1
  <2>3. \A k \in 1 .. Len(list) : leaf[k] = ObjectHash(RecordOf(list[k]))
    BY <1>2, <1>3, RecordFields
  <2> QED
    BY <2>2, <2>3, ObjectHashNotOne
<1>5. PICK leaves \in Nat \ {0} : leaves = Export.header.leaves
  <2>1. HeaderOk(Export.header, Export.header.bytes)
    BY <1>0, ExportHeader
  <2>2. Export.header.leaves \in 1 .. MaxLeaves
    BY <2>1 DEF HeaderOk
  <2> QED
    BY <2>2, FsImageAssumption
<1>6. PICK h : h = Export.hash
  OBVIOUS
<1>7. h = TreeHashes(leaf, leaves) /\ Export.header.root = h[0]
  BY <1>0, <1>1, <1>3, <1>5, <1>6, ExportParts
<1>8. DOMAIN h = 0 .. (2 * leaves - 2) /\ \A i \in 0 .. (2 * leaves - 2) : h[i] # <<2>>
  BY <1>2, <1>4, <1>7, HashesNotOne
<1>9. PICK e, rs, pl : Export = [header |-> e, records |-> rs, hash |-> h, payload |-> pl]
                       /\ e = Export.header /\ rs = Export.records
  BY <1>6, ExportShape
<1>10. ASSUME NEW i \in DOMAIN h, Validate([Export EXCEPT !.hash[i] = << 2 >>], b) PROVE FALSE
  <2>1. PICK image : image = [Export EXCEPT !.hash[i] = <<2>>]
    OBVIOUS
  <2>2. image.header = e /\ image.records = rs /\ image.hash = [h EXCEPT ![i] = <<2>>]
    BY <1>9, <2>1
  <2>3. image.hash = TreeHashes(leaf, leaves)
    BY <1>3, <1>5, <1>9, <1>10, <2>1, <2>2 DEF Validate, TreeOk, TreeOkBelowRoot
  <2>4. image.hash[i] = <<2>>
    BY <2>2
  <2> QED
    BY <1>7, <1>8, <1>10, <2>3, <2>4
<1>11. ASSUME Validate([Export EXCEPT !.header.root = << 2 >>], b) PROVE FALSE
  <2>1. PICK image : image = [Export EXCEPT !.header.root = <<2>>]
    OBVIOUS
  <2>2. image.header = [e EXCEPT !.root = <<2>>] /\ image.hash = h
    BY <1>9, <2>1
  <2>3. image.header.root = <<2>>
    <3>1. "root" \in DOMAIN e
      BY <1>9, HeaderShape
    <3> QED
      BY <2>2, <3>1
  <2>4. image.hash[0] = <<2>>
    BY <1>11, <2>1, <2>3 DEF Validate, TreeOk
  <2>5. 0 \in 0 .. (2 * leaves - 2)
    OBVIOUS
  <2> QED
    BY <1>8, <2>2, <2>4, <2>5
<1> QED
  BY <1>6, <1>10, <1>11

(* A header with one number off by one is refused: no other number changes *)
(* with it.                                                                *)
LEMMA HeaderDamaged ==
  ASSUME FsInv, RootedTree
  PROVE  \A part \in {"count", "leaves", "hashes", "data", "bytes"} :
           ~Validate([Export EXCEPT !.header[part] = @ + 1], Export.header.bytes)
<1>0. BytesTyped /\ kind[Root] = "dir"
  BY DEF FsInv, TypeOK, RootedTree, RootStays
<1>1. PICK e : e = Export.header
  OBVIOUS
<1>2. HeaderOk(e, e.bytes) /\ e.data \in Nat
  <2>1. HeaderOk(e, e.bytes)
    BY <1>0, <1>1, ExportHeader
  <2>2. PICK list : list = NodesBelow[MaxNodes]
    OBVIOUS
  <2>3. list \in Seq(Node)
    BY <1>0, <2>2, ExportList
  <2>4. PayloadAfter(list)[Len(list)] \in Seq({0, 1})
    <3>1. PayloadAfter(list) \in [0 .. Len(list) -> Seq({0, 1})]
      BY <1>0, <2>3, PayloadTyped
    <3>2. Len(list) \in 0 .. Len(list)
      BY <2>3
    <3> QED
      BY <3>1, <3>2
  <2>5. e.data = Len(PayloadAfter(list)[Len(list)])
    BY <1>0, <1>1, <2>2, ExportParts
  <2> QED
    BY <2>1, <2>4, <2>5
<1>3. /\ e.count \in Nat /\ e.leaves \in Nat /\ e.hashes = 2 * e.leaves - 1 /\ e.hashes \in Int
      /\ e.bytes = 40 + e.count * 56 + e.hashes * 4 + e.data
  BY <1>2, FsImageAssumption DEF HeaderOk, ImageBytes, HeaderBytes, RecordBytes
<1>4. DOMAIN e = {"count", "leaves", "hashes", "data", "root", "bytes"}
  BY <1>1, HeaderShape
<1>5. ASSUME NEW part \in {"count", "leaves", "hashes", "data", "bytes"},
             Validate([Export EXCEPT !.header[part] = @ + 1], e.bytes)
      PROVE  FALSE
  <2>1. PICK f : f = [Export EXCEPT !.header[part] = @ + 1].header
    OBVIOUS
  <2>2. f = [e EXCEPT ![part] = e[part] + 1]
    BY <1>1, <2>1, ExportShape
  <2>3. HeaderOk(f, e.bytes)
    BY <1>5, <2>1 DEF Validate
  <2>4. /\ f.hashes = 2 * f.leaves - 1 /\ f.bytes = e.bytes
        /\ f.bytes = 40 + f.count * 56 + f.hashes * 4 + f.data
    BY <2>3 DEF HeaderOk, ImageBytes, HeaderBytes, RecordBytes
  <2>5. \A p \in DOMAIN e : f[p] = IF p = part THEN e[p] + 1 ELSE e[p]
    BY <2>2
  <2>6. CASE part = "count"
    <3>1. f.count = e.count + 1 /\ f.hashes = e.hashes /\ f.data = e.data
      BY <1>4, <2>5, <2>6
    <3> QED
      BY <1>2, <1>3, <2>4, <3>1
  <2>7. CASE part = "leaves"
    <3>1. f.leaves = e.leaves + 1 /\ f.hashes = e.hashes
      BY <1>4, <2>5, <2>7
    <3> QED
      BY <1>3, <2>4, <3>1
  <2>8. CASE part = "hashes"
    <3>1. f.hashes = e.hashes + 1 /\ f.leaves = e.leaves
      BY <1>4, <2>5, <2>8
    <3> QED
      BY <1>3, <2>4, <3>1
  <2>9. CASE part = "data"
    <3>1. f.count = e.count /\ f.hashes = e.hashes /\ f.data = e.data + 1
      BY <1>4, <2>5, <2>9
    <3> QED
      BY <1>2, <1>3, <2>4, <3>1
  <2>10. CASE part = "bytes"
    <3>1. f.bytes = e.bytes + 1
      BY <1>4, <2>5, <2>10
    <3>2. e.bytes \in Int
      BY <1>2, <1>3
    <3> QED
      BY <2>4, <3>1, <3>2
  <2> QED
    BY <2>6, <2>7, <2>8, <2>9, <2>10
<1> QED
  BY <1>1, <1>5

(* Every place up to the last of a running sum lies in one of its steps.   *)
LEMMA PlaceInStep ==
  ASSUME NEW N \in Nat, NEW at \in [0 .. N -> Nat], at[0] = 0, NEW i \in 1 .. at[N]
  PROVE  \E k \in 1 .. N : at[k - 1] < i /\ i <= at[k]
<1> DEFINE S == {j \in 0 .. N : at[j] < i}
<1>1. S \in SUBSET Nat /\ S # {} /\ \A j \in S : j <= N
  <2>1. 0 \in S
    OBVIOUS
  <2> QED
    BY <2>1
<1>2. PICK j \in S : \A m \in S : m <= j
  <2> HIDE DEF S
  <2> QED
    BY <1>1, NatMax
<1>3. j \in 0 .. N /\ at[j] < i /\ at[N] \in Nat
  BY <1>2
<1>4. j # N
  BY <1>3
<1>5. j + 1 \in 1 .. N /\ j + 1 \in 0 .. N /\ (j + 1) - 1 = j /\ ~(j + 1 <= j)
  BY <1>3, <1>4
<1>6. j + 1 \notin S
  BY <1>2, <1>5
<1>7. ~(at[j + 1] < i) /\ at[j + 1] \in Nat
  BY <1>5, <1>6
<1> QED
  BY <1>3, <1>5, <1>7

(* A changed byte of the payload is refused: it is one of some record's,   *)
(* and does not fit the hash of its data.                                  *)
LEMMA PayloadDamaged ==
  ASSUME FsInv, RootedTree, NEW b, NEW i \in DOMAIN Export.payload
  PROVE  ~Validate([Export EXCEPT !.payload[i] = 1 - @], b)
<1>0. BytesTyped
  BY DEF FsInv, TypeOK
<1>1. PICK list : list = NodesBelow[MaxNodes]
  OBVIOUS
<1>2. /\ list \in Seq(Node) /\ Len(list) \in Nat
      /\ DOMAIN Export.records = 1 .. Len(list) /\ Len(Export.records) = Len(list)
  BY <1>0, <1>1, ExportList
<1>3. PICK P \in Seq({0, 1}) : P = Export.payload /\ Export.header.data = Len(P)
  <2>1. PayloadAfter(list)[Len(list)] \in Seq({0, 1})
    <3>1. PayloadAfter(list) \in [0 .. Len(list) -> Seq({0, 1})]
      BY <1>0, <1>2, PayloadTyped
    <3>2. Len(list) \in 0 .. Len(list)
      BY <1>2
    <3> QED
      BY <3>1, <3>2
  <2>2. Export.payload = PayloadAfter(list)[Len(list)] /\ Export.header.data = Len(Export.payload)
    BY <1>0, <1>1, ExportParts
  <2> QED
    BY <2>1, <2>2
<1>4. PICK rs : rs = Export.records
  OBVIOUS
<1>5. \A k \in 1 .. Len(list) : rs[k].bytes \in Nat /\ RecordOk(Export, k)
  <2> TAKE k \in 1 .. Len(list)
  <2>1. rs[k].bytes = DataSize(list[k])
    BY <1>0, <1>1, <1>4, RecordsOfList, RecordFields
  <2>2. DataSize(list[k]) \in Nat
    BY <1>0, <1>1, ExportPlaces
  <2>3. RecordOk(Export, k)
    BY <1>2, ExportRecordOk
  <2> QED
    BY <2>1, <2>2, <2>3
<1>6. PICK at : at = ExpectedOffset(rs)
  OBVIOUS
<1>7. /\ at \in [0 .. Len(list) -> Nat] /\ at[0] = 0
      /\ \A k \in 1 .. Len(list) : at[k] = at[k - 1] + rs[k].bytes
  <2>1. Len(rs) = Len(list)
    BY <1>2, <1>4
  <2>2. Len(rs) \in Nat /\ \A k \in 1 .. Len(rs) : rs[k].bytes \in Nat
    BY <1>2, <1>5, <2>1
  <2>3. /\ at \in [0 .. Len(rs) -> Nat] /\ at[0] = 0
        /\ \A k \in 1 .. Len(rs) : at[k] = at[k - 1] + rs[k].bytes
    BY <1>6, <2>2, ExpectedTyped
  <2> QED
    BY <2>1, <2>3
<1>8. at[Len(list)] = Len(P)
  BY <1>2, <1>3, <1>4, <1>6, ExportValidates DEF Validate
<1>9. i \in 1 .. at[Len(list)]
  BY <1>3, <1>8
<1>10. PICK k \in 1 .. Len(list) : at[k - 1] < i /\ i <= at[k]
  BY <1>2, <1>7, <1>9, PlaceInStep
<1>11. PICK o \in Nat, n \in Nat : o = rs[k].offset /\ n = rs[k].bytes /\ o = at[k - 1]
  <2>1. rs[k].offset = at[k - 1]
    BY <1>4, <1>5, <1>6 DEF RecordOk
  <2>2. at[k - 1] \in Nat
    BY <1>2, <1>7
  <2> QED
    BY <1>5, <2>1, <2>2
<1>12. o < i /\ i <= o + n /\ i \in Nat
  BY <1>7, <1>9, <1>10, <1>11
<1>13. PICK image : image = [Export EXCEPT !.payload[i] = 1 - @]
  OBVIOUS
<1>14. PICK Q : Q = [P EXCEPT ![i] = 1 - P[i]]
  OBVIOUS
<1>15. image.records = rs /\ image.payload = Q
  BY <1>3, <1>4, <1>13, <1>14, ExportShape
<1>16. i \in 1 .. Len(P) /\ Q \in Seq({0, 1}) /\ Len(Q) = Len(P) /\ Q[i] # P[i]
  <2>1. i \in 1 .. Len(P)
    BY <1>8, <1>9
  <2>2. P[i] \in {0, 1}
    BY <2>1
  <2>3. Q[i] = 1 - P[i] /\ 1 - P[i] # P[i] /\ 1 - P[i] \in {0, 1}
    BY <1>14, <2>1, <2>2
  <2> QED
    BY <1>14, <2>1, <2>3
<1>17. o + n <= Len(P)
  BY <1>3, <1>4, <1>5, <1>11 DEF RecordOk
<1>18. ASSUME Validate(image, b) PROVE FALSE
  <2>1. RecordOk(image, k)
    BY <1>2, <1>4, <1>15, <1>18 DEF Validate
  <2>2. rs[k].dataHash = SubSeq(Q, o + 1, o + n)
    BY <1>11, <1>15, <2>1 DEF RecordOk
  <2>3. rs[k].dataHash = SubSeq(P, o + 1, o + n)
    BY <1>3, <1>4, <1>5, <1>11 DEF RecordOk
  <2>4. PICK j \in 1 .. n : o + j = i
    <3>1. i - o \in 1 .. n /\ o + (i - o) = i
      BY <1>12
    <3> QED
      BY <3>1
  <2>5. SubSeq(P, o + 1, o + n) = [x \in 1 .. n |-> P[o + x]]
    BY <1>17
  <2>6. SubSeq(Q, o + 1, o + n) = [x \in 1 .. n |-> Q[o + x]]
    BY <1>16, <1>17
  <2>7. P[o + j] = Q[o + j]
    BY <2>2, <2>3, <2>5, <2>6
  <2> QED
    BY <1>16, <2>4, <2>7
<1> QED
  BY <1>13, <1>18

-----------------------------------------------------------------------------
(* Every step keeps the invariant, and the nodes of open files.            *)
LEMMA FsInvNext ==
  ASSUME FsInv, [ImageNext]_vars
  PROVE  FsInv' /\ Kept
<1>1. CASE \E p \in Pids, path \in Path, m \in Modes : Mkdir(p, path, m)
  BY <1>1, MkdirInv
<1>2. CASE \E p \in Pids, path \in Path : Remove(p, path)
  BY <1>2, RemoveInv
<1>3. CASE \E p \in Pids, old \in Path, new \in Path : Rename(p, old, new)
  BY <1>3, RenameInv
<1>4. CASE \E p \in Pids, path \in Path, flags \in FlagSets : OpenExisting(p, path, flags)
  BY <1>4, OpenExistingInv
<1>5. CASE \E p \in Pids, path \in Path, flags \in FlagSets : OpenCreating(p, path, flags)
  BY <1>5, OpenCreatingInv
<1>6. CASE \E f \in File, count \in 1 .. Capacity : Read(f, count)
  BY <1>6, ReadInv
<1>7. CASE \E f \in File, count \in 1 .. Capacity : Write(f, count)
  BY <1>7, WriteInv
<1>8. CASE \E f \in File, offset \in 0 .. Capacity : Seek(f, offset)
  BY <1>8, SeekInv
<1>9. CASE \E f \in File : Readdir(f)
  BY <1>9, ReaddirInv
<1>10. CASE \E f \in File : Close(f)
  BY <1>10, CloseInv
<1>11. CASE Checkpoint
  BY <1>11, CheckpointInv
<1>12. CASE UNCHANGED vars
  <2>1. UNCHANGED <<tree, contents>> /\ files' = files
    BY <1>12 DEF vars
  <2>2. NodesTyped' /\ BytesTyped' /\ FreeIsClear' /\ NoStaleBytes' /\ NodesKept
    BY <2>1, SameNodes
  <2>3. FilesTyped' /\ OpenOnNodes' /\ WritersOwn' /\ Kept
    BY <2>1, <2>2, SameFilesInv
  <2> QED
    BY <2>2, <2>3 DEF FsInv, TypeOK
<1> QED
  BY <1>1, <1>2, <1>3, <1>4, <1>5, <1>6, <1>7, <1>8, <1>9, <1>10, <1>11, <1>12 DEF ImageNext, Next

(* The empty file system satisfies the invariant.                          *)
LEMMA FsInvInit == Init => FsInv
<1> SUFFICES ASSUME Init PROVE FsInv
  OBVIOUS
<1>1. NodesTyped
  BY NoneIsNoNode DEF Init, NodesTyped
<1>2. BytesTyped
  BY RuntimeFsAssumption DEF Init, BytesTyped, Zeros
<1>3. FilesTyped
  BY ClosedTyped DEF Init, FilesTyped
<1>4. Opened = {}
  BY DEF Init, Opened
<1>5. FreeIsClear
  BY DEF Init, FreeIsClear
<1>6. NoStaleBytes
  BY RuntimeFsAssumption DEF Init, NoStaleBytes, Zeros
<1> QED
  BY <1>1, <1>2, <1>3, <1>4, <1>5, <1>6 DEF FsInv, TypeOK, OpenOnNodes, WritersOwn

(* Every step keeps the tree.                                              *)
LEMMA TreeInvNext ==
  ASSUME FsInv, TreeInv, [ImageNext]_vars
  PROVE  TreeInv'
<1>1. CASE \E p \in Pids, path \in Path, m \in Modes : Mkdir(p, path, m)
  BY <1>1, MkdirTree
<1>2. CASE \E p \in Pids, path \in Path : Remove(p, path)
  BY <1>2, RemoveTree
<1>3. CASE \E p \in Pids, old \in Path, new \in Path : Rename(p, old, new)
  BY <1>3, RenameTree
<1>4. CASE \E p \in Pids, path \in Path, flags \in FlagSets : OpenCreating(p, path, flags)
  BY <1>4, OpenCreatingTree
<1>5. CASE \E p \in Pids, path \in Path, flags \in FlagSets : OpenExisting(p, path, flags)
  <2>1. UNCHANGED tree
    BY <1>5 DEF OpenExisting
  <2> QED
    BY <2>1, SameTree
<1>6. CASE \/ \E f \in File, count \in 1 .. Capacity : Read(f, count) \/ Write(f, count)
           \/ \E f \in File, offset \in 0 .. Capacity : Seek(f, offset)
           \/ \E f \in File : Readdir(f) \/ Close(f)
  <2>1. UNCHANGED tree
    BY <1>6 DEF Read, Write, Seek, Readdir, Close
  <2> QED
    BY <2>1, SameTree
<1>7. CASE Checkpoint
  <2>1. UNCHANGED tree
    BY <1>7, CheckpointSame
  <2> QED
    BY <2>1, SameTree
<1>8. CASE UNCHANGED vars
  <2>1. UNCHANGED tree
    BY <1>8 DEF vars
  <2> QED
    BY <2>1, SameTree
<1> QED
  BY <1>1, <1>2, <1>3, <1>4, <1>5, <1>6, <1>7, <1>8 DEF ImageNext, Next

(* The root alone is a tree.                                               *)
LEMMA TreeInvInit == Init => TreeInv
<1> SUFFICES ASSUME Init PROVE TreeInv
  OBVIOUS
<1>1. Used \ {Root} = {}
  BY DEF Init, Used
<1>2. RanksFall([n \in Node |-> 0])
  BY <1>1 DEF RanksFall
<1>3. \E rank : RanksFall(rank)
  BY <1>2
<1> QED
  BY <1>1, <1>3, NoneIsNoNode DEF Init, TreeInv

(* The node table and the open files stay in range, through any sequence   *)
(* of calls and checkpoints (runtime_fs_open, _write, _seek, _readdir and  *)
(* the image functions).                                                   *)
THEOREM FsTypeCorrect == ImageSpec => []TypeOK
<1>1. FsInv /\ [ImageNext]_vars => FsInv'
  BY FsInvNext
<1>2. FsInv => TypeOK
  BY DEF FsInv
<1> QED
  BY <1>1, <1>2, FsInvInit, PTL DEF ImageSpec

(* A file never has two writers, nor a writer that does not own it, for    *)
(* any number of processes, nodes and open files (fs_node_has_open_writer, *)
(* fs_node_owner_allows).                                                  *)
THEOREM OneWriterThatOwns == ImageSpec => []WritersOwn
<1>1. FsInv /\ [ImageNext]_vars => FsInv'
  BY FsInvNext
<1>2. FsInv => WritersOwn
  BY DEF FsInv
<1> QED
  BY <1>1, <1>2, FsInvInit, PTL DEF ImageSpec

(* No byte of a removed or truncated file comes back, and gaps read as     *)
(* zeros, for files of any capacity (fs_zero_range, fs_alloc_node).        *)
THEOREM BytesNeverReturn == ImageSpec => []NoStaleBytes
<1>1. FsInv /\ [ImageNext]_vars => FsInv'
  BY FsInvNext
<1>2. FsInv => NoStaleBytes
  BY DEF FsInv
<1> QED
  BY <1>1, <1>2, FsInvInit, PTL DEF ImageSpec

(* An open file keeps its node, whatever is removed, renamed and created   *)
(* meanwhile (fs_node_is_open, fs_alloc_node).                             *)
THEOREM OpenFilesKeepNodes == ImageSpec => OpenKeepsNode
<1>1. FsInv /\ [ImageNext]_vars => FsInv'
  BY FsInvNext
<1>2. FsInv /\ [ImageNext]_vars =>
        [\A f \in File :
           f \in Opened /\ files'[f] # Closed =>
             LET n == files[f].node
             IN  files'[f].node = n /\ kind'[n] = kind[n] /\ owner'[n] = owner[n]]_vars
  BY FsInvNext DEF Kept
<1> QED
  BY <1>1, <1>2, FsInvInit, PTL DEF ImageSpec, OpenKeepsNode

(* A checkpoint that is exported, accepted and imported restores the file  *)
(* system to the node and the byte (runtime_fs_image_export, _validate and *)
(* _import).                                                               *)
CheckpointRestores == [][Checkpoint => UNCHANGED <<tree, contents>>]_vars

(* It does, for node tables and files of any size, and whatever names the  *)
(* nodes have.                                                             *)
THEOREM CheckpointsRestore == ImageSpec => CheckpointRestores
<1>1. FsInv /\ [ImageNext]_vars => FsInv'
  BY FsInvNext
<1>2. FsInv /\ [ImageNext]_vars => [Checkpoint => UNCHANGED <<tree, contents>>]_vars
  BY CheckpointSame
<1> QED
  BY <1>1, <1>2, FsInvInit, PTL DEF ImageSpec, CheckpointRestores

(* The nodes are a tree whose walks all end in the root's slot, with       *)
(* distinct names in every directory, through any sequence of mkdir,       *)
(* remove, rename and creating opens, for a node table of any size and any *)
(* paths (runtime_fs_rename's fs_parent_chain_contains,                    *)
(* runtime_fs_validate), also after "//" had the root itself removed or    *)
(* renamed.                                                                *)
THEOREM AlwaysATree == ImageSpec => []DirectoryTree
<1>1. FsInv /\ [ImageNext]_vars => FsInv'
  BY FsInvNext
<1>2. FsInv /\ TreeInv /\ [ImageNext]_vars => TreeInv'
  BY TreeInvNext
<1>3. FsInv /\ TreeInv => DirectoryTree
  BY TreeInvIsTree DEF FsInv, TypeOK
<1> QED
  BY <1>1, <1>2, <1>3, FsInvInit, TreeInvInit, PTL DEF ImageSpec

(* What is exported is accepted and restores the file system to the node   *)
(* and the byte, for every file system that calls and checkpoints can      *)
(* build in a node table of up to 16 nodes with files of any capacity, as  *)
(* long as its root is in place (runtime_fs_image_export, _validate,       *)
(* _import and runtime_fs_validate).                                       *)
THEOREM ExportRestores == ImageSpec => []RoundTripRestores
<1>1. FsInv /\ [ImageNext]_vars => FsInv'
  BY FsInvNext
<1>2. FsInv /\ TreeInv /\ [ImageNext]_vars => TreeInv'
  BY TreeInvNext
<1>3. FsInv /\ TreeInv => RoundTripRestores
  <2> SUFFICES ASSUME FsInv, TreeInv, Opened = {}, RootStays
               PROVE  /\ Exportable
                      /\ Validate(Export, Export.header.bytes)
                      /\ Imported(Export) = Columns
    BY DEF RoundTripRestores
  <2>0. RootedTree
    BY DEF RootedTree
  <2>1. ValidNodes(Columns) /\ ValidFiles
    BY <2>0, TreeIsValid DEF ValidFiles
  <2>2. Validate(Export, Export.header.bytes)
    BY <2>0, ExportValidates
  <2>3. Imported(Export) = Columns
    BY <2>2, ImportRestores DEF RootStays
  <2> QED
    BY <2>1, <2>2, <2>3 DEF Exportable
<1> QED
  BY <1>1, <1>2, <1>3, FsInvInit, TreeInvInit, PTL DEF ImageSpec

(* The two validations agree but on cut names: an image with an edited     *)
(* tree and fitting hashes is refused before anything is cleared, or the   *)
(* file system it leaves is valid, or it has siblings that only a 16th     *)
(* character tells apart, and then it leaves one that is not               *)
(* (runtime_fs_image_validate, runtime_fs_image_copy_name,                 *)
(* runtime_fs_validate).                                                   *)
THEOREM ImportHalfwayOnlyOnCutNames == ImageSpec => []AcceptedIsValid
<1>1. FsInv /\ [ImageNext]_vars => FsInv'
  BY FsInvNext
<1>2. FsInv => AcceptedIsValid
  BY EditedIsValid DEF FsInv, TypeOK
<1> QED
  BY <1>1, <1>2, FsInvInit, PTL DEF ImageSpec

(* Whatever single field, number, hash or byte of an exported image is     *)
(* changed, runtime_fs_image_validate refuses it, for file systems of up   *)
(* to 16 nodes with files of any capacity: no part of an image is without  *)
(* a hash or a sum over it.                                                *)
THEOREM DamageNeverPasses == ImageSpec => []DamageDetected
<1>1. FsInv /\ [ImageNext]_vars => FsInv'
  BY FsInvNext
<1>2. FsInv /\ TreeInv /\ [ImageNext]_vars => TreeInv'
  BY TreeInvNext
<1>3. FsInv /\ TreeInv => DamageDetected
  <2> SUFFICES ASSUME FsInv, TreeInv, Exportable PROVE DamageDetected
    BY DEF DamageDetected
  <2>0. BytesTyped /\ RootedTree
    BY DEF FsInv, TypeOK, RootedTree, RootStays, Exportable, ValidNodes, Columns
  <2>1. \A records \in Edited(Export) :
          ~Validate([Export EXCEPT !.records = records], Export.header.bytes)
    BY <2>0, RecordsDamaged
  <2>2. /\ \A i \in DOMAIN Export.hash :
             ~Validate([Export EXCEPT !.hash[i] = <<2>>], Export.header.bytes)
        /\ ~Validate([Export EXCEPT !.header.root = <<2>>], Export.header.bytes)
    BY <2>0, HashDamaged
  <2>3. \A i \in DOMAIN Export.payload :
          ~Validate([Export EXCEPT !.payload[i] = 1 - @], Export.header.bytes)
    BY <2>0, PayloadDamaged
  <2>4. \A part \in {"count", "leaves", "hashes", "data", "bytes"} :
          ~Validate([Export EXCEPT !.header[part] = @ + 1], Export.header.bytes)
    BY <2>0, HeaderDamaged
  <2> QED
    BY <2>1, <2>2, <2>3, <2>4, Zenon DEF DamageDetected
<1> QED
  BY <1>1, <1>2, <1>3, FsInvInit, TreeInvInit, PTL DEF ImageSpec
=============================================================================
