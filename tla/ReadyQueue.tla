----------------------------- MODULE ReadyQueue -----------------------------
(***************************************************************************)
(* The ready queue of kernel/scheduler.c: an intrusive red-black tree over *)
(* the slots, with parent links, colours and a cached leftmost node.       *)
(*                                                                         *)
(* An insertion or a removal runs to its end with interrupts masked.  It   *)
(* is split here into its linking (or unlinking) part, the turns of its    *)
(* fix-up loop and its end, so that the loop's termination can be stated;  *)
(* nothing else happens in between.  The two mirror-image halves of each   *)
(* loop are one definition with the side as a parameter.                   *)
(***************************************************************************)
EXTENDS Naturals, FiniteSets

CONSTANTS
  MaxProcesses,  (* MAX_PROCESSES                                          *)
  Charged,       (* bound: the slots whose vruntime changes                *)
  MaxVruntime    (* bound: the vruntimes they are charged                  *)

ASSUME ReadyQueueAssumption ==
  /\ MaxProcesses \in Nat \ {0}
  /\ Charged \subseteq 0 .. (MaxProcesses - 1)
  /\ MaxVruntime \in Nat

Slot == 0 .. (MaxProcesses - 1)
Nil == MaxProcesses                 \* UINT32_MAX
Side == {"left", "right"}
Other(side) == IF side = "left" THEN "right" ELSE "left"

VARIABLES
  vruntime,     \* g_sched_vruntime
  tree,         \* g_sched_rb_parent, _left and _right, _color, g_sched_rq_root
  onRq,         \* the slots with g_sched_on_rq set
  leftmost,     \* g_sched_rq_leftmost
  phase,        \* "idle", or the fix-up loop that runs
  index, above, \* that loop's index and parent
  subject       \* the slot that is being inserted or removed

vars == <<vruntime, tree, onRq, leftmost, phase, index, above, subject>>

\* scheduler_vruntime_before.  The pids that break ties are unique: the
\* slots are numbered in pid order.
Before(a, b) ==
  \/ vruntime[a] < vruntime[b]
  \/ vruntime[a] = vruntime[b] /\ a < b

Red(t, s) == s # Nil /\ t.color[s] = "red"
Paint(t, s, c) == IF s = Nil THEN t ELSE [t EXCEPT !.color[s] = c]

\* In the place of the child old of p, which was looked for first on side d,
\* put new.
Relink(t, p, d, old, new) ==
  IF p = Nil THEN [t EXCEPT !.root = new]
  ELSE IF t.down[d][p] = old THEN [t EXCEPT !.down[d][p] = new]
  ELSE [t EXCEPT !.down[Other(d)][p] = new]

\* scheduler_ready_queue_rotate_left and _rotate_right, by the side that s
\* goes down to (mutated form: the subtree that changes hands keeps its old
\* parent link)
RotateLosingParent(t, s, d) ==
  LET child == t.down[Other(d)][s]
      p == t.up[s]
  IN  [Relink(t, p, d, s, child)
        EXCEPT !.down[Other(d)][s] = t.down[d][child],
               !.down[d][child] = s,
               !.up[child] = p,
               !.up[s] = child]
Rotate(t, s, d) ==
  LET child == t.down[Other(d)][s]
      inner == t.down[d][child]
      p == t.up[s]
  IN  [Relink(t, p, d, s, child)
        EXCEPT !.down[Other(d)][s] = inner,
               !.down[d][child] = s,
               !.up = [n \in Slot |-> CASE n = child -> p
                                        [] n = s     -> child
                                        [] n = inner -> s
                                        [] OTHER     -> t.up[n]]]

\* scheduler_ready_queue_transplant
Transplant(t, old, new) ==
  LET u == Relink(t, t.up[old], "left", old, new)
  IN  IF new = Nil THEN u ELSE [u EXCEPT !.up[new] = t.up[old]]

\* s and the nodes met from it on, along the links step, before Nil
Walk(step, s) ==
  LET node[n \in 0 .. MaxProcesses] ==
        IF n = 0 THEN s
        ELSE IF node[n - 1] = Nil THEN Nil ELSE step[node[n - 1]]
  IN  {node[n] : n \in 0 .. MaxProcesses} \ {Nil}

\* scheduler_ready_queue_minimum and _recompute_leftmost
Minimum(t, s) ==
  IF s = Nil THEN Nil
  ELSE CHOOSE n \in Walk(t.down["left"], s) : t.down["left"][n] = Nil

-----------------------------------------------------------------------------
(* Insertion.                                                              *)

\* Where the search for the place of s goes from n
SideOf(s, n) == IF Before(s, n) THEN "left" ELSE "right"

\* The nodes that scheduler_ready_queue_insert compares s with
SearchPath(s) == Walk([n \in Slot |-> tree.down[SideOf(s, n)][n]], tree.root)

\* scheduler_ready_queue_insert up to its loop
Insert(s) ==
  LET path == SearchPath(s)
      p == IF path = {} THEN Nil
           ELSE CHOOSE n \in path : tree.down[SideOf(s, n)][n] = Nil
      fresh == [tree EXCEPT !.down = [d \in Side |-> [@[d] EXCEPT ![s] = Nil]],
                            !.up[s] = p,
                            !.color[s] = "red"]
  IN  /\ phase = "idle"
      /\ s \notin onRq
      /\ tree' = IF p = Nil THEN [fresh EXCEPT !.root = s]
                 ELSE [fresh EXCEPT !.down[SideOf(s, p)][p] = s]
      /\ onRq' = onRq \cup {s}
      /\ phase' = "inserting"
      /\ index' = s /\ subject' = s
      /\ UNCHANGED <<vruntime, leftmost, above>>

\* The tree and the index after one turn of its loop (mutated form: the
\* inner rotation of the zig-zag case is left out)
InsertTurnOneRotation(t, s) ==
  LET p == t.up[s]
      g == t.up[p]
      d == IF t.down["left"][g] = p THEN "left" ELSE "right"
      uncle == t.down[Other(d)][g]
  IN  IF Red(t, uncle)
      THEN <<Paint(Paint(Paint(t, p, "black"), uncle, "black"), g, "red"), g>>
      ELSE <<Rotate(Paint(Paint(t, p, "black"), g, "red"), g, Other(d)), s>>
InsertTurn(t, s) ==
  LET p == t.up[s]
      g == t.up[p]
      d == IF t.down["left"][g] = p THEN "left" ELSE "right"
      uncle == t.down[Other(d)][g]
      inner == t.down[Other(d)][p] = s
      u == IF inner THEN Rotate(t, p, d) ELSE t
      s2 == IF inner THEN p ELSE s
      p2 == u.up[s2]
      g2 == u.up[p2]
  IN  IF Red(t, uncle)
      THEN <<Paint(Paint(Paint(t, p, "black"), uncle, "black"), g, "red"), g>>
      ELSE <<Rotate(Paint(Paint(u, p2, "black"), g2, "red"), g2, Other(d)), s2>>

FixInsert ==
  /\ phase = "inserting"
  /\ index # tree.root /\ Red(tree, tree.up[index])
  /\ tree' = InsertTurn(tree, index)[1]
  /\ index' = InsertTurn(tree, index)[2]
  /\ UNCHANGED <<vruntime, onRq, leftmost, phase, above, subject>>

\* Both operations end by recomputing the cached leftmost node (mutated
\* form: an insertion only compares the new node with the cached one's
\* vruntime)
LeftmostByVruntime(t) ==
  IF phase = "inserting" /\ leftmost # Nil
  THEN IF vruntime[subject] < vruntime[leftmost] THEN subject ELSE leftmost
  ELSE Minimum(t, t.root)
Leftmost(t) == Minimum(t, t.root)

Finish(t) ==
  /\ tree' = t
  /\ leftmost' = Leftmost(t)
  /\ phase' = "idle"
  /\ index' = Nil /\ above' = Nil /\ subject' = Nil

EndInsert ==
  /\ phase = "inserting"
  /\ index = tree.root \/ ~Red(tree, tree.up[index])
  /\ Finish(Paint(tree, tree.root, "black"))
  /\ UNCHANGED <<vruntime, onRq>>

-----------------------------------------------------------------------------
(* Removal.                                                                *)

\* The slot that leaves its place: s, or its successor when s has two
\* children, which then takes the place of s.
Removed(t, s) ==
  IF Nil \in {t.down["left"][s], t.down["right"][s]} THEN s
  ELSE Minimum(t, t.down["right"][s])

\* What takes the place of that slot
Replacement(t, s) ==
  LET r == Removed(t, s)
  IN  IF r = s /\ t.down["left"][s] # Nil THEN t.down["left"][s] ELSE t.down["right"][r]

\* The parent of that place afterwards
ReplacementParent(t, s) ==
  LET r == Removed(t, s) IN IF r # s /\ t.up[r] = s THEN r ELSE t.up[r]

\* The tree with what it keeps moved together, before the fix-up
Closed(t, s) ==
  LET r == Removed(t, s)
      right == t.down["right"][s]
      u == IF t.up[r] = s THEN t
           ELSE [Transplant(t, r, t.down["right"][r])
                  EXCEPT !.down["right"][r] = right, !.up[right] = r]
  IN  IF r = s THEN Transplant(t, s, Replacement(t, s))
      ELSE [Transplant(u, s, r)
             EXCEPT !.down["left"][r] = t.down["left"][s],
                    !.up[t.down["left"][s]] = r,
                    !.color[r] = t.color[s]]

\* The tree without s
Unlinked(t, s) ==
  [Closed(t, s) EXCEPT !.up[s] = Nil,
                       !.down = [d \in Side |-> [@[d] EXCEPT ![s] = Nil]],
                       !.color[s] = "black"]

\* scheduler_ready_queue_remove up to its fix-up
Remove(s) ==
  /\ phase = "idle"
  /\ s \in onRq
  /\ tree' = Unlinked(tree, s)
  /\ onRq' = onRq \ {s}
  /\ subject' = s
  /\ phase' = IF Red(tree, Removed(tree, s)) THEN "removed" ELSE "removing"
  /\ index' = Replacement(tree, s)
  /\ above' = ReplacementParent(tree, s)
  /\ UNCHANGED <<vruntime, leftmost>>

\* One turn of scheduler_ready_queue_remove_fixup: <<tree, index, parent>>
\* (mutated form: a red sibling is not rotated away first)
TurnFrom(t, p, d) ==
  LET sib == t.down[Other(d)][p]
      near == t.down[d][sib]
      far == t.down[Other(d)][sib]
      t1 == IF Red(t, far) THEN t
            ELSE Rotate(Paint(Paint(t, near, "black"), sib, "red"), sib, Other(d))
      sib2 == t1.down[Other(d)][p]
      t2 == Paint(Paint(Paint(t1, sib2, t1.color[p]), p, "black"),
                  t1.down[Other(d)][sib2], "black")
      t3 == Rotate(t2, p, d)
  IN  IF sib = Nil \/ ~(Red(t, near) \/ Red(t, far))
      THEN <<Paint(t, sib, "red"), p, t.up[p]>>
      ELSE <<t3, t3.root, Nil>>
RemoveTurnBlackSibling(t, s, p) ==
  TurnFrom(t, p, IF t.down["left"][p] = s THEN "left" ELSE "right")
RemoveTurn(t, s, p) ==
  LET d == IF t.down["left"][p] = s THEN "left" ELSE "right"
      sib == t.down[Other(d)][p]
      rotated == Rotate(Paint(Paint(t, sib, "black"), p, "red"), p, d)
  IN  TurnFrom(IF Red(t, sib) THEN rotated ELSE t, p, d)

FixRemove ==
  /\ phase = "removing"
  /\ index # tree.root /\ ~Red(tree, index) /\ above # Nil
  /\ LET turn == RemoveTurn(tree, index, above)
     IN  tree' = turn[1] /\ index' = turn[2] /\ above' = turn[3]
  /\ UNCHANGED <<vruntime, onRq, leftmost, phase, subject>>

EndRemove ==
  /\ \/ /\ phase = "removing"
        /\ index = tree.root \/ Red(tree, index) \/ above = Nil
        /\ Finish(Paint(tree, index, "black"))
     \/ phase = "removed" /\ Finish(tree)
  /\ UNCHANGED <<vruntime, onRq>>

-----------------------------------------------------------------------------
\* scheduler_account_runtime and process_spawn_with_role give a vruntime to
\* a slot that is off the queue (KeysStable of module Scheduler).
Charge(s, v) ==
  /\ phase = "idle"
  /\ s \notin onRq
  /\ vruntime' = [vruntime EXCEPT ![s] = v]
  /\ UNCHANGED <<tree, onRq, leftmost, phase, index, above, subject>>

Init ==
  /\ vruntime = [s \in Slot |-> 0]
  /\ tree = [up |-> [s \in Slot |-> Nil],
             down |-> [d \in Side |-> [s \in Slot |-> Nil]],
             color |-> [s \in Slot |-> "black"],
             root |-> Nil]
  /\ onRq = {}
  /\ leftmost = Nil
  /\ phase = "idle"
  /\ index = Nil /\ above = Nil /\ subject = Nil

Next ==
  \/ \E s \in Charged, v \in 0 .. MaxVruntime : Charge(s, v)
  \/ \E s \in Slot : Insert(s)
  \/ \E s \in Slot : Remove(s)
  \/ FixInsert \/ EndInsert
  \/ FixRemove \/ EndRemove

Spec == Init /\ [][Next]_vars

-----------------------------------------------------------------------------
(* Properties.                                                             *)

\* s and the nodes above it, by the parent links
Upward(s) == Walk(tree.up, s)

ChildOf(s, p) == \E d \in Side : tree.down[d][p] = s

(* The tree is whole at every moment, in the middle of a fix-up too: each  *)
(* linked slot reaches the root by its parent links, parent and child      *)
(* links agree, and an unlinked slot can neither be reached nor has links  *)
(* left, so that no rotation or transplant loses a process or leaves a     *)
(* cycle.                                                                  *)
TreeWhole ==
  /\ \A s \in onRq : tree.root \in Upward(s)
  /\ \A s \in onRq : IF s = tree.root THEN tree.up[s] = Nil
                     ELSE tree.up[s] \in onRq /\ ChildOf(s, tree.up[s])
  /\ \A p \in onRq, d \in Side :
       LET s == tree.down[d][p]
       IN  s # Nil => /\ s \in onRq /\ tree.up[s] = p
                      /\ tree.down[Other(d)][p] # s
  /\ onRq = {} <=> tree.root = Nil
  /\ \A s \in Slot \ onRq : tree.up[s] = Nil /\ \A d \in Side : tree.down[d][s] = Nil

\* What is below a node on its left comes before it, and what is below it
\* on its right after it.
SearchOrder ==
  \A s \in onRq :
    LET up == Upward(s)
    IN  \A p \in up \ {s} :
          IF tree.down["left"][p] \in up THEN Before(s, p) ELSE Before(p, s)

Blacks(s) == Cardinality({n \in Upward(s) : tree.color[n] = "black"})

(* Between operations the tree is a red-black search tree: ordered, with a *)
(* black root, no red node under a red one, and as many black nodes on the *)
(* way to each node that lacks a child.  It bounds the depth of the        *)
(* searches that run with interrupts masked.                               *)
RedBlack ==
  phase = "idle" =>
    /\ SearchOrder
    /\ ~Red(tree, tree.root)
    /\ \A s \in onRq : Red(tree, s) => ~Red(tree, tree.up[s])
    /\ Cardinality({Blacks(s) : s \in {r \in onRq : \E d \in Side :
                                         tree.down[d][r] = Nil}}) <= 1

(* To its users the tree is the ordered set of module ReadySet: a process  *)
(* enters or leaves the set when the operation ends, and then the cached   *)
(* leftmost node is the least member.                                      *)
Abstract ==
  INSTANCE ReadySet WITH
    members <- CASE phase = "idle" -> onRq
                 [] phase = "inserting" -> onRq \ {subject}
                 [] OTHER -> onRq \cup {subject},
    least <- leftmost

ImplementsReadySet == Abstract!Spec

\* The distance of a fix-up loop from the root, and its exit condition
Level == IF index = Nil THEN Cardinality(Upward(above)) + 1 ELSE Cardinality(Upward(index))
LoopDone ==
  IF phase = "inserting" THEN index = tree.root \/ ~Red(tree, tree.up[index])
  ELSE index = tree.root \/ Red(tree, index) \/ above = Nil

(* Both fix-up loops end: each turn brings the loop nearer to the root or  *)
(* is its last one.  Interrupts are masked, so a loop that went on for     *)
(* ever would stop the machine.                                            *)
FixupProgresses ==
  [][phase # "idle" /\ phase' = phase => Level' < Level \/ LoopDone']_vars
=============================================================================
