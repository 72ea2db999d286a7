-------------------------------- MODULE Kmem --------------------------------
(***************************************************************************)
(* The kernel heap of kernel/kmem.c: a list of blocks in an arena, each a  *)
(* header followed by its bytes, allocated first-fit, split on allocation  *)
(* and merged on release, with the counters the diagnostics report.        *)
(*                                                                         *)
(* The list is a sequence, its order that of the next pointers; a block    *)
(* carries its address so that splitting and merging can get the layout    *)
(* wrong.  No call blocks, so each is one step.  Sizes are numbers of      *)
(* Word = 2^32 values, scaled down with the arena for model checking.      *)
(***************************************************************************)
EXTENDS Naturals, Sequences, FiniteSetsExt

CONSTANTS
  ArenaSize,   (* KMEM_ARENA_SIZE                                          *)
  Header,      (* sizeof(struct kmem_block)                                *)
  Alignment,   (* KMEM_ALIGNMENT                                           *)
  Word,        (* the number of values of uint32_t                         *)
  Sizes,       (* the sizes asked for                                      *)
  MaxCalls     (* bound: calls of kmem_alloc                               *)

ASSUME KmemAssumption ==
  /\ Alignment \in Nat \ {0} /\ Header \in Nat \ {0}
  /\ ArenaSize \in Nat /\ ArenaSize > Header
  /\ Word \in Nat /\ Word > ArenaSize /\ (Word % Alignment) = 0
  /\ Sizes \subseteq 0 .. (Word - 1)
  /\ MaxCalls \in Nat

VARIABLES
  list,     \* the blocks from g_kmem_head on
  asked,    \* history: the size asked for, of each block in use, by address
  inUse, peakInUse,             \* bytes
  allocCount, freeCount, failCount,
  live, peakLive                \* allocations

counters == <<inUse, peakInUse, allocCount, freeCount, failCount, live, peakLive>>
vars == <<list, asked, counters>>

Capacity == ArenaSize - Header
MaxOf(a, b) == IF a > b THEN a ELSE b

-----------------------------------------------------------------------------
(* Operations.                                                             *)

\* kmem_align_up, in 32 bits (mutated form: it rounds down)
AlignDown(size) == size - (size % Alignment)
AlignUp(size) ==
  LET sum == (size + Alignment - 1) % Word IN sum - (sum % Alignment)

\* kmem_split_block: the block i cut down to size (mutated form: the header
\* of the rest is not taken off its size)
SplitKeepingHeader(i, size) ==
  LET b == list[i]
      rest == b.size - size
  IN  IF rest <= Header + Alignment THEN <<b>>
      ELSE << [b EXCEPT !.size = size],
              [at |-> b.at + Header + size, size |-> rest, used |-> FALSE] >>
Split(i, size) ==
  LET b == list[i]
      rest == b.size - size
  IN  IF rest <= Header + Alignment THEN <<b>>
      ELSE << [b EXCEPT !.size = size],
              [at |-> b.at + Header + size, size |-> rest - Header, used |-> FALSE] >>

\* The blocks that fit
Fitting(size) == {i \in DOMAIN list : ~list[i].used /\ list[i].size >= size}

\* kmem_alloc, when it finds a block
Alloc(size) ==
  LET fits == Fitting(AlignUp(size))
      i == Min(fits)
      parts == Split(i, AlignUp(size))
      got == [parts[1] EXCEPT !.used = TRUE]
  IN  /\ allocCount + failCount < MaxCalls
      /\ size # 0
      /\ fits # {}
      /\ list' = SubSeq(list, 1, i - 1) \o <<got>> \o Tail(parts)
                   \o SubSeq(list, i + 1, Len(list))
      /\ asked' = [asked EXCEPT ![got.at] = size]
      /\ inUse' = inUse + got.size
      /\ peakInUse' = MaxOf(peakInUse, inUse')
      /\ allocCount' = allocCount + 1
      /\ live' = live + 1
      /\ peakLive' = MaxOf(peakLive, live')
      /\ UNCHANGED <<freeCount, failCount>>

\* kmem_alloc, when it returns 0
AllocFails(size) ==
  /\ allocCount + failCount < MaxCalls
  /\ size = 0 \/ Fitting(AlignUp(size)) = {}
  /\ failCount' = failCount + 1
  /\ UNCHANGED <<list, asked, inUse, peakInUse, allocCount, freeCount, live, peakLive>>

\* kmem_coalesce: each run of free blocks becomes one (mutated form: it
\* merges a block with its successor once, and goes on after the two)
Merge(a, b) == [a EXCEPT !.size = @ + Header + b.size]
CoalescePairs(blocks) ==
  LET add(d, b) ==
        IF d.open /\ ~b.used
        THEN [open |-> FALSE, list |-> [d.list EXCEPT ![Len(d.list)] = Merge(@, b)]]
        ELSE [open |-> ~b.used, list |-> Append(d.list, b)]
      done[k \in 0 .. Len(blocks)] ==
        IF k = 0 THEN [open |-> FALSE, list |-> <<>>] ELSE add(done[k - 1], blocks[k])
  IN  done[Len(blocks)].list
AddBlock(done, b) ==
  IF done # <<>> /\ ~done[Len(done)].used /\ ~b.used
  THEN [done EXCEPT ![Len(done)] = Merge(@, b)]
  ELSE Append(done, b)
CoalescedUpTo(blocks) ==
  LET done[k \in 0 .. Len(blocks)] ==
        IF k = 0 THEN <<>> ELSE AddBlock(done[k - 1], blocks[k])
  IN  done
Coalesce(blocks) == CoalescedUpTo(blocks)[Len(blocks)]

\* kmem_free of the i-th block, when it is in use; of any other block it
\* returns at once (mutated form: live_allocations is forgotten)
Uncounted(n) == n
Decremented(n) == IF n # 0 THEN n - 1 ELSE 0
Free(i) ==
  LET b == list[i]
  IN  /\ b.used
      /\ list' = Coalesce([list EXCEPT ![i].used = FALSE])
      /\ asked' = [asked EXCEPT ![b.at] = 0]
      /\ inUse' = IF inUse >= b.size THEN inUse - b.size ELSE 0
      /\ live' = Decremented(live)
      /\ freeCount' = freeCount + 1
      /\ UNCHANGED <<peakInUse, allocCount, failCount, peakLive>>

\* kmem_init
Init ==
  /\ list = <<[at |-> 0, size |-> Capacity, used |-> FALSE]>>
  /\ asked = [a \in 0 .. (ArenaSize - 1) |-> 0]
  /\ inUse = 0 /\ peakInUse = 0
  /\ allocCount = 0 /\ freeCount = 0 /\ failCount = 0
  /\ live = 0 /\ peakLive = 0

Next ==
  \/ \E size \in Sizes : Alloc(size)
  \/ \E size \in Sizes : AllocFails(size)
  \/ \E i \in DOMAIN list : Free(i)

Spec == Init /\ [][Next]_vars

-----------------------------------------------------------------------------
(* kmem_stats_snapshot: its walk of the list, one block after the other.   *)
(* usedBytes is what the blocks in use amount to, which the code does not  *)
(* count there but keeps call by call.                                     *)

NoBlocks == [freeBytes |-> 0, largestFree |-> 0, freeBlocks |-> 0, usedBlocks |-> 0, usedBytes |-> 0]
Count(s, b) ==
  IF b.used
  THEN [s EXCEPT !.usedBlocks = @ + 1, !.usedBytes = @ + b.size]
  ELSE [s EXCEPT !.freeBlocks = @ + 1, !.freeBytes = @ + b.size, !.largestFree = MaxOf(@, b.size)]
Walk(blocks) ==
  LET after[k \in 0 .. Len(blocks)] ==
        IF k = 0 THEN NoBlocks ELSE Count(after[k - 1], blocks[k])
  IN  after
Stats == Walk(list)[Len(list)]

-----------------------------------------------------------------------------
(* Properties.                                                             *)

(* The blocks tile the arena through every split and merge: the first      *)
(* starts it, each begins where the one before ends, and the last ends it, *)
(* so no two allocations overlap and no byte is lost (kmem_split_block,    *)
(* kmem_coalesce).                                                         *)
Tiled ==
  /\ list[1].at = 0
  /\ \A i \in DOMAIN list :
       LET end == list[i].at + Header + list[i].size
       IN  end = IF i = Len(list) THEN ArenaSize ELSE list[i + 1].at

(* No two neighbours are free, in whatever order blocks were released: a   *)
(* request fails only when no free stretch of the arena holds it           *)
(* (kmem_coalesce).                                                        *)
Coalesced == \A i \in 1 .. (Len(list) - 1) : list[i].used \/ list[i + 1].used

(* What the diagnostics report adds up: the counters kept call by call     *)
(* agree with the walk of the list that kmem_stats_snapshot makes, nothing *)
(* is in use twice or never released, and the peaks are reached.           *)
StatsAddUp ==
  /\ inUse = Stats.usedBytes
  /\ live = Stats.usedBlocks /\ live = allocCount - freeCount
  /\ Stats.freeBytes + inUse + (Stats.freeBlocks + Stats.usedBlocks) * Header = ArenaSize
  /\ Stats.largestFree <= Stats.freeBytes
  /\ inUse <= peakInUse /\ peakInUse <= Capacity /\ live <= peakLive

(* A caller gets at least what it asked for, unless rounding the request   *)
(* up leaves 32 bits (kmem_align_up).                                      *)
LargeEnough ==
  \A i \in DOMAIN list :
    list[i].used /\ asked[list[i].at] + Alignment <= Word => list[i].size >= asked[list[i].at]
=============================================================================
