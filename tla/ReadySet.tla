------------------------------ MODULE ReadySet ------------------------------
(***************************************************************************)
(* What the scheduler expects of its ready queue: a set of slots ordered   *)
(* by scheduler_vruntime_before, and in g_sched_rq_leftmost its least      *)
(* member.  Module Scheduler represents the queue this way, by onRq and    *)
(* IsLeftmost; module ReadyQueue implements it by a red-black tree.        *)
(***************************************************************************)
EXTENDS Naturals

CONSTANTS MaxProcesses, MaxVruntime

Slot == 0 .. (MaxProcesses - 1)
Nil == MaxProcesses                 \* UINT32_MAX

VARIABLES
  vruntime,  \* g_sched_vruntime
  members,   \* the slots on the queue
  least      \* the member scheduler_pick_next_ready returns, or Nil

vars == <<vruntime, members, least>>

\* scheduler_vruntime_before, the slots being numbered in pid order
Before(a, b) ==
  \/ vruntime[a] < vruntime[b]
  \/ vruntime[a] = vruntime[b] /\ a < b

IsLeast(s, S) ==
  \/ s \in S /\ \A r \in S : r = s \/ Before(s, r)
  \/ s = Nil /\ S = {}

\* A process off the queue is charged, or its slot is given to another one.
Charge(s, v) ==
  /\ s \notin members
  /\ vruntime' = [vruntime EXCEPT ![s] = v]
  /\ UNCHANGED <<members, least>>

Becomes(S) ==
  /\ members' = S
  /\ IsLeast(least', S)
  /\ UNCHANGED vruntime

Insert(s) == s \notin members /\ Becomes(members \cup {s})
Remove(s) == s \in members /\ Becomes(members \ {s})

Init ==
  /\ vruntime = [s \in Slot |-> 0]
  /\ members = {}
  /\ least = Nil

Next ==
  \E s \in Slot :
    \/ \E v \in 0 .. MaxVruntime : Charge(s, v)
    \/ Insert(s)
    \/ Remove(s)

Spec == Init /\ [][Next]_vars
=============================================================================
