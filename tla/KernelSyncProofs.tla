-------------------------- MODULE KernelSyncProofs --------------------------
(***************************************************************************)
(* Proofs about KernelSync, for any number of processes and objects, and   *)
(* about the tasks of Supervisor that use them.                            *)
(*                                                                         *)
(* Everything rests on one lemma per building block of the calls (WaitOn,  *)
(* Leave, MakeReady): the types it keeps, and what it does to the set of   *)
(* processes inside a wait.  The count of waiters is the key: it is what   *)
(* makes a destroy refuse, so no wait ever returns into a freed queue.     *)
(* Then messages and wake-ups: where each message is (MessageInv), and how *)
(* many of the waiters must have been woken.  These theorems use nothing   *)
(* of Supervisor, whose assumptions about its objects are cited only in    *)
(* the last part, about the tasks of that module.                          *)
(***************************************************************************)
EXTENDS Supervisor, NatLemmas

States == {"ready", "blocked", "dead", "lost"}

\* The part of TypeOK that waiting changes
WaitTyped ==
  /\ run \in [Proc -> States]
  /\ waiting \in [Proc -> Queues \cup {NoQueue}]
  /\ waiters \in [Queues -> Nat]
  /\ hung \in BOOLEAN

(* The wait queues of the objects are wait queues, and "not waiting" is    *)
(* none of them.                                                           *)
LEMMA QueueNames ==
  /\ \A o \in Simple : QueueOf(o) \in Queues
  /\ \A b \in Mailboxes : Senders(b) \in Queues /\ Receivers(b) \in Queues
  /\ NoQueue \notin Queues
  /\ NoProc \notin Proc
<1>1. NoProc \notin Proc
  BY SyncAssumption DEF NoProc, Proc
<1>2. NoQueue \notin Queues
  BY DEF NoQueue, Queues, QueueOf, Senders, Receivers
<1> QED
  BY <1>1, <1>2 DEF Queues

(* Both outcomes of kernel_wait_queue_wait keep the types.                 *)
LEMMA WaitOnTyped ==
  ASSUME WaitTyped, NEW p \in Proc, NEW q \in Queues, WaitOn(p, q)
  PROVE  WaitTyped'
<1>1. Left(p, q) \in Nat
  BY DEF WaitTyped, Left
<1>2. CASE q \in queueOk
  <2>1. /\ waiters' = [waiters EXCEPT ![q] = Left(p, q) + 1]
        /\ waiting' = [waiting EXCEPT ![p] = q]
        /\ run' = [run EXCEPT ![p] = "blocked"]
        /\ hung' = FALSE
    BY <1>2 DEF WaitOn
  <2>2. waiters' \in [Queues -> Nat]
    <3>1. Left(p, q) + 1 \in Nat
      BY <1>1
    <3> QED
      BY <2>1, <3>1 DEF WaitTyped
  <2>3. waiting' \in [Proc -> Queues \cup {NoQueue}]
    BY <2>1 DEF WaitTyped
  <2>4. run' \in [Proc -> States]
    BY <2>1 DEF WaitTyped, States
  <2> QED
    BY <2>1, <2>2, <2>3, <2>4 DEF WaitTyped
<1>3. CASE q \notin queueOk
  BY <1>3 DEF WaitOn, WaitTyped
<1> QED
  BY <1>2, <1>3

(* The end of a call keeps the types of the columns it changes.            *)
LEMMA LeaveTyped ==
  ASSUME WaitTyped, NEW p \in Proc, NEW q \in Queues, Leave(p, q)
  PROVE  waiting' \in [Proc -> Queues \cup {NoQueue}] /\ waiters' \in [Queues -> Nat]
<1>1. Left(p, q) \in Nat
  BY DEF WaitTyped, Left
<1> QED
  BY <1>1 DEF Leave, WaitTyped

(* A wake-up keeps the types, whomever it wakes.                           *)
LEMMA MakeReadyTyped ==
  ASSUME WaitTyped, NEW W, MakeReady(W)
  PROVE  run' \in [Proc -> States]
BY DEF MakeReady, WaitTyped, States

(* One turn of a send keeps the types.                                     *)
LEMMA SendTurnTyped ==
  ASSUME TypeOK, NEW p \in Proc, NEW b \in Mailboxes, NEW msg \in Message \cup {NoMessage},
         SendTurn(p, b, msg)
  PROVE  /\ WaitTyped'
         /\ mail' \in [Mailboxes -> Message \cup {NoMessage}]
         /\ arg' \in [Proc -> Message \cup {NoMessage}]
<1>0. WaitTyped
  BY DEF TypeOK, WaitTyped, States
<1>1. Senders(b) \in Queues
  BY QueueNames
<1>2. CASE mail[b] = NoMessage
  <2>1. waiting' \in [Proc -> Queues \cup {NoQueue}] /\ waiters' \in [Queues -> Nat]
    BY <1>0, <1>1, <1>2, LeaveTyped DEF SendTurn
  <2>2. run' \in [Proc -> States]
    BY <1>0, <1>2, MakeReadyTyped DEF SendTurn
  <2>3. hung' \in BOOLEAN
    BY <1>0, <1>2 DEF SendTurn, WaitTyped
  <2> QED
    BY <1>2, <2>1, <2>2, <2>3 DEF SendTurn, TypeOK, WaitTyped
<1>3. CASE mail[b] # NoMessage
  <2>1. WaitTyped'
    BY <1>0, <1>1, <1>3, WaitOnTyped DEF SendTurn
  <2> QED
    BY <1>3, <2>1 DEF SendTurn, TypeOK
<1> QED
  BY <1>2, <1>3

(* Every call, and every interference, keeps the types.                    *)
LEMMA TypeStep == TypeOK /\ [Next]_vars => TypeOK'
<1> SUFFICES ASSUME TypeOK, [Next]_vars PROVE TypeOK'
  OBVIOUS
<1>0. WaitTyped
  BY DEF TypeOK, WaitTyped, States
<1>1. ASSUME NEW p \in Proc, NEW o \in Semaphores, Acquire(p, o) PROVE TypeOK'
  <2>1. QueueOf(o) \in Queues
    BY QueueNames DEF Simple
  <2>2. CASE count[o] # 0
    <3>1. waiting' \in [Proc -> Queues \cup {NoQueue}] /\ waiters' \in [Queues -> Nat]
      BY <1>0, <1>1, <2>1, <2>2, LeaveTyped DEF Acquire
    <3>2. count' \in [Semaphores -> 0 .. MaxCount]
      BY <1>1, <2>2, SyncAssumption DEF Acquire, TypeOK
    <3> QED
      BY <1>1, <2>2, <3>1, <3>2 DEF Acquire, TypeOK, objects, history
  <2>3. CASE count[o] = 0
    <3>1. WaitTyped'
      BY <1>0, <1>1, <2>1, <2>3, WaitOnTyped DEF Acquire
    <3> QED
      BY <1>1, <2>3, <3>1 DEF Acquire, TypeOK, WaitTyped, States, objects, history
  <2> QED
    BY <2>2, <2>3
<1>2. ASSUME NEW p \in Proc, NEW o \in Semaphores, Release(p, o) PROVE TypeOK'
  <2>1. run' \in [Proc -> States]
    BY <1>0, <1>2, MakeReadyTyped DEF Release
  <2>2. count' \in [Semaphores -> 0 .. MaxCount]
    BY <1>2, SyncAssumption DEF Release, TypeOK
  <2> QED
    BY <1>2, <2>1, <2>2 DEF Release, TypeOK, States, objects, history
<1>3. ASSUME NEW p \in Proc, NEW o \in Mutexes, Lock(p, o) PROVE TypeOK'
  <2>1. QueueOf(o) \in Queues
    BY QueueNames DEF Simple
  <2>2. CASE owner[o] = NoProc
    <3>1. waiting' \in [Proc -> Queues \cup {NoQueue}] /\ waiters' \in [Queues -> Nat]
      BY <1>0, <1>3, <2>1, <2>2, LeaveTyped DEF Lock
    <3>2. owner' \in [Mutexes -> Proc \cup {NoProc}] /\ holders' \in SUBSET (Proc \X Mutexes)
      BY <1>3, <2>2 DEF Lock, TypeOK
    <3> QED
      BY <1>3, <2>2, <3>1, <3>2 DEF Lock, TypeOK, objects
  <2>3. CASE owner[o] # NoProc
    <3>1. WaitTyped'
      BY <1>0, <1>3, <2>1, <2>3, WaitOnTyped DEF Lock
    <3> QED
      BY <1>3, <2>3, <3>1 DEF Lock, TypeOK, WaitTyped, States, objects
  <2> QED
    BY <2>2, <2>3
<1>4. ASSUME NEW p \in Proc, NEW o \in Mutexes, Unlock(p, o) PROVE TypeOK'
  <2>1. run' \in [Proc -> States]
    BY <1>0, <1>4, MakeReadyTyped DEF Unlock
  <2>2. owner' \in [Mutexes -> Proc \cup {NoProc}] /\ holders' \in SUBSET (Proc \X Mutexes)
    BY <1>4 DEF Unlock, TypeOK
  <2> QED
    BY <1>4, <2>1, <2>2 DEF Unlock, TypeOK, States, objects
<1>5. ASSUME NEW p \in Proc, NEW b \in Mailboxes, CallSend(p, b) PROVE TypeOK'
  <2>1. sent' \in 0 .. MaxMessages /\ sent + 1 \in Message
    BY <1>5, SyncAssumption DEF CallSend, TypeOK, Message
  <2>2. /\ WaitTyped'
        /\ mail' \in [Mailboxes -> Message \cup {NoMessage}]
        /\ arg' \in [Proc -> Message \cup {NoMessage}]
    BY <1>5, <2>1, SendTurnTyped DEF CallSend
  <2> QED
    BY <1>5, <2>1, <2>2 DEF CallSend, TypeOK, WaitTyped, States, objects
<1>6. ASSUME NEW p \in Proc, NEW b \in Mailboxes, ResumeSend(p, b) PROVE TypeOK'
  <2>1. arg[p] \in Message \cup {NoMessage}
    BY DEF TypeOK
  <2>2. /\ WaitTyped'
        /\ mail' \in [Mailboxes -> Message \cup {NoMessage}]
        /\ arg' \in [Proc -> Message \cup {NoMessage}]
    BY <1>6, <2>1, SendTurnTyped DEF ResumeSend
  <2> QED
    BY <1>6, <2>2 DEF ResumeSend, TypeOK, WaitTyped, States, objects, history
<1>7. ASSUME NEW p \in Proc, NEW b \in Mailboxes, Receive(p, b) PROVE TypeOK'
  <2>1. Receivers(b) \in Queues
    BY QueueNames
  <2>2. CASE mail[b] # NoMessage
    <3>1. waiting' \in [Proc -> Queues \cup {NoQueue}] /\ waiters' \in [Queues -> Nat]
      BY <1>0, <1>7, <2>1, <2>2, LeaveTyped DEF Receive
    <3>2. run' \in [Proc -> States]
      BY <1>0, <1>7, <2>2, MakeReadyTyped DEF Receive
    <3>3. /\ mail' \in [Mailboxes -> Message \cup {NoMessage}]
          /\ delivered' \in SUBSET Message
      BY <1>7, <2>2 DEF Receive, TypeOK
    <3> QED
      BY <1>7, <2>2, <3>1, <3>2, <3>3 DEF Receive, TypeOK, States, objects
  <2>3. CASE mail[b] = NoMessage
    <3>1. WaitTyped'
      BY <1>0, <1>7, <2>1, <2>3, WaitOnTyped DEF Receive
    <3> QED
      BY <1>7, <2>3, <3>1 DEF Receive, TypeOK, WaitTyped, States, objects
  <2> QED
    BY <2>2, <2>3
<1>8. ASSUME NEW p \in Proc, NEW o \in Events, CallEventWait(p, o) PROVE TypeOK'
  <2>1. QueueOf(o) \in Queues
    BY QueueNames DEF Simple
  <2>2. WaitTyped'
    BY <1>0, <1>8, <2>1, WaitOnTyped DEF CallEventWait
  <2> QED
    BY <1>8, <2>2 DEF CallEventWait, TypeOK, WaitTyped, States, objects, history
<1>9. ASSUME NEW p \in Proc, NEW o \in Events, EventWaitReturns(p, o) PROVE TypeOK'
  <2>1. QueueOf(o) \in Queues
    BY QueueNames DEF Simple
  <2>2. waiting' \in [Proc -> Queues \cup {NoQueue}] /\ waiters' \in [Queues -> Nat]
    BY <1>0, <1>9, <2>1, LeaveTyped DEF EventWaitReturns
  <2> QED
    BY <1>9, <2>2 DEF EventWaitReturns, TypeOK, objects, history
<1>10. ASSUME NEW p \in Proc, NEW o \in Events, Signal(p, o) PROVE TypeOK'
  <2>1. run' \in [Proc -> States]
    BY <1>0, <1>10, MakeReadyTyped DEF Signal
  <2> QED
    BY <1>10, <2>1 DEF Signal, TypeOK, States, objects, history
<1>11. ASSUME NEW p \in Proc, NEW o \in Simple, Destroy(p, o) PROVE TypeOK'
  BY <1>11 DEF Destroy, TypeOK, procs, history
<1>12. ASSUME NEW p \in Proc, NEW b \in Mailboxes, DestroyMailbox(p, b) PROVE TypeOK'
  BY <1>12 DEF DestroyMailbox, TypeOK, procs, history
<1>13. ASSUME NEW p \in Proc, Kill(p) PROVE TypeOK'
  BY <1>13 DEF Kill, TypeOK, objects, history
<1>14. ASSUME NEW p \in Proc, Wake(p) PROVE TypeOK'
  BY <1>14 DEF Wake, TypeOK, objects, history
<1>15. CASE UNCHANGED vars
  BY <1>15 DEF vars, procs, objects, history, TypeOK
<1> QED
  BY <1>1, <1>2, <1>3, <1>4, <1>5, <1>6, <1>7, <1>8, <1>9, <1>10, <1>11, <1>12, <1>13,
     <1>14, <1>15 DEF Next, ProcStep

(* The fields of all objects, and the count of a semaphore between 0 and   *)
(* max_count in particular, stay in range.                                 *)
THEOREM SyncTypeCorrect == Spec => []TypeOK
<1>1. Init => TypeOK
  <2> SUFFICES ASSUME Init PROVE TypeOK
    OBVIOUS
  <2>1. waiters \in [Queues -> Nat] /\ waiting \in [Proc -> Queues \cup {NoQueue}]
    BY DEF Init
  <2>2. count \in [Semaphores -> 0 .. MaxCount] /\ sent \in 0 .. MaxMessages
    BY SyncAssumption DEF Init
  <2> QED
    BY <2>1, <2>2 DEF Init, TypeOK
<1> QED
  BY <1>1, TypeStep, PTL DEF Spec

-----------------------------------------------------------------------------
(* The count of waiters.                                                   *)

(* The processes inside a wait can be counted, and none are if the count   *)
(* is zero.                                                                *)
LEMMA InsideFinite ==
  ASSUME NEW q
  PROVE  /\ IsFiniteSet(Inside(q))
         /\ Cardinality(Inside(q)) \in Nat
         /\ Cardinality(Inside(q)) = 0 <=> Inside(q) = {}
<1>1. IsFiniteSet(Proc)
  BY SyncAssumption, FS_Interval DEF Proc
<1>2. Inside(q) \subseteq Proc
  BY DEF Inside
<1>3. IsFiniteSet(Inside(q))
  BY <1>1, <1>2, FS_Subset
<1> QED
  BY <1>3, FS_CardinalityType, FS_EmptySet

(* A process that waits is counted once, whether it waits for the first    *)
(* time or again after a wake-up.                                          *)
LEMMA WaitOnCounts ==
  ASSUME TypeOK, WaitersCounted, NEW p \in Proc, NEW q \in Queues,
         Turn(p, q), WaitOn(p, q)
  PROVE  WaitersCounted'
<1> USE DEF Inside
<1>1. CASE q \notin queueOk
  BY <1>1 DEF WaitOn, WaitersCounted
<1>2. CASE q \in queueOk
  <2>1. /\ waiters' = [waiters EXCEPT ![q] = Left(p, q) + 1]
        /\ waiting' = [waiting EXCEPT ![p] = q]
    BY <1>2 DEF WaitOn
  <2>2. waiters \in [Queues -> Nat] /\ waiting \in [Proc -> Queues \cup {NoQueue}]
    BY DEF TypeOK
  <2>3. waiters[q] = Cardinality(Inside(q))
    BY DEF WaitersCounted
  <2>4. ASSUME NEW r \in Queues, r # q PROVE waiters'[r] = Cardinality(Inside(r)')
    <3>1. NoQueue # r
      BY QueueNames
    <3>2. Inside(r)' = Inside(r)
      BY <2>1, <2>2, <2>4, <3>1 DEF Turn
    <3> QED
      BY <2>1, <2>2, <2>4, <3>2 DEF WaitersCounted
  <2>5. waiters'[q] = Cardinality(Inside(q)')
    <3>1. waiters'[q] = Left(p, q) + 1
      BY <2>1, <2>2
    <3>2. CASE waiting[p] = q
      <4>1. Inside(q)' = Inside(q) /\ p \in Inside(q)
        BY <2>1, <2>2, <3>2
      <4>2. waiters[q] # 0
        BY <2>3, <4>1, InsideFinite
      <4>3. Left(p, q) + 1 = waiters[q]
        BY <2>2, <3>2, <4>2 DEF Left
      <4> QED
        BY <2>3, <3>1, <4>1, <4>3
    <3>3. CASE waiting[p] # q
      <4>1. Inside(q)' = Inside(q) \cup {p} /\ p \notin Inside(q)
        BY <2>1, <2>2, <3>3
      <4>2. Cardinality(Inside(q) \cup {p}) = Cardinality(Inside(q)) + 1
        BY <4>1, InsideFinite, FS_AddElement
      <4>3. Left(p, q) = waiters[q]
        BY <3>3 DEF Left
      <4> QED
        BY <2>3, <3>1, <4>1, <4>2, <4>3
    <3> QED
      BY <3>2, <3>3
  <2> QED
    BY <2>4, <2>5 DEF WaitersCounted
<1> QED
  BY <1>1, <1>2

(* A process that ends its call is no longer counted.                      *)
LEMMA LeaveCounts ==
  ASSUME TypeOK, WaitersCounted, NEW p \in Proc, NEW q \in Queues,
         Turn(p, q), Leave(p, q)
  PROVE  WaitersCounted'
<1> USE DEF Inside
<1>1. /\ waiters' = [waiters EXCEPT ![q] = Left(p, q)]
      /\ waiting' = [waiting EXCEPT ![p] = NoQueue]
  BY DEF Leave
<1>2. waiters \in [Queues -> Nat] /\ waiting \in [Proc -> Queues \cup {NoQueue}]
  BY DEF TypeOK
<1>3. waiters[q] = Cardinality(Inside(q))
  BY DEF WaitersCounted
<1>4. ASSUME NEW r \in Queues, r # q PROVE waiters'[r] = Cardinality(Inside(r)')
  <2>1. NoQueue # r
    BY QueueNames
  <2>2. Inside(r)' = Inside(r)
    BY <1>1, <1>2, <1>4, <2>1 DEF Turn
  <2> QED
    BY <1>1, <1>2, <1>4, <2>2 DEF WaitersCounted
<1>5. waiters'[q] = Cardinality(Inside(q)')
  <2>0. NoQueue # q
    BY QueueNames
  <2>1. waiters'[q] = Left(p, q)
    BY <1>1, <1>2
  <2>2. CASE waiting[p] = q
    <3>1. Inside(q)' = Inside(q) \ {p} /\ p \in Inside(q)
      BY <1>1, <1>2, <2>0, <2>2
    <3>2. waiters[q] # 0
      BY <1>3, <3>1, InsideFinite
    <3>3. Cardinality(Inside(q) \ {p}) = Cardinality(Inside(q)) - 1
      BY <3>1, InsideFinite, FS_RemoveElement
    <3>4. Left(p, q) = waiters[q] - 1
      BY <2>2, <3>2 DEF Left
    <3> QED
      BY <1>3, <2>1, <3>1, <3>3, <3>4
  <2>3. CASE waiting[p] # q
    <3>1. Inside(q)' = Inside(q)
      BY <1>1, <1>2, <2>0, <2>3
    <3>2. Left(p, q) = waiters[q]
      BY <2>3 DEF Left
    <3> QED
      BY <1>3, <2>1, <3>1, <3>2
  <2> QED
    BY <2>2, <2>3
<1> QED
  BY <1>4, <1>5 DEF WaitersCounted

(* A send, first turn or later, waits or leaves.                           *)
LEMMA SendTurnCounts ==
  ASSUME TypeOK, WaitersCounted, NEW p \in Proc, NEW b \in Mailboxes, NEW msg,
         Turn(p, Senders(b)), SendTurn(p, b, msg)
  PROVE  WaitersCounted'
<1>1. Senders(b) \in Queues
  BY QueueNames
<1>2. CASE mail[b] = NoMessage
  BY <1>1, <1>2, LeaveCounts DEF SendTurn
<1>3. CASE mail[b] # NoMessage
  BY <1>1, <1>3, WaitOnCounts DEF SendTurn
<1> QED
  BY <1>2, <1>3

(* Each step keeps the counts right: it waits, leaves, or has nothing to   *)
(* do with a wait; a kill leaves its victim inside.                        *)
LEMMA CountStep == TypeOK /\ WaitersCounted /\ [Next]_vars => WaitersCounted'
<1> SUFFICES ASSUME TypeOK, WaitersCounted, [Next]_vars PROVE WaitersCounted'
  OBVIOUS
<1>0. ASSUME UNCHANGED <<waiting, waiters>> PROVE WaitersCounted'
  BY <1>0 DEF WaitersCounted, Inside
<1>1. ASSUME NEW p \in Proc, NEW o \in Semaphores, Acquire(p, o) PROVE WaitersCounted'
  <2>1. QueueOf(o) \in Queues
    BY QueueNames DEF Simple
  <2> QED
    BY <1>1, <2>1, LeaveCounts, WaitOnCounts DEF Acquire
<1>2. ASSUME NEW p \in Proc, NEW o \in Mutexes, Lock(p, o) PROVE WaitersCounted'
  <2>1. QueueOf(o) \in Queues
    BY QueueNames DEF Simple
  <2> QED
    BY <1>2, <2>1, LeaveCounts, WaitOnCounts DEF Lock
<1>3. ASSUME NEW p \in Proc, NEW b \in Mailboxes, CallSend(p, b) PROVE WaitersCounted'
  <2>1. Turn(p, Senders(b))
    BY <1>3 DEF CallSend, Fresh, Turn
  <2> QED
    BY <1>3, <2>1, SendTurnCounts DEF CallSend
<1>4. ASSUME NEW p \in Proc, NEW b \in Mailboxes, ResumeSend(p, b) PROVE WaitersCounted'
  BY <1>4, SendTurnCounts DEF ResumeSend
<1>5. ASSUME NEW p \in Proc, NEW b \in Mailboxes, Receive(p, b) PROVE WaitersCounted'
  <2>1. Receivers(b) \in Queues
    BY QueueNames
  <2> QED
    BY <1>5, <2>1, LeaveCounts, WaitOnCounts DEF Receive
<1>6. ASSUME NEW p \in Proc, NEW o \in Events, CallEventWait(p, o) \/ EventWaitReturns(p, o)
      PROVE WaitersCounted'
  <2>1. QueueOf(o) \in Queues
    BY QueueNames DEF Simple
  <2>2. CASE CallEventWait(p, o)
    <3>1. Turn(p, QueueOf(o))
      BY <2>2 DEF CallEventWait, Fresh, Turn
    <3> QED
      BY <2>1, <2>2, <3>1, WaitOnCounts DEF CallEventWait
  <2>3. CASE EventWaitReturns(p, o)
    BY <2>1, <2>3, LeaveCounts DEF EventWaitReturns
  <2> QED
    BY <1>6, <2>2, <2>3
<1>7. ASSUME NEW p \in Proc, NEW o \in Objects,
             Release(p, o) \/ Unlock(p, o) \/ Signal(p, o) \/ Destroy(p, o) \/ DestroyMailbox(p, o)
      PROVE WaitersCounted'
  BY <1>0, <1>7 DEF Release, Unlock, Signal, Destroy, DestroyMailbox, procs
<1>8. ASSUME NEW p \in Proc, Kill(p) \/ Wake(p) PROVE WaitersCounted'
  BY <1>0, <1>8 DEF Kill, Wake
<1>9. CASE UNCHANGED vars
  BY <1>0, <1>9 DEF vars, procs
<1> QED
  BY <1>1, <1>2, <1>3, <1>4, <1>5, <1>6, <1>7, <1>8, <1>9 DEF Next, ProcStep, Objects, Simple

(* waiter_count is the number of processes inside the wait, for any number *)
(* of processes, wakes and kills.                                          *)
THEOREM CountsWaiters == Spec => []WaitersCounted
<1>1. Init => WaitersCounted
  <2> SUFFICES ASSUME Init, NEW q \in Queues PROVE waiters[q] = Cardinality(Inside(q))
    BY DEF WaitersCounted
  <2>1. Inside(q) = {}
    BY QueueNames DEF Init, Inside
  <2> QED
    BY <2>1, FS_EmptySet DEF Init
<1> QED
  BY <1>1, SyncTypeCorrect, CountStep, PTL DEF Spec

-----------------------------------------------------------------------------
(* Destruction, and mutual exclusion.                                      *)

(* A destroy that is not refused finds nobody inside the wait.             *)
LEMMA UnusedIsEmpty ==
  ASSUME TypeOK, WaitersCounted, NEW q \in Queues, ~InUse(q), NEW p \in Proc
  PROVE  waiting[p] # q
<1>1. Cardinality(Inside(q)) = 0
  BY DEF InUse, WaitersCounted
<1>2. Inside(q) = {}
  BY <1>1, InsideFinite
<1> QED
  BY <1>2 DEF Inside

(* Waiting and leaving keep every waiter in an intact queue.               *)
LEMMA WaitOnIntact ==
  ASSUME TypeOK, NoWaitOnFreed, NEW p \in Proc, NEW q, UNCHANGED queueOk,
         WaitOn(p, q) \/ Leave(p, q)
  PROVE  NoWaitOnFreed'
<1>1. waiting \in [Proc -> Queues \cup {NoQueue}]
  BY DEF TypeOK
<1> QED
  BY <1>1 DEF WaitOn, Leave, NoWaitOnFreed

(* A destroy takes away only queues that nobody is inside.                 *)
LEMMA FreedStep ==
  TypeOK /\ WaitersCounted /\ NoWaitOnFreed /\ [Next]_vars => NoWaitOnFreed'
<1> SUFFICES ASSUME TypeOK, WaitersCounted, NoWaitOnFreed, [Next]_vars
             PROVE NoWaitOnFreed'
  OBVIOUS
<1>0. ASSUME UNCHANGED <<waiting, queueOk>> PROVE NoWaitOnFreed'
  BY <1>0 DEF NoWaitOnFreed
<1>1. ASSUME NEW p \in Proc, NEW o, Acquire(p, o) \/ Lock(p, o) PROVE NoWaitOnFreed'
  BY <1>1, WaitOnIntact DEF Acquire, Lock, objects
<1>2. ASSUME NEW p \in Proc, NEW b, CallSend(p, b) \/ ResumeSend(p, b) PROVE NoWaitOnFreed'
  BY <1>2, WaitOnIntact DEF CallSend, ResumeSend, SendTurn, objects
<1>3. ASSUME NEW p \in Proc, NEW b, Receive(p, b) PROVE NoWaitOnFreed'
  BY <1>3, WaitOnIntact DEF Receive, objects
<1>4. ASSUME NEW p \in Proc, NEW o, CallEventWait(p, o) \/ EventWaitReturns(p, o)
      PROVE NoWaitOnFreed'
  BY <1>4, WaitOnIntact DEF CallEventWait, EventWaitReturns, objects
<1>5. ASSUME NEW p \in Proc, NEW o, Release(p, o) \/ Unlock(p, o) \/ Signal(p, o)
      PROVE NoWaitOnFreed'
  BY <1>0, <1>5 DEF Release, Unlock, Signal, objects
<1>6. ASSUME NEW p \in Proc, NEW o \in Simple, Destroy(p, o) PROVE NoWaitOnFreed'
  <2>1. \A r \in Proc : waiting[r] # QueueOf(o)
    BY <1>6, QueueNames, UnusedIsEmpty DEF Destroy
  <2> QED
    BY <1>6, <2>1 DEF Destroy, procs, NoWaitOnFreed
<1>7. ASSUME NEW p \in Proc, NEW b \in Mailboxes, DestroyMailbox(p, b) PROVE NoWaitOnFreed'
  <2>1. \A r \in Proc : waiting[r] # Senders(b)
    BY <1>7, QueueNames, UnusedIsEmpty DEF DestroyMailbox
  <2>2. CASE InUse(Receivers(b))
    BY <1>7, <2>1, <2>2 DEF DestroyMailbox, procs, NoWaitOnFreed
  <2>3. CASE ~InUse(Receivers(b))
    <3>1. \A r \in Proc : waiting[r] # Receivers(b)
      BY <2>3, QueueNames, UnusedIsEmpty
    <3> QED
      BY <1>7, <2>1, <2>3, <3>1 DEF DestroyMailbox, procs, NoWaitOnFreed
  <2> QED
    BY <2>2, <2>3
<1>8. ASSUME NEW p \in Proc, Kill(p) \/ Wake(p) PROVE NoWaitOnFreed'
  BY <1>0, <1>8 DEF Kill, Wake, objects
<1>9. CASE UNCHANGED vars
  BY <1>0, <1>9 DEF vars, procs, objects
<1> QED
  BY <1>1, <1>2, <1>3, <1>4, <1>5, <1>6, <1>7, <1>8, <1>9 DEF Next, ProcStep

(* No process returns from kernel_wait_queue_wait into a wait queue that   *)
(* kernel_wait_queue_destroy has freed, killed and spuriously woken ones   *)
(* included.                                                               *)
THEOREM WaitsStaySafe == Spec => []NoWaitOnFreed
<1>1. Init => NoWaitOnFreed
  BY DEF Init, NoWaitOnFreed
<1> QED
  BY <1>1, SyncTypeCorrect, CountsWaiters, FreedStep, PTL DEF Spec

(* Only a lock of a free mutex and the unlock by its owner change who is   *)
(* inside.                                                                 *)
LEMMA MutexStep == TypeOK /\ MutexExclusive /\ [Next]_vars => MutexExclusive'
<1> SUFFICES ASSUME TypeOK, MutexExclusive, [Next]_vars PROVE MutexExclusive'
  OBVIOUS
<1>0. ASSUME UNCHANGED <<owner, holders>> PROVE MutexExclusive'
  BY <1>0 DEF MutexExclusive
<1>a. owner \in [Mutexes -> Proc \cup {NoProc}]
  BY DEF TypeOK
<1>b. NoProc \notin Proc
  BY SyncAssumption DEF NoProc, Proc
<1>1. ASSUME NEW p \in Proc, NEW o \in Mutexes, Lock(p, o) PROVE MutexExclusive'
  <2>1. CASE owner[o] = NoProc
    <3>1. /\ owner' = [owner EXCEPT ![o] = p]
          /\ holders' = holders \cup {<<p, o>>}
      BY <1>1, <2>1 DEF Lock
    <3>2. \A r \in Proc : <<r, o>> \notin holders
      BY <1>b, <2>1 DEF MutexExclusive
    <3> QED
      BY <1>a, <3>1, <3>2 DEF MutexExclusive
  <2>2. CASE owner[o] # NoProc
    BY <1>0, <1>1, <2>2 DEF Lock
  <2> QED
    BY <2>1, <2>2
<1>2. ASSUME NEW p \in Proc, NEW o \in Mutexes, Unlock(p, o) PROVE MutexExclusive'
  <2>1. /\ owner[o] = p
        /\ owner' = [owner EXCEPT ![o] = NoProc]
        /\ holders' = holders \ {<<p, o>>}
    BY <1>2 DEF Unlock
  <2> QED
    BY <1>a, <1>b, <2>1 DEF MutexExclusive
<1>3. ASSUME NEW p \in Proc, NEW o, Acquire(p, o) \/ Release(p, o) PROVE MutexExclusive'
  BY <1>0, <1>3 DEF Acquire, Release, history
<1>4. ASSUME NEW p \in Proc, NEW b, CallSend(p, b) \/ ResumeSend(p, b) \/ Receive(p, b)
      PROVE MutexExclusive'
  BY <1>0, <1>4 DEF CallSend, ResumeSend, Receive, history
<1>5. ASSUME NEW p \in Proc, NEW o,
             CallEventWait(p, o) \/ EventWaitReturns(p, o) \/ Signal(p, o)
      PROVE MutexExclusive'
  BY <1>0, <1>5 DEF CallEventWait, EventWaitReturns, Signal, history
<1>6. ASSUME NEW p \in Proc, NEW o, Destroy(p, o) \/ DestroyMailbox(p, o)
      PROVE MutexExclusive'
  BY <1>0, <1>6 DEF Destroy, DestroyMailbox, history
<1>7. ASSUME NEW p \in Proc, Kill(p) \/ Wake(p) PROVE MutexExclusive'
  BY <1>0, <1>7 DEF Kill, Wake, history
<1>8. CASE UNCHANGED vars
  BY <1>0, <1>8 DEF vars, history
<1> QED
  BY <1>1, <1>2, <1>3, <1>4, <1>5, <1>6, <1>7, <1>8 DEF Next, ProcStep

(* At most one process is between its kernel_mutex_lock and its            *)
(* kernel_mutex_unlock, and owner_pid names it.                            *)
THEOREM LockExcludes == Spec => []MutexExclusive
<1>1. Init => MutexExclusive
  BY SyncAssumption DEF Init, MutexExclusive, NoProc, Proc
<1> QED
  BY <1>1, SyncTypeCorrect, MutexStep, PTL DEF Spec

-----------------------------------------------------------------------------
(* Messages.                                                               *)

\* The senders' queues of the mailboxes
SenderQueues == {Senders(b) : b \in Mailboxes}

\* The inductive invariant behind MessagesOnce: its parts say in which two
\* places a message cannot be, that it is in some, that numbers not given
\* out yet are in none, and that a process holds a message just while it is
\* inside a send (a loop that hangs stops everything, before or inside one).
OneSender ==
  \A p, r \in Proc : arg[p] # NoMessage /\ arg[p] = arg[r] => p = r
OneMailbox ==
  \A b, c \in Mailboxes : mail[b] # NoMessage /\ mail[b] = mail[c] => b = c
NotBoth ==
  \A p \in Proc, b \in Mailboxes : arg[p] # NoMessage => arg[p] # mail[b]
NotAgain ==
  /\ \A p \in Proc : arg[p] \notin delivered
  /\ \A b \in Mailboxes : mail[b] \notin delivered
Somewhere(msg) ==
  \/ msg \in delivered
  \/ \E p \in Proc : arg[p] = msg
  \/ \E b \in Mailboxes : mail[b] = msg
NoneMissing == \A msg \in 1 .. sent : Somewhere(msg)
Numbered ==
  /\ \A p \in Proc : arg[p] <= sent
  /\ \A b \in Mailboxes : mail[b] <= sent
  /\ \A msg \in delivered : msg <= sent
SendersHold ==
  ~hung => \A p \in Proc : arg[p] # NoMessage <=> waiting[p] \in SenderQueues
MessagePlaces ==
  OneSender /\ OneMailbox /\ NotBoth /\ NotAgain /\ NoneMissing /\ Numbered
MessageInv == MessagePlaces /\ SendersHold

(* Messages are numbered from 1.                                           *)
LEMMA MessageTypes ==
  ASSUME TypeOK
  PROVE  /\ arg \in [Proc -> Message \cup {NoMessage}] /\ \A r \in Proc : arg[r] \in Nat
         /\ mail \in [Mailboxes -> Message \cup {NoMessage}] /\ \A c \in Mailboxes : mail[c] \in Nat
         /\ sent \in Nat /\ delivered \in SUBSET Message
         /\ Message \subseteq Nat /\ NoMessage = 0 /\ NoMessage \notin Message
<1>1. /\ Message \cup {NoMessage} \subseteq Nat
      /\ NoMessage = 0 /\ NoMessage \notin Message
  BY SyncAssumption DEF Message, NoMessage
<1>2. /\ arg \in [Proc -> Message \cup {NoMessage}]
      /\ mail \in [Mailboxes -> Message \cup {NoMessage}]
      /\ sent \in Nat /\ delivered \in SUBSET Message
  BY SyncAssumption DEF TypeOK
<1> QED
  BY <1>1, <1>2

(* A message that is put into an empty mailbox leaves its sender, new or   *)
(* retrying, and is nowhere else.                                          *)
LEMMA PutPlaces ==
  ASSUME TypeOK, MessagePlaces, NEW p \in Proc, NEW b \in Mailboxes, NEW msg \in Message,
         mail[b] = NoMessage,
         mail' = [mail EXCEPT ![b] = msg], arg' = [arg EXCEPT ![p] = NoMessage],
         UNCHANGED delivered,
         \/ sent' = sent /\ arg[p] = msg
         \/ sent' = sent + 1 /\ msg = sent + 1 /\ arg[p] = NoMessage
  PROVE  MessagePlaces'
<1>0. /\ arg \in [Proc -> Message \cup {NoMessage}] /\ \A r \in Proc : arg[r] \in Nat
      /\ mail \in [Mailboxes -> Message \cup {NoMessage}] /\ \A c \in Mailboxes : mail[c] \in Nat
      /\ sent \in Nat /\ delivered \in SUBSET Message
      /\ Message \subseteq Nat /\ NoMessage = 0 /\ NoMessage \notin Message
  BY MessageTypes
<1>1. /\ \A r \in Proc : arg[r] # msg \/ r = p
      /\ \A c \in Mailboxes : mail[c] # msg
      /\ msg \notin delivered
  <2>1. CASE arg[p] = msg
    BY <1>0, <2>1 DEF MessagePlaces, OneSender, NotBoth, NotAgain
  <2>2. CASE msg = sent + 1
    BY <1>0, <2>2 DEF MessagePlaces, Numbered
  <2> QED
    BY <2>1, <2>2
<1>2. OneSender' /\ OneMailbox'
  BY <1>0, <1>1 DEF MessagePlaces, OneSender, OneMailbox
<1>3. NotBoth' /\ NotAgain'
  BY <1>0, <1>1 DEF MessagePlaces, NotBoth, NotAgain
<1>4. Numbered'
  <2>1. msg <= sent'
    BY <1>0 DEF MessagePlaces, Numbered
  <2>2. sent <= sent' /\ sent' \in Nat
    BY <1>0
  <2>3. \A r \in Proc : arg'[r] <= sent'
    BY <1>0, <2>1, <2>2 DEF MessagePlaces, Numbered
  <2>4. \A c \in Mailboxes : mail'[c] <= sent'
    <3>1. \A c \in Mailboxes : mail[c] \in Nat /\ mail[c] <= sent
      BY <1>0 DEF MessagePlaces, Numbered
    <3> QED
      BY <1>0, <2>1, <2>2, <3>1
  <2>5. \A m \in delivered' : m <= sent'
    <3>1. \A m \in delivered : m \in Nat /\ m <= sent
      BY <1>0 DEF MessagePlaces, Numbered
    <3> QED
      BY <1>0, <2>2, <3>1
  <2> QED
    BY <2>3, <2>4, <2>5 DEF Numbered
<1>5. NoneMissing'
  <2> SUFFICES ASSUME NEW m \in 1 .. sent' PROVE Somewhere(m)'
    BY DEF NoneMissing
  <2>1. CASE m = msg
    BY <1>0, <2>1 DEF Somewhere
  <2>2. CASE m # msg
    <3>1. m \in 1 .. sent /\ m # NoMessage
      BY <1>0, <2>2
    <3>2. Somewhere(m)
      BY <3>1 DEF MessagePlaces, NoneMissing
    <3> QED
      BY <1>0, <2>2, <3>1, <3>2 DEF Somewhere
  <2> QED
    BY <2>1, <2>2
<1> QED
  BY <1>2, <1>3, <1>4, <1>5 DEF MessagePlaces

(* A message whose sender has to wait stays with it.                       *)
LEMMA KeepPlaces ==
  ASSUME TypeOK, MessagePlaces, NEW p \in Proc, NEW msg \in Message,
         arg' = [arg EXCEPT ![p] = msg], UNCHANGED <<mail, delivered>>,
         \/ sent' = sent /\ arg[p] = msg
         \/ sent' = sent + 1 /\ msg = sent + 1 /\ arg[p] = NoMessage
  PROVE  MessagePlaces'
<1>0. /\ arg \in [Proc -> Message \cup {NoMessage}] /\ \A r \in Proc : arg[r] \in Nat
      /\ mail \in [Mailboxes -> Message \cup {NoMessage}] /\ \A c \in Mailboxes : mail[c] \in Nat
      /\ sent \in Nat /\ delivered \in SUBSET Message
      /\ Message \subseteq Nat /\ NoMessage = 0 /\ NoMessage \notin Message
  BY MessageTypes
<1>1. /\ \A r \in Proc : arg[r] # msg \/ r = p
      /\ \A c \in Mailboxes : mail[c] # msg
      /\ msg \notin delivered
  <2>1. CASE arg[p] = msg
    BY <1>0, <2>1 DEF MessagePlaces, OneSender, NotBoth, NotAgain
  <2>2. CASE msg = sent + 1
    BY <1>0, <2>2 DEF MessagePlaces, Numbered
  <2> QED
    BY <2>1, <2>2
<1>2. OneSender' /\ OneMailbox'
  BY <1>0, <1>1 DEF MessagePlaces, OneSender, OneMailbox
<1>3. NotBoth' /\ NotAgain'
  BY <1>0, <1>1 DEF MessagePlaces, NotBoth, NotAgain
<1>4. Numbered'
  <2>1. msg <= sent'
    BY <1>0 DEF MessagePlaces, Numbered
  <2>2. sent <= sent' /\ sent' \in Nat
    BY <1>0
  <2>3. \A r \in Proc : arg'[r] <= sent'
    BY <1>0, <2>1, <2>2 DEF MessagePlaces, Numbered
  <2>4. \A c \in Mailboxes : mail'[c] <= sent'
    <3>1. \A c \in Mailboxes : mail[c] \in Nat /\ mail[c] <= sent
      BY <1>0 DEF MessagePlaces, Numbered
    <3> QED
      BY <1>0, <2>1, <2>2, <3>1
  <2>5. \A m \in delivered' : m <= sent'
    <3>1. \A m \in delivered : m \in Nat /\ m <= sent
      BY <1>0 DEF MessagePlaces, Numbered
    <3> QED
      BY <1>0, <2>2, <3>1
  <2> QED
    BY <2>3, <2>4, <2>5 DEF Numbered
<1>5. NoneMissing'
  <2> SUFFICES ASSUME NEW m \in 1 .. sent' PROVE Somewhere(m)'
    BY DEF NoneMissing
  <2>1. CASE m = msg
    BY <1>0, <2>1 DEF Somewhere
  <2>2. CASE m # msg
    <3>1. m \in 1 .. sent /\ m # NoMessage
      BY <1>0, <2>2
    <3>2. Somewhere(m)
      BY <3>1 DEF MessagePlaces, NoneMissing
    <3> QED
      BY <1>0, <2>2, <3>1, <3>2 DEF Somewhere
  <2> QED
    BY <2>1, <2>2
<1> QED
  BY <1>2, <1>3, <1>4, <1>5 DEF MessagePlaces

(* A message that is received leaves its mailbox, for good.                *)
LEMMA TakePlaces ==
  ASSUME TypeOK, MessagePlaces, NEW b \in Mailboxes, mail[b] # NoMessage,
         mail' = [mail EXCEPT ![b] = NoMessage], delivered' = delivered \cup {mail[b]},
         UNCHANGED <<arg, sent>>
  PROVE  MessagePlaces'
<1>0. /\ arg \in [Proc -> Message \cup {NoMessage}] /\ \A r \in Proc : arg[r] \in Nat
      /\ mail \in [Mailboxes -> Message \cup {NoMessage}] /\ \A c \in Mailboxes : mail[c] \in Nat
      /\ sent \in Nat /\ delivered \in SUBSET Message
      /\ Message \subseteq Nat /\ NoMessage = 0 /\ NoMessage \notin Message
  BY MessageTypes
<1>1. /\ \A r \in Proc : arg[r] # mail[b]
      /\ \A c \in Mailboxes : mail[c] # mail[b] \/ c = b
  BY <1>0 DEF MessagePlaces, NotBoth, OneMailbox
<1>2. OneSender' /\ OneMailbox'
  BY <1>0, <1>1 DEF MessagePlaces, OneSender, OneMailbox
<1>3. NotBoth' /\ NotAgain'
  BY <1>0, <1>1 DEF MessagePlaces, NotBoth, NotAgain
<1>4. Numbered'
  BY <1>0 DEF MessagePlaces, Numbered
<1>5. NoneMissing'
  BY <1>0, <1>1 DEF MessagePlaces, NoneMissing, Somewhere
<1> QED
  BY <1>2, <1>3, <1>4, <1>5 DEF MessagePlaces

(* Outside a mailbox's send, a process that waits or leaves holds no       *)
(* message before and after.                                               *)
LEMMA OtherWaitsHold ==
  ASSUME TypeOK, SendersHold, NEW p \in Proc, NEW q, q \notin SenderQueues,
         Turn(p, q), UNCHANGED arg,
         WaitOn(p, q) \/ (Leave(p, q) /\ UNCHANGED hung)
  PROVE  SendersHold'
<1>1. waiting \in [Proc -> Queues \cup {NoQueue}]
  BY DEF TypeOK
<1>2. NoQueue \notin SenderQueues
  BY QueueNames DEF SenderQueues
<1>3. ~hung /\ waiting[p] \notin SenderQueues
  BY <1>2 DEF Turn
<1>4. CASE WaitOn(p, q)
  BY <1>1, <1>3, <1>4 DEF WaitOn, SendersHold
<1>5. CASE Leave(p, q) /\ UNCHANGED hung
  BY <1>1, <1>2, <1>3, <1>5 DEF Leave, SendersHold
<1> QED
  BY <1>4, <1>5

(* The queues that are not a mailbox's senders' queue.                     *)
LEMMA OtherQueues ==
  /\ \A o : QueueOf(o) \notin SenderQueues
  /\ \A b : Receivers(b) \notin SenderQueues
  /\ NoQueue \notin SenderQueues
BY DEF SenderQueues, QueueOf, Receivers, Senders, NoQueue

(* A turn of a send, first or later, moves its message or keeps it.        *)
LEMMA SendTurnOnce ==
  ASSUME TypeOK, MessageInv, NEW p \in Proc, NEW b \in Mailboxes, NEW msg \in Message,
         Turn(p, Senders(b)), SendTurn(p, b, msg), UNCHANGED delivered,
         \/ sent' = sent /\ arg[p] = msg
         \/ sent' = sent + 1 /\ msg = sent + 1 /\ arg[p] = NoMessage
  PROVE  MessageInv'
<1>0. /\ arg \in [Proc -> Message \cup {NoMessage}]
      /\ waiting \in [Proc -> Queues \cup {NoQueue}]
      /\ NoMessage \notin Message /\ Senders(b) \in SenderQueues
  BY DEF TypeOK, NoMessage, Message, SenderQueues
<1>1. ~hung /\ SendersHold /\ MessagePlaces
  BY DEF Turn, MessageInv
<1>2. CASE mail[b] = NoMessage
  <2>1. /\ mail' = [mail EXCEPT ![b] = msg]
        /\ arg' = [arg EXCEPT ![p] = NoMessage]
        /\ waiting' = [waiting EXCEPT ![p] = NoQueue]
    BY <1>2 DEF SendTurn, Leave
  <2>2. MessagePlaces'
    BY <1>1, <1>2, <2>1, PutPlaces
  <2>3. SendersHold'
    BY <1>0, <1>1, <2>1, OtherQueues DEF SendersHold
  <2> QED
    BY <2>2, <2>3 DEF MessageInv
<1>3. CASE mail[b] # NoMessage
  <2>1. WaitOn(p, Senders(b)) /\ arg' = [arg EXCEPT ![p] = msg] /\ UNCHANGED mail
    BY <1>3 DEF SendTurn
  <2>2. MessagePlaces'
    BY <1>1, <2>1, KeepPlaces
  <2>3. SendersHold'
    BY <1>0, <1>1, <2>1 DEF SendersHold, WaitOn
  <2> QED
    BY <2>2, <2>3 DEF MessageInv
<1> QED
  BY <1>2, <1>3

(* Only the mailboxes move messages; every other step leaves them alone    *)
(* and waits for something else.                                           *)
LEMMA MessageStep == TypeOK /\ MessageInv /\ [Next]_vars => MessageInv'
<1> SUFFICES ASSUME TypeOK, MessageInv, [Next]_vars PROVE MessageInv'
  OBVIOUS
<1>0. ASSUME UNCHANGED <<arg, mail, sent, delivered>> PROVE MessagePlaces'
  BY <1>0 DEF MessageInv, MessagePlaces, OneSender, OneMailbox, NotBoth, NotAgain,
              NoneMissing, Somewhere, Numbered
<1>a. ASSUME UNCHANGED <<arg, mail, sent, delivered, waiting, hung>> PROVE MessageInv'
  BY <1>0, <1>a DEF MessageInv, SendersHold
<1>b. ASSUME NEW p \in Proc, NEW q, q \notin SenderQueues, Turn(p, q),
             UNCHANGED <<arg, mail, sent, delivered>>,
             WaitOn(p, q) \/ (Leave(p, q) /\ UNCHANGED hung)
      PROVE MessageInv'
  <2>1. SendersHold'
    BY <1>b, OtherWaitsHold DEF MessageInv
  <2> QED
    BY <1>0, <1>b, <2>1 DEF MessageInv
<1>1. ASSUME NEW p \in Proc, NEW o, Acquire(p, o) PROVE MessageInv'
  BY <1>1, <1>b, OtherQueues DEF Acquire, history
<1>2. ASSUME NEW p \in Proc, NEW o, Lock(p, o) PROVE MessageInv'
  BY <1>2, <1>b, OtherQueues DEF Lock
<1>3. ASSUME NEW p \in Proc, NEW b \in Mailboxes, CallSend(p, b) PROVE MessageInv'
  <2>1. Turn(p, Senders(b)) /\ arg[p] = NoMessage
    BY <1>3, OtherQueues DEF CallSend, Fresh, Turn, MessageInv, SendersHold
  <2>2. sent + 1 \in Message
    BY <1>3, SyncAssumption DEF CallSend, TypeOK, Message
  <2> QED
    BY <1>3, <2>1, <2>2, SendTurnOnce DEF CallSend
<1>4. ASSUME NEW p \in Proc, NEW b \in Mailboxes, ResumeSend(p, b) PROVE MessageInv'
  <2>1. waiting[p] = Senders(b) /\ ~hung
    BY <1>4 DEF ResumeSend, Fresh, Turn
  <2>2. arg[p] # NoMessage
    BY <2>1 DEF MessageInv, SendersHold, SenderQueues
  <2>3. arg[p] \in Message
    BY <2>2 DEF TypeOK
  <2> QED
    BY <1>4, <2>3, SendTurnOnce DEF ResumeSend, history
<1>5. ASSUME NEW p \in Proc, NEW b \in Mailboxes, Receive(p, b) PROVE MessageInv'
  <2>1. CASE mail[b] # NoMessage
    <3>1. /\ mail' = [mail EXCEPT ![b] = NoMessage]
          /\ delivered' = delivered \cup {mail[b]}
          /\ Leave(p, Receivers(b)) /\ Turn(p, Receivers(b))
          /\ UNCHANGED <<hung, arg, sent>>
      BY <1>5, <2>1 DEF Receive
    <3>2. MessagePlaces'
      BY <2>1, <3>1, TakePlaces DEF MessageInv
    <3>3. SendersHold'
      BY <3>1, OtherWaitsHold, OtherQueues DEF MessageInv
    <3> QED
      BY <3>2, <3>3 DEF MessageInv
  <2>2. CASE mail[b] = NoMessage
    BY <1>5, <1>b, <2>2, OtherQueues DEF Receive
  <2> QED
    BY <2>1, <2>2
<1>6. ASSUME NEW p \in Proc, NEW o, CallEventWait(p, o) PROVE MessageInv'
  <2>1. Turn(p, QueueOf(o))
    BY <1>6 DEF CallEventWait, Fresh, Turn
  <2> QED
    BY <1>6, <1>b, <2>1, OtherQueues DEF CallEventWait, history
<1>7. ASSUME NEW p \in Proc, NEW o, EventWaitReturns(p, o) PROVE MessageInv'
  BY <1>7, <1>b, OtherQueues DEF EventWaitReturns, history
<1>8. ASSUME NEW p \in Proc, NEW o,
             \/ Release(p, o) \/ Unlock(p, o) \/ Signal(p, o)
             \/ Destroy(p, o) \/ DestroyMailbox(p, o)
      PROVE MessageInv'
  BY <1>8, <1>a DEF Release, Unlock, Signal, Destroy, DestroyMailbox, procs, history
<1>9. ASSUME NEW p \in Proc, Kill(p) \/ Wake(p) PROVE MessageInv'
  BY <1>9, <1>a DEF Kill, Wake, history
<1>10. CASE UNCHANGED vars
  BY <1>10, <1>a DEF vars, procs, history
<1> QED
  BY <1>1, <1>2, <1>3, <1>4, <1>5, <1>6, <1>7, <1>8, <1>9, <1>10 DEF Next, ProcStep

(* The parts of the invariant say that the places of a message are one.    *)
LEMMA PlacesAreOne == TypeOK /\ MessagePlaces => MessagesOnce
<1> SUFFICES ASSUME TypeOK, MessagePlaces, NEW msg \in 1 .. sent
             PROVE  Cardinality(Places(msg)) = 1
  BY DEF MessagesOnce
<1>0. msg # NoMessage
  BY DEF NoMessage, TypeOK
<1>1. \E x : Places(msg) = {x}
  <2>1. CASE msg \in delivered
    <3>1. \A p \in Proc : arg[p] # msg
      BY <2>1 DEF MessagePlaces, NotAgain
    <3>2. \A b \in Mailboxes : mail[b] # msg
      BY <2>1 DEF MessagePlaces, NotAgain
    <3>3. Places(msg) = {<<"delivered", msg>>}
      BY <2>1, <3>1, <3>2 DEF Places
    <3> QED
      BY <3>3
  <2>2. CASE \E p \in Proc : arg[p] = msg
    <3> PICK p \in Proc : arg[p] = msg
      BY <2>2
    <3>1. {r \in Proc : arg[r] = msg} = {p}
      BY <1>0 DEF MessagePlaces, OneSender
    <3>2. {c \in Mailboxes : mail[c] = msg} = {}
      BY <1>0 DEF MessagePlaces, NotBoth
    <3>3. delivered \cap {msg} = {}
      BY DEF MessagePlaces, NotAgain
    <3>4. Places(msg) = {<<"sender", p>>}
      BY <3>1, <3>2, <3>3 DEF Places
    <3> QED
      BY <3>4
  <2>3. CASE \E b \in Mailboxes : mail[b] = msg
    <3> PICK b \in Mailboxes : mail[b] = msg
      BY <2>3
    <3>1. {r \in Proc : arg[r] = msg} = {}
      BY <1>0 DEF MessagePlaces, NotBoth
    <3>2. {c \in Mailboxes : mail[c] = msg} = {b}
      BY <1>0 DEF MessagePlaces, OneMailbox
    <3>3. delivered \cap {msg} = {}
      BY DEF MessagePlaces, NotAgain
    <3>4. Places(msg) = {<<"mailbox", b>>}
      BY <3>1, <3>2, <3>3 DEF Places
    <3> QED
      BY <3>4
  <2> QED
    BY <2>1, <2>2, <2>3 DEF MessagePlaces, NoneMissing, Somewhere
<1> QED
  BY <1>1, FS_Singleton

(* The messages' invariant holds initially, when there are none.           *)
LEMMA MessageInit == Init => MessageInv
<1> SUFFICES ASSUME Init PROVE MessageInv
  OBVIOUS
<1>1. MessagePlaces
  BY DEF Init, MessagePlaces, OneSender, OneMailbox, NotBoth, NotAgain, NoneMissing,
         Somewhere, Numbered, NoMessage
<1>2. SendersHold
  BY OtherQueues DEF Init, SendersHold
<1> QED
  BY <1>1, <1>2 DEF MessageInv

(* The messages' invariant holds throughout.                               *)
LEMMA MessagesInductive == Spec => []MessageInv
BY MessageInit, SyncTypeCorrect, MessageStep, PTL DEF Spec

(* A message given to kernel_mailbox_send is with its sender, in the       *)
(* mailbox or received, in one of them and once, for any number of         *)
(* senders, receivers, retries and kills.                                  *)
THEOREM NoMessageLost == Spec => []MessagesOnce
BY MessagesInductive, SyncTypeCorrect, PlacesAreOne, PTL DEF MessageInv

-----------------------------------------------------------------------------
(* Wake-ups.                                                               *)

\* What there is to be had by those who wait in q
OneIf(condition) == IF condition THEN 1 ELSE 0
Offer(q) ==
  CASE q[1] = "senders"       -> OneIf(mail[q[2]] = NoMessage)
    [] q[1] = "receivers"     -> OneIf(mail[q[2]] # NoMessage)
    [] /\ q[1] = "waiters"
       /\ q[2] \in Semaphores -> count[q[2]]
    [] /\ q[1] = "waiters"
       /\ q[2] \in Mutexes    -> OneIf(owner[q[2]] = NoProc)
    [] OTHER                  -> 0

\* NoLostWakeup, the same for all queues
Enough(q) == BlockedOn(q) # {} => Cardinality(Woken(q)) >= Offer(q)
EnoughWoken == \A q \in Queues : Enough(q)

\* What the wake-ups rest on
Waits == TypeOK /\ WaitersCounted /\ NoWaitOnFreed /\ MessageInv

\* The offers of the objects
OfferOfObjects ==
  /\ \A o \in Semaphores : Offer(QueueOf(o)) = count[o]
  /\ \A o \in Mutexes : Offer(QueueOf(o)) = OneIf(owner[o] = NoProc)
  /\ \A o \in Events : Offer(QueueOf(o)) = 0
  /\ \A b \in Mailboxes : /\ Offer(Senders(b)) = OneIf(mail[b] = NoMessage)
                          /\ Offer(Receivers(b)) = OneIf(mail[b] # NoMessage)

(* The offer at a queue is that of its object, as the kinds are disjoint.  *)
LEMMA Offers == OfferOfObjects
<1>1. /\ \A o \in Mutexes : o \notin Semaphores
      /\ \A o \in Events : o \notin Semaphores /\ o \notin Mutexes
  BY SyncAssumption
<1>2. \A o : QueueOf(o)[1] = "waiters" /\ QueueOf(o)[2] = o
  BY DEF QueueOf
<1>3. \A o \in Semaphores : Offer(QueueOf(o)) = count[o]
  BY <1>1, <1>2 DEF Offer
<1>4. \A o \in Mutexes : Offer(QueueOf(o)) = OneIf(owner[o] = NoProc)
  BY <1>1, <1>2 DEF Offer
<1>5. \A o \in Events : Offer(QueueOf(o)) = 0
  BY <1>1, <1>2 DEF Offer
<1>6. \A b \in Mailboxes : /\ Offer(Senders(b)) = OneIf(mail[b] = NoMessage)
                           /\ Offer(Receivers(b)) = OneIf(mail[b] # NoMessage)
  BY DEF Offer, Senders, Receivers
<1> QED
  BY <1>3, <1>4, <1>5, <1>6 DEF OfferOfObjects

(* The same after a step.                                                  *)
LEMMA OffersNext == OfferOfObjects'
BY Offers, PTL

(* Every queue belongs to an object.                                       *)
LEMMA QueueKinds ==
  ASSUME NEW q \in Queues
  PROVE  \/ \E o \in Semaphores : q = QueueOf(o)
         \/ \E o \in Mutexes : q = QueueOf(o)
         \/ \E o \in Events : q = QueueOf(o)
         \/ \E b \in Mailboxes : q = Senders(b)
         \/ \E b \in Mailboxes : q = Receivers(b)
BY DEF Queues, Simple

(* Different objects have different queues.                                *)
LEMMA QueuesDiffer ==
  /\ \A o, c : QueueOf(o) = QueueOf(c) => o = c
  /\ \A o, c : Senders(o) = Senders(c) => o = c
  /\ \A o, c : Receivers(o) = Receivers(c) => o = c
  /\ \A o, c : /\ QueueOf(o) # Senders(c) /\ QueueOf(o) # Receivers(c)
               /\ Senders(o) # Receivers(c)
BY DEF QueueOf, Senders, Receivers

\* An offer is a number.
OffersTyped == \A q \in Queues : Offer(q) \in Nat

(* An offer is a number.                                                   *)
LEMMA OfferType == TypeOK => OffersTyped
<1> SUFFICES ASSUME TypeOK, NEW q \in Queues PROVE Offer(q) \in Nat
  BY DEF OffersTyped
<1>1. \A o \in Semaphores : count[o] \in Nat
  BY SyncAssumption DEF TypeOK
<1> QED
  BY <1>1, QueueKinds, Offers DEF OfferOfObjects, OneIf

(* The processes that were woken can be counted.                           *)
LEMMA WokenFinite ==
  ASSUME NEW q
  PROVE  /\ IsFiniteSet(Woken(q)) /\ Cardinality(Woken(q)) \in Nat
         /\ IsFiniteSet(Woken(q)') /\ Cardinality(Woken(q)') \in Nat
<1>1. IsFiniteSet(Proc)
  BY SyncAssumption, FS_Interval DEF Proc
<1>2. Woken(q) \subseteq Proc /\ Woken(q)' \subseteq Proc
  BY DEF Woken, Inside
<1>3. IsFiniteSet(Woken(q)) /\ IsFiniteSet(Woken(q)')
  BY <1>1, <1>2, FS_Subset
<1> QED
  BY <1>3, FS_CardinalityType

(* The invariant is what it was meant to be.                               *)
LEMMA EnoughMeans == TypeOK => (EnoughWoken <=> NoLostWakeup)
<1> SUFFICES ASSUME TypeOK PROVE EnoughWoken <=> NoLostWakeup
  OBVIOUS
<1>1. \A q : Cardinality(Woken(q)) >= 1 <=> Woken(q) # {}
  BY WokenFinite, FS_EmptySet
<1>2. \A q : Cardinality(Woken(q)) >= 0
  BY WokenFinite
<1>3. \A o \in Semaphores :
        Enough(QueueOf(o)) <=>
          (BlockedOn(QueueOf(o)) # {} => Cardinality(Woken(QueueOf(o))) >= count[o])
  BY Offers DEF OfferOfObjects, Enough
<1>4. \A o \in Mutexes :
        Enough(QueueOf(o)) <=>
          (BlockedOn(QueueOf(o)) # {} /\ owner[o] = NoProc => Woken(QueueOf(o)) # {})
  BY <1>1, <1>2, Offers DEF OfferOfObjects, Enough, OneIf
<1>5. \A o \in Events : Enough(QueueOf(o))
  BY <1>2, Offers DEF OfferOfObjects, Enough
<1>6. \A b \in Mailboxes :
        /\ Enough(Senders(b)) <=>
             (BlockedOn(Senders(b)) # {} /\ mail[b] = NoMessage => Woken(Senders(b)) # {})
        /\ Enough(Receivers(b)) <=>
             (BlockedOn(Receivers(b)) # {} /\ mail[b] # NoMessage => Woken(Receivers(b)) # {})
  BY <1>1, <1>2, Offers DEF OfferOfObjects, Enough, OneIf
<1>7. ASSUME EnoughWoken PROVE NoLostWakeup
  BY <1>3, <1>4, <1>6, <1>7, QueueNames DEF EnoughWoken, NoLostWakeup, Simple
<1>8. ASSUME NoLostWakeup PROVE EnoughWoken
  BY <1>3, <1>4, <1>5, <1>6, <1>8, QueueKinds DEF EnoughWoken, NoLostWakeup
<1> QED
  BY <1>7, <1>8

(* Where somebody is blocked, process_wake_first_channel finds somebody.   *)
LEMMA WakesSomeone ==
  ASSUME TypeOK, WaitersCounted, NoWaitOnFreed,
         NEW p \in Proc, NEW q \in Queues, BlockedOn(q) # {}
  PROVE  WakesOne(p, q) # {}
<1>1. q \in queueOk
  BY QueueNames DEF NoWaitOnFreed, BlockedOn
<1>2. waiters[q] # 0
  <2>1. Inside(q) # {}
    BY DEF BlockedOn, Inside
  <2>2. Cardinality(Inside(q)) # 0
    BY <2>1, InsideFinite
  <2> QED
    BY <2>2 DEF WaitersCounted
<1>3. \A r \in Proc : ScanDistance(p, r) \in Nat
  BY SyncAssumption DEF ScanDistance, Proc
<1> DEFINE distances == {ScanDistance(p, r) : r \in BlockedOn(q)}
<1>4. distances \in SUBSET Nat /\ distances # {}
  BY <1>3 DEF BlockedOn
<1>5. PICK d \in distances : \A e \in distances : d <= e
  BY <1>4, NatMin
<1>6. PICK r \in BlockedOn(q) : ScanDistance(p, r) = d
  BY <1>5
<1>7. \A s \in BlockedOn(q) : ScanDistance(p, r) <= ScanDistance(p, s)
  BY <1>5, <1>6
<1>8. r \in WakesOne(p, q)
  BY <1>1, <1>2, <1>6, <1>7 DEF WakesOne
<1> QED
  BY <1>8

(* A process that waits in q changes nothing at the other queues.          *)
LEMMA WaitElsewhere ==
  ASSUME TypeOK, NEW p \in Proc, NEW q, Turn(p, q), WaitOn(p, q),
         NEW r \in Queues, r # q
  PROVE  BlockedOn(r)' = BlockedOn(r) /\ Woken(r)' = Woken(r)
<1>1. waiting \in [Proc -> Queues \cup {NoQueue}] /\ run \in [Proc -> States]
  BY DEF TypeOK, States
<1>2. waiting[p] # r /\ NoQueue # r
  BY QueueNames DEF Turn
<1>3. \A s \in Proc : waiting'[s] = r <=> waiting[s] = r
  BY <1>1, <1>2 DEF WaitOn
<1>4. \A s \in Proc : waiting[s] = r => run'[s] = run[s]
  BY <1>1, <1>2 DEF WaitOn
<1> QED
  BY <1>3, <1>4 DEF BlockedOn, Woken, Inside

(* A process that leaves q takes at most its own wake-up with it.          *)
LEMMA LeaveTakesOne ==
  ASSUME TypeOK, NEW p \in Proc, NEW q \in Queues, Turn(p, q), Leave(p, q), UNCHANGED run
  PROVE  /\ \A r \in Queues \ {q} : BlockedOn(r)' = BlockedOn(r) /\ Woken(r)' = Woken(r)
         /\ BlockedOn(q)' = BlockedOn(q)
         /\ Cardinality(Woken(q)') >= Cardinality(Woken(q)) - 1
<1>1. waiting \in [Proc -> Queues \cup {NoQueue}] /\ run[p] = "ready"
  BY DEF TypeOK, Turn
<1>2. waiting' = [waiting EXCEPT ![p] = NoQueue] /\ run' = run
  BY DEF Leave
<1>3. ASSUME NEW r \in Queues \ {q}
      PROVE  BlockedOn(r)' = BlockedOn(r) /\ Woken(r)' = Woken(r)
  <2>1. waiting[p] # r /\ NoQueue # r
    BY QueueNames DEF Turn
  <2>2. \A s \in Proc : waiting'[s] = r <=> waiting[s] = r
    BY <1>1, <1>2, <2>1
  <2> QED
    BY <1>2, <2>2 DEF BlockedOn, Woken, Inside
<1>4. BlockedOn(q)' = BlockedOn(q) /\ Woken(q)' = Woken(q) \ {p}
  <2>1. \A s \in Proc : waiting'[s] = q <=> waiting[s] = q /\ s # p
    BY <1>1, <1>2, QueueNames
  <2>2. BlockedOn(q)' = BlockedOn(q)
    BY <1>1, <1>2, <2>1 DEF BlockedOn
  <2>3. Woken(q)' = Woken(q) \ {p}
    BY <1>2, <2>1 DEF Woken, Inside
  <2> QED
    BY <2>2, <2>3
<1>5. Cardinality(Woken(q) \ {p}) >= Cardinality(Woken(q)) - 1
  <2>1. IsFiniteSet(Woken(q)) /\ Cardinality(Woken(q)) \in Nat
    BY WokenFinite
  <2>2. Cardinality(Woken(q) \ {p}) =
          IF p \in Woken(q) THEN Cardinality(Woken(q)) - 1 ELSE Cardinality(Woken(q))
    BY <2>1, FS_RemoveElement
  <2> QED
    BY <2>1, <2>2
<1> QED
  BY <1>3, <1>4, <1>5

(* A process outside q that wakes the first of q's waiters, and may leave  *)
(* the queue it was in.                                                    *)
LEMMA WakeGivesOne ==
  ASSUME TypeOK, WaitersCounted, NoWaitOnFreed, NEW p \in Proc, NEW q \in Queues,
         run[p] = "ready", waiting[p] # q, MakeReady(WakesOne(p, q)),
         waiting' = waiting \/ waiting' = [waiting EXCEPT ![p] = NoQueue]
  PROVE  /\ \A r \in Queues \ {q, waiting[p]} :
              BlockedOn(r)' = BlockedOn(r) /\ Woken(r)' = Woken(r)
         /\ BlockedOn(q)' # {} =>
              BlockedOn(q) # {} /\ Cardinality(Woken(q)') >= Cardinality(Woken(q)) + 1
<1>1. waiting \in [Proc -> Queues \cup {NoQueue}] /\ run \in [Proc -> States]
  BY DEF TypeOK, States
<1>2. run' = [r \in Proc |-> IF r \in WakesOne(p, q) THEN "ready" ELSE run[r]]
  BY DEF MakeReady
<1>3. WakesOne(p, q) \subseteq BlockedOn(q)
  BY DEF WakesOne
<1>4. ASSUME NEW r \in Queues \ {q, waiting[p]}
      PROVE  BlockedOn(r)' = BlockedOn(r) /\ Woken(r)' = Woken(r)
  <2>1. \A s \in Proc : waiting'[s] = r <=> waiting[s] = r
    BY <1>1, QueueNames
  <2>2. \A s \in Proc : waiting[s] = r => run'[s] = run[s]
    BY <1>2, <1>3 DEF BlockedOn
  <2> QED
    BY <2>1, <2>2 DEF BlockedOn, Woken, Inside
<1>5. ASSUME BlockedOn(q)' # {}
      PROVE  BlockedOn(q) # {} /\ Cardinality(Woken(q)') >= Cardinality(Woken(q)) + 1
  <2>1. \A s \in Proc : waiting'[s] = q <=> waiting[s] = q
    BY <1>1, QueueNames
  <2>2. BlockedOn(q)' \subseteq BlockedOn(q)
    BY <1>2, <2>1 DEF BlockedOn
  <2>3. PICK r \in WakesOne(p, q) : TRUE
    BY <1>5, <2>2, WakesSomeone
  <2>4. r \notin Woken(q) /\ Woken(q) \cup {r} \subseteq Woken(q)'
    BY <1>2, <1>3, <2>1, <2>3 DEF BlockedOn, Woken, Inside
  <2>5. Cardinality(Woken(q) \cup {r}) = Cardinality(Woken(q)) + 1
    BY <2>4, WokenFinite, FS_AddElement
  <2>6. Cardinality(Woken(q) \cup {r}) <= Cardinality(Woken(q)')
    BY <2>4, WokenFinite, FS_Subset
  <2> QED
    BY <1>5, <2>2, <2>5, <2>6
<1> QED
  BY <1>4, <1>5

\* Each queue but these offers what it did before.
OfferedAsBefore(changed) == \A q \in Queues \ changed : Offer(q)' = Offer(q)

(* Where nothing is offered, nobody has to be awake.                       *)
LEMMA EnoughForNothing ==
  ASSUME NEW q, Offer(q)' = 0
  PROVE  Enough(q)'
BY WokenFinite DEF Enough

(* A step that blocks nobody and loses nobody who was woken.               *)
LEMMA EnoughKept ==
  ASSUME TypeOK, TypeOK', EnoughWoken, OfferedAsBefore({}),
         \A q \in Queues : BlockedOn(q)' \subseteq BlockedOn(q) /\ Woken(q) \subseteq Woken(q)'
  PROVE  EnoughWoken'
<1> SUFFICES ASSUME NEW q \in Queues PROVE Enough(q)'
  BY DEF EnoughWoken
<1>1. Offer(q)' = Offer(q) /\ Offer(q) \in Nat
  BY OfferType DEF OfferedAsBefore, OffersTyped
<1>2. Cardinality(Woken(q)) <= Cardinality(Woken(q)')
  BY WokenFinite, FS_Subset
<1>3. Enough(q)
  BY DEF EnoughWoken
<1> QED
  BY <1>1, <1>2, <1>3, WokenFinite DEF Enough

(* A turn that waits does so where nothing is offered.                     *)
LEMMA WaitKeepsEnough ==
  ASSUME TypeOK, EnoughWoken, NEW p \in Proc, NEW q \in Queues,
         Turn(p, q), WaitOn(p, q), Offer(q)' = 0, OfferedAsBefore({q})
  PROVE  EnoughWoken'
<1> SUFFICES ASSUME NEW r \in Queues, r # q PROVE Enough(r)'
  BY EnoughForNothing DEF EnoughWoken
<1>1. BlockedOn(r)' = BlockedOn(r) /\ Woken(r)' = Woken(r)
  BY WaitElsewhere
<1> QED
  BY <1>1 DEF EnoughWoken, Enough, OfferedAsBefore

(* A turn that leaves takes at least one from the offer, or there is none. *)
LEMMA LeaveKeepsEnough ==
  ASSUME TypeOK, EnoughWoken, NEW p \in Proc, NEW q \in Queues,
         Turn(p, q), Leave(p, q), UNCHANGED run,
         Offer(q)' \in {0, Offer(q) - 1}, OfferedAsBefore({q})
  PROVE  EnoughWoken'
<1> SUFFICES ASSUME NEW r \in Queues PROVE Enough(r)'
  BY DEF EnoughWoken
<1>1. CASE r = q
  <2>1. CASE Offer(q)' = 0
    BY <1>1, <2>1, EnoughForNothing
  <2>2. CASE Offer(q)' = Offer(q) - 1
    <3>1. /\ BlockedOn(q)' = BlockedOn(q)
          /\ Cardinality(Woken(q)') >= Cardinality(Woken(q)) - 1
      BY LeaveTakesOne
    <3>2. Offer(q) \in Nat /\ Enough(q)
      BY OfferType DEF OffersTyped, EnoughWoken
    <3> QED
      BY <1>1, <2>2, <3>1, <3>2, WokenFinite DEF Enough
  <2> QED
    BY <2>1, <2>2
<1>2. CASE r # q
  <2>1. BlockedOn(r)' = BlockedOn(r) /\ Woken(r)' = Woken(r)
    BY <1>2, LeaveTakesOne
  <2> QED
    BY <1>2, <2>1 DEF EnoughWoken, Enough, OfferedAsBefore
<1> QED
  BY <1>1, <1>2

(* A step that adds one to an offer wakes one more; elsewhere the offer is *)
(* as before or nothing, and nothing in the queue that the process leaves. *)
LEMMA WakeKeepsEnough ==
  ASSUME TypeOK, WaitersCounted, NoWaitOnFreed, EnoughWoken,
         NEW p \in Proc, NEW q \in Queues,
         run[p] = "ready", waiting[p] # q, MakeReady(WakesOne(p, q)),
         waiting' = waiting \/ waiting' = [waiting EXCEPT ![p] = NoQueue],
         Offer(q)' \in {1, Offer(q) + 1},
         \A r \in Queues \ {q} : Offer(r)' = 0 \/ (r # waiting[p] /\ Offer(r)' = Offer(r))
  PROVE  EnoughWoken'
<1> SUFFICES ASSUME NEW r \in Queues PROVE Enough(r)'
  BY DEF EnoughWoken
<1>1. CASE r = q
  <2>1. Offer(q) \in Nat /\ Enough(q)
    BY OfferType DEF OffersTyped, EnoughWoken
  <2>2. BlockedOn(q)' # {} =>
          BlockedOn(q) # {} /\ Cardinality(Woken(q)') >= Cardinality(Woken(q)) + 1
    BY WakeGivesOne
  <2> QED
    BY <1>1, <2>1, <2>2, WokenFinite DEF Enough
<1>2. CASE r # q /\ Offer(r)' = 0
  BY <1>2, EnoughForNothing
<1>3. CASE r # q /\ r # waiting[p] /\ Offer(r)' = Offer(r)
  <2>1. BlockedOn(r)' = BlockedOn(r) /\ Woken(r)' = Woken(r)
    BY <1>3, WakeGivesOne
  <2> QED
    BY <1>3, <2>1 DEF EnoughWoken, Enough
<1> QED
  BY <1>1, <1>2, <1>3

(* What a turn on one object does to the offers: only its own queues may   *)
(* offer something else.                                                   *)
LEMMA OfferElsewhere ==
  ASSUME NEW o,
         \A c \in Semaphores : c # o => count'[c] = count[c],
         \A c \in Mutexes : c # o => owner'[c] = owner[c],
         \A c \in Mailboxes : c # o => mail'[c] = mail[c]
  PROVE  \A q \in Queues :
           q \notin {QueueOf(o), Senders(o), Receivers(o)} => Offer(q)' = Offer(q)
<1> SUFFICES ASSUME NEW q \in Queues, q # QueueOf(o), q # Senders(o), q # Receivers(o)
             PROVE  Offer(q)' = Offer(q)
  OBVIOUS
<1>1. ASSUME NEW c \in Semaphores, q = QueueOf(c) PROVE Offer(q)' = Offer(q)
  BY <1>1, Offers, OffersNext DEF OfferOfObjects
<1>2. ASSUME NEW c \in Mutexes, q = QueueOf(c) PROVE Offer(q)' = Offer(q)
  BY <1>2, Offers, OffersNext DEF OfferOfObjects
<1>3. ASSUME NEW c \in Events, q = QueueOf(c) PROVE Offer(q)' = Offer(q)
  BY <1>3, Offers, OffersNext DEF OfferOfObjects
<1>4. ASSUME NEW c \in Mailboxes, q = Senders(c) \/ q = Receivers(c) PROVE Offer(q)' = Offer(q)
  BY <1>4, Offers, OffersNext DEF OfferOfObjects
<1> QED
  BY <1>1, <1>2, <1>3, <1>4, QueueKinds

(* A step that leaves the objects alone changes no offer.                  *)
LEMMA OffersSame ==
  ASSUME UNCHANGED <<count, owner, mail>>
  PROVE  \A q \in Queues : Offer(q)' = Offer(q)
<1> SUFFICES ASSUME NEW q \in Queues PROVE Offer(q)' = Offer(q)
  OBVIOUS
<1> QED
  BY QueueKinds, Offers, OffersNext DEF OfferOfObjects

(* The queues of an object that is not a mailbox, and those of one that is. *)
LEMMA OwnQueues ==
  /\ \A o \in Simple : Senders(o) \notin Queues /\ Receivers(o) \notin Queues
  /\ \A b \in Mailboxes : QueueOf(b) \notin Queues
<1>1. \A o \in Simple : o \notin Mailboxes
  BY SyncAssumption DEF Simple
<1> QED
  BY <1>1 DEF Queues, QueueOf, Senders, Receivers

(* Semaphores.                                                             *)
LEMMA SemaphoreEnough ==
  ASSUME Waits, EnoughWoken, NEW p \in Proc, NEW o \in Semaphores,
         Acquire(p, o) \/ Release(p, o)
  PROVE  EnoughWoken'
<1>1. QueueOf(o) \in Queues /\ o \in Simple
  BY QueueNames DEF Simple
<1>2. count \in [Semaphores -> Nat] /\ count' \in [Semaphores -> Int]
  BY SyncAssumption DEF Waits, TypeOK, Acquire, Release
<1>3. /\ TypeOK /\ WaitersCounted /\ NoWaitOnFreed
      /\ Offer(QueueOf(o)) = count[o] /\ Offer(QueueOf(o))' = count'[o]
  BY Offers, OffersNext DEF Waits, OfferOfObjects
<1>4. OfferedAsBefore({QueueOf(o)})
  <2>1. /\ UNCHANGED <<owner, mail>>
        /\ \A c \in Semaphores : c # o => count'[c] = count[c]
    BY <1>2 DEF Acquire, Release
  <2> QED
    BY <1>1, <2>1, OfferElsewhere, OwnQueues DEF OfferedAsBefore
<1>5. CASE Acquire(p, o) /\ count[o] # 0
  <2>1. count'[o] = count[o] - 1
    BY <1>2, <1>5 DEF Acquire
  <2> QED
    BY <1>1, <1>3, <1>4, <1>5, <2>1, LeaveKeepsEnough DEF Acquire
<1>6. CASE Acquire(p, o) /\ count[o] = 0
  <2>1. count'[o] = 0
    BY <1>6 DEF Acquire
  <2> QED
    BY <1>1, <1>3, <1>4, <1>6, <2>1, WaitKeepsEnough DEF Acquire
<1>7. CASE Release(p, o)
  <2>1. count'[o] = count[o] + 1 /\ UNCHANGED waiting
    BY <1>2, <1>7 DEF Release
  <2>2. run[p] = "ready" /\ waiting[p] = NoQueue /\ MakeReady(WakesOne(p, QueueOf(o)))
    BY <1>7 DEF Release, Fresh
  <2>3. NoQueue \notin Queues
    BY QueueNames
  <2>4. \A r \in Queues \ {QueueOf(o)} : r # waiting[p] /\ Offer(r)' = Offer(r)
    BY <1>4, <2>2, <2>3 DEF OfferedAsBefore
  <2> QED
    BY <1>1, <1>3, <2>1, <2>2, <2>3, <2>4, WakeKeepsEnough
<1> QED
  BY <1>5, <1>6, <1>7

(* Mutexes.                                                                *)
LEMMA MutexEnough ==
  ASSUME Waits, EnoughWoken, NEW p \in Proc, NEW o \in Mutexes, Lock(p, o) \/ Unlock(p, o)
  PROVE  EnoughWoken'
<1>1. QueueOf(o) \in Queues /\ o \in Simple
  BY QueueNames DEF Simple
<1>2. owner \in [Mutexes -> Proc \cup {NoProc}] /\ NoProc \notin Proc
  BY QueueNames DEF Waits, TypeOK
<1>3. /\ TypeOK /\ WaitersCounted /\ NoWaitOnFreed
      /\ Offer(QueueOf(o))' = OneIf(owner'[o] = NoProc)
  BY OffersNext DEF Waits, OfferOfObjects
<1>4. OfferedAsBefore({QueueOf(o)})
  <2>1. /\ UNCHANGED <<count, mail>>
        /\ \A c \in Mutexes : c # o => owner'[c] = owner[c]
    BY <1>2 DEF Lock, Unlock
  <2> QED
    BY <1>1, <2>1, OfferElsewhere, OwnQueues DEF OfferedAsBefore
<1>5. CASE Lock(p, o) /\ owner[o] = NoProc
  <2>1. owner'[o] = p
    BY <1>2, <1>5 DEF Lock
  <2>2. Offer(QueueOf(o))' = 0
    BY <1>2, <1>3, <2>1 DEF OneIf
  <2> QED
    BY <1>1, <1>3, <1>4, <1>5, <2>2, LeaveKeepsEnough DEF Lock
<1>6. CASE Lock(p, o) /\ owner[o] # NoProc
  <2>1. owner'[o] = owner[o]
    BY <1>6 DEF Lock
  <2>2. Offer(QueueOf(o))' = 0
    BY <1>3, <1>6, <2>1 DEF OneIf
  <2> QED
    BY <1>1, <1>3, <1>4, <1>6, <2>2, WaitKeepsEnough DEF Lock
<1>7. CASE Unlock(p, o)
  <2>1. owner'[o] = NoProc /\ UNCHANGED waiting
    BY <1>2, <1>7 DEF Unlock
  <2>2. run[p] = "ready" /\ waiting[p] = NoQueue /\ MakeReady(WakesOne(p, QueueOf(o)))
    BY <1>7 DEF Unlock, Fresh
  <2>3. NoQueue \notin Queues
    BY QueueNames
  <2>4. \A r \in Queues \ {QueueOf(o)} : r # waiting[p] /\ Offer(r)' = Offer(r)
    BY <1>4, <2>2, <2>3 DEF OfferedAsBefore
  <2>5. Offer(QueueOf(o))' = 1
    BY <1>3, <2>1 DEF OneIf
  <2> QED
    BY <1>1, <1>3, <2>1, <2>2, <2>3, <2>4, <2>5, WakeKeepsEnough
<1> QED
  BY <1>5, <1>6, <1>7

(* Mailboxes: a message put wakes a receiver, one taken wakes a sender.    *)
LEMMA SendTurnEnough ==
  ASSUME Waits, EnoughWoken, NEW p \in Proc, NEW b \in Mailboxes, NEW msg \in Message,
         Turn(p, Senders(b)), SendTurn(p, b, msg), UNCHANGED <<count, owner>>
  PROVE  EnoughWoken'
<1>1. Senders(b) \in Queues /\ Receivers(b) \in Queues /\ NoQueue \notin Queues
  BY QueueNames
<1>2. mail \in [Mailboxes -> Message \cup {NoMessage}] /\ NoMessage \notin Message
  BY MessageTypes DEF Waits
<1>3. /\ TypeOK /\ WaitersCounted /\ NoWaitOnFreed
      /\ Offer(Senders(b))' = OneIf(mail'[b] = NoMessage)
      /\ Offer(Receivers(b))' = OneIf(mail'[b] # NoMessage)
      /\ Offer(Receivers(b)) = OneIf(mail[b] # NoMessage)
  BY Offers, OffersNext DEF Waits, OfferOfObjects
<1>4. OfferedAsBefore({Senders(b), Receivers(b)})
  <2>1. \A c \in Mailboxes : c # b => mail'[c] = mail[c]
    BY <1>2 DEF SendTurn
  <2> QED
    BY <2>1, OfferElsewhere, OwnQueues DEF OfferedAsBefore
<1>5. CASE mail[b] = NoMessage
  <2>1. /\ mail'[b] = msg /\ Leave(p, Senders(b)) /\ MakeReady(WakesOne(p, Receivers(b)))
        /\ run[p] = "ready" /\ waiting[p] \in {NoQueue, Senders(b)}
    BY <1>2, <1>5 DEF SendTurn, Turn
  <2>2. Offer(Senders(b))' = 0 /\ Offer(Receivers(b))' = 1
    BY <1>2, <1>3, <2>1 DEF OneIf
  <2>3. waiting[p] # Receivers(b) /\ waiting' = [waiting EXCEPT ![p] = NoQueue]
    BY <1>1, <2>1, QueuesDiffer DEF Leave
  <2>4. \A r \in Queues \ {Receivers(b)} :
          Offer(r)' = 0 \/ (r # waiting[p] /\ Offer(r)' = Offer(r))
    BY <1>1, <1>4, <2>1, <2>2 DEF OfferedAsBefore
  <2> QED
    BY <1>1, <1>3, <2>1, <2>2, <2>3, <2>4, WakeKeepsEnough
<1>6. CASE mail[b] # NoMessage
  <2>1. WaitOn(p, Senders(b)) /\ UNCHANGED mail
    BY <1>6 DEF SendTurn
  <2>2. Offer(Senders(b))' = 0 /\ Offer(Receivers(b))' = Offer(Receivers(b))
    BY <1>3, <1>6, <2>1 DEF OneIf
  <2>3. OfferedAsBefore({Senders(b)})
    BY <1>4, <2>2 DEF OfferedAsBefore
  <2> QED
    BY <1>1, <1>3, <2>1, <2>2, <2>3, WaitKeepsEnough
<1> QED
  BY <1>5, <1>6

(* A receive that finds a message wakes a sender; one that does not waits. *)
LEMMA ReceiveEnough ==
  ASSUME Waits, EnoughWoken, NEW p \in Proc, NEW b \in Mailboxes, Receive(p, b)
  PROVE  EnoughWoken'
<1>1. Senders(b) \in Queues /\ Receivers(b) \in Queues /\ NoQueue \notin Queues
  BY QueueNames
<1>2. mail \in [Mailboxes -> Message \cup {NoMessage}] /\ NoMessage \notin Message
  BY MessageTypes DEF Waits
<1>3. /\ TypeOK /\ WaitersCounted /\ NoWaitOnFreed
      /\ Offer(Senders(b))' = OneIf(mail'[b] = NoMessage)
      /\ Offer(Receivers(b))' = OneIf(mail'[b] # NoMessage)
      /\ Offer(Senders(b)) = OneIf(mail[b] = NoMessage)
  BY Offers, OffersNext DEF Waits, OfferOfObjects
<1>4. OfferedAsBefore({Senders(b), Receivers(b)})
  <2>1. UNCHANGED <<count, owner>> /\ \A c \in Mailboxes : c # b => mail'[c] = mail[c]
    BY <1>2 DEF Receive
  <2> QED
    BY <2>1, OfferElsewhere, OwnQueues DEF OfferedAsBefore
<1>5. CASE mail[b] # NoMessage
  <2>1. /\ mail'[b] = NoMessage /\ Leave(p, Receivers(b)) /\ MakeReady(WakesOne(p, Senders(b)))
        /\ run[p] = "ready" /\ waiting[p] \in {NoQueue, Receivers(b)}
    BY <1>2, <1>5 DEF Receive, Turn
  <2>2. Offer(Receivers(b))' = 0 /\ Offer(Senders(b))' = 1
    BY <1>3, <2>1 DEF OneIf
  <2>3. waiting[p] # Senders(b) /\ waiting' = [waiting EXCEPT ![p] = NoQueue]
    BY <1>1, <2>1, QueuesDiffer DEF Leave
  <2>4. \A r \in Queues \ {Senders(b)} :
          Offer(r)' = 0 \/ (r # waiting[p] /\ Offer(r)' = Offer(r))
    BY <1>1, <1>4, <2>1, <2>2 DEF OfferedAsBefore
  <2> QED
    BY <1>1, <1>3, <2>1, <2>2, <2>3, <2>4, WakeKeepsEnough
<1>6. CASE mail[b] = NoMessage
  <2>1. WaitOn(p, Receivers(b)) /\ Turn(p, Receivers(b)) /\ UNCHANGED mail
    BY <1>6 DEF Receive
  <2>2. Offer(Receivers(b))' = 0 /\ Offer(Senders(b))' = Offer(Senders(b))
    BY <1>3, <1>6, <2>1 DEF OneIf
  <2>3. OfferedAsBefore({Receivers(b)})
    BY <1>4, <2>2 DEF OfferedAsBefore
  <2> QED
    BY <1>1, <1>3, <2>1, <2>2, <2>3, WaitKeepsEnough
<1> QED
  BY <1>5, <1>6

(* Each step keeps enough waiters awake: whoever makes more available      *)
(* wakes one more, and nobody waits for what is there.                     *)
LEMMA EnoughStep == Waits /\ TypeOK' /\ EnoughWoken /\ [Next]_vars => EnoughWoken'
<1> SUFFICES ASSUME Waits, TypeOK', EnoughWoken, [Next]_vars PROVE EnoughWoken'
  OBVIOUS
<1>0. TypeOK /\ MessageInv
  BY DEF Waits
<1>a. ASSUME UNCHANGED <<count, owner, mail>>,
             \A q \in Queues : BlockedOn(q)' \subseteq BlockedOn(q) /\ Woken(q) \subseteq Woken(q)'
      PROVE  EnoughWoken'
  BY <1>0, <1>a, EnoughKept, OffersSame DEF OfferedAsBefore
<1>1. ASSUME NEW p \in Proc, NEW o \in Semaphores, Acquire(p, o) \/ Release(p, o)
      PROVE  EnoughWoken'
  BY <1>1, SemaphoreEnough
<1>2. ASSUME NEW p \in Proc, NEW o \in Mutexes, Lock(p, o) \/ Unlock(p, o)
      PROVE  EnoughWoken'
  BY <1>2, MutexEnough
<1>3. ASSUME NEW p \in Proc, NEW b \in Mailboxes, CallSend(p, b) PROVE EnoughWoken'
  <2>1. Turn(p, Senders(b)) /\ sent + 1 \in Message /\ UNCHANGED <<count, owner>>
    BY <1>0, <1>3, SyncAssumption DEF CallSend, Fresh, Turn, TypeOK, Message
  <2> QED
    BY <1>3, <2>1, SendTurnEnough DEF CallSend
<1>4. ASSUME NEW p \in Proc, NEW b \in Mailboxes, ResumeSend(p, b) PROVE EnoughWoken'
  <2>1. waiting[p] = Senders(b) /\ ~hung
    BY <1>4 DEF ResumeSend, Fresh, Turn
  <2>2. arg[p] # NoMessage
    BY <1>0, <2>1 DEF MessageInv, SendersHold, SenderQueues
  <2>3. arg[p] \in Message
    BY <1>0, <2>2 DEF TypeOK
  <2> QED
    BY <1>4, <2>3, SendTurnEnough DEF ResumeSend
<1>5. ASSUME NEW p \in Proc, NEW b \in Mailboxes, Receive(p, b) PROVE EnoughWoken'
  BY <1>5, ReceiveEnough
<1>6. ASSUME NEW p \in Proc, NEW o \in Events, CallEventWait(p, o) \/ EventWaitReturns(p, o)
      PROVE  EnoughWoken'
  <2>1. QueueOf(o) \in Queues /\ Offer(QueueOf(o))' = 0
    BY QueueNames, OffersNext DEF OfferOfObjects, Simple
  <2>2. OfferedAsBefore({QueueOf(o)})
    BY <1>6, OffersSame DEF CallEventWait, EventWaitReturns, OfferedAsBefore
  <2>3. CASE CallEventWait(p, o)
    <3>1. Turn(p, QueueOf(o)) /\ WaitOn(p, QueueOf(o))
      BY <2>3 DEF CallEventWait, Fresh, Turn
    <3> QED
      BY <1>0, <2>1, <2>2, <3>1, WaitKeepsEnough
  <2>4. CASE EventWaitReturns(p, o)
    BY <1>0, <2>1, <2>2, <2>4, LeaveKeepsEnough DEF EventWaitReturns
  <2> QED
    BY <1>6, <2>3, <2>4
<1>7. ASSUME NEW p \in Proc, NEW o, Signal(p, o) PROVE EnoughWoken'
  BY <1>7, <1>a DEF Signal, MakeReady, BlockedOn, Woken, Inside
<1>8. ASSUME NEW p \in Proc, NEW o, Destroy(p, o) \/ DestroyMailbox(p, o)
      PROVE  EnoughWoken'
  BY <1>8, <1>a DEF Destroy, DestroyMailbox, procs, BlockedOn, Woken, Inside
<1>9. ASSUME NEW p \in Proc, Kill(p) PROVE EnoughWoken'
  <2>1. run \in [Proc -> States] /\ \A q \in Queues : q # NoQueue
    BY <1>0, QueueNames DEF TypeOK, States
  <2> QED
    BY <1>9, <1>a, <2>1 DEF Kill, BlockedOn, Woken, Inside, Dead
<1>10. ASSUME NEW p \in Proc, Wake(p) PROVE EnoughWoken'
  <2>1. run \in [Proc -> States]
    BY <1>0 DEF TypeOK, States
  <2> QED
    BY <1>10, <1>a, <2>1 DEF Wake, BlockedOn, Woken, Inside
<1>11. CASE UNCHANGED vars
  BY <1>11, <1>a DEF vars, procs, BlockedOn, Woken, Inside
<1> QED
  BY <1>1, <1>2, <1>3, <1>4, <1>5, <1>6, <1>7, <1>8, <1>9, <1>10, <1>11 DEF Next, ProcStep

(* While there is something to be had, a process that waits for it is on   *)
(* its way, for any number of processes and objects, in any order of       *)
(* calls, spurious wakes and kills.                                        *)
THEOREM WakeupsSuffice == Spec => []NoLostWakeup
<1>1. Init => EnoughWoken
  BY DEF Init, EnoughWoken, Enough, BlockedOn
<1>2. Spec => []EnoughWoken
  BY <1>1, SyncTypeCorrect, CountsWaiters, WaitsStaySafe, MessagesInductive, EnoughStep, PTL
     DEF Spec, Waits
<1> QED
  BY <1>2, SyncTypeCorrect, EnoughMeans, PTL

-----------------------------------------------------------------------------
(* The system tasks of module Supervisor, for any number of processes.     *)

\* Where the client is while a request of its own is under way, and a server
\* while it works on one
ClientAsks == {"signal", "acquire", "response"}
ServerWorks == {"lock", "unlock", "reply"}

\* Where a task can be
TaskPlaces == {"wait", "receive", "release", "poll", "cmdsend", "cmdrecv", "recv", "demo",
               "service"} \cup ClientAsks \cup ServerWorks

\* No object is ever destroyed by these tasks, so no loop hangs.
ObjectsStay == queueOk = Queues /\ objectOk = Objects /\ ~hung

\* Which task has a message in hand shows in its pc.
TasksTyped ==
  /\ role \in [Proc -> {"none", "server", "receiver", "supervisor"}]
  /\ role[Supervisor0] = "supervisor"
  /\ pc \in [Proc -> TaskPlaces]
  /\ taken \in [Proc -> Message \cup {NoMessage}]
  /\ asking \in [Proc -> Message \cup {NoMessage}]
ClientPlace ==
  \A p \in Proc : asking[p] # NoMessage <=> role[p] = "supervisor" /\ pc[p] \in ClientAsks
ServerPlace ==
  \A p \in Proc : taken[p] # NoMessage <=> role[p] = "server" /\ pc[p] \in ServerWorks

\* A request that a server has in hand, or whose reply is in the mailbox,
\* was delivered and has no answer yet, and no two of them are one.
TakenOnce ==
  \A p \in Proc : taken[p] # NoMessage =>
    /\ taken[p] \in delivered \ answered
    /\ \A r \in Proc : r # p => taken[r] # taken[p]
    /\ mail["reply"] # NoMessage => reply # taken[p]
RepliedOnce == mail["reply"] # NoMessage => reply \in delivered \ answered
AnsweredOnce == TakenOnce /\ RepliedOnce /\ answered \subseteq delivered

\* With one client, a request is in one place at most, the mailbox, a
\* server's hands or, as the reply to it, the other mailbox, and it is the
\* one the client asks.
OneServer ==
  \A p \in Proc : taken[p] # NoMessage =>
    taken[p] = asking[Supervisor0] /\ \A r \in Proc : r # p => taken[r] = NoMessage
RequestAlone ==
  mail["request"] # NoMessage =>
    /\ mail["request"] = asking[Supervisor0] /\ mail["reply"] = NoMessage
    /\ \A p \in Proc : taken[p] = NoMessage
ReplyAlone ==
  mail["reply"] # NoMessage =>
    /\ asking[Supervisor0] # NoMessage /\ reply = asking[Supervisor0]
    /\ \A p \in Proc : taken[p] = NoMessage
RequestPlaces == OneServer /\ RequestAlone /\ ReplyAlone

ServiceInv ==
  /\ TasksTyped /\ ClientPlace /\ ServerPlace /\ AnsweredOnce
  /\ OnlyClient => RequestPlaces

(* The objects of the tasks are objects.                                   *)
LEMMA TaskObjects ==
  /\ "request" \in Mailboxes /\ "reply" \in Mailboxes /\ "worker" \in Mailboxes
  /\ "requested" \in Events /\ "replied" \in Semaphores /\ "state" \in Mutexes
  /\ Supervisor0 \in Proc /\ Server0 \in Proc /\ Receiver0 \in Proc
  /\ NoProc \notin Proc
BY ObjectsAssumption, SupervisorAssumption, SyncAssumption
   DEF Proc, Supervisor0, Server0, Receiver0, NoProc

(* Whatever a task does, it does to the objects what some call does, or    *)
(* nothing.                                                                *)
LEMMA TasksCall == SystemNext => [Next]_vars
<1> SUFFICES ASSUME NEW p \in Proc, TaskStep(p) PROVE [Next]_vars
  BY DEF SystemNext
<1>0. ASSUME UNCHANGED <<procs, sync>> PROVE [Next]_vars
  BY <1>0 DEF sync, vars
<1>1. ASSUME NEW b \in Mailboxes, Send(p, b) \/ Receive(p, b) PROVE Next
  BY <1>1 DEF Send, Next, ProcStep
<1>2. CASE Server(p)
  <2>1. CASE ServerWaits(p)
    BY <2>1, TaskObjects DEF ServerWaits, EventWait, Next, ProcStep
  <2>2. CASE ServerReceives(p)
    BY <2>2, <1>1, TaskObjects DEF ServerReceives, Take
  <2>3. CASE ServerLocks(p) \/ ServerUnlocks(p)
    BY <2>3, TaskObjects DEF ServerLocks, ServerUnlocks, Next, ProcStep
  <2>4. CASE ServerReplies(p)
    BY <2>4, <1>1, TaskObjects DEF ServerReplies
  <2>5. CASE ServerReleases(p)
    <3>1. Release(p, "replied") => Next
      BY TaskObjects DEF Next, ProcStep
    <3> QED
      BY <2>5, <3>1, <1>0 DEF ServerReleases, Post
  <2> QED
    BY <1>2, <2>1, <2>2, <2>3, <2>4, <2>5 DEF Server
<1>3. CASE Receiver(p)
  BY <1>1, <1>3, TaskObjects DEF Receiver
<1>4. CASE Supervise(p)
  <2>1. CASE DemoSends(p)
    BY <2>1, <1>0, <1>1, TaskObjects DEF DemoSends, Idle
  <2>2. CASE ClientSends(p) \/ ClientReceives(p)
    BY <2>2, <1>1, TaskObjects DEF ClientSends, ClientReceives
  <2>3. CASE NoRoundTrip(p)
    BY <2>3, <1>0 DEF NoRoundTrip, Idle
  <2>4. CASE ClientSignals(p)
    BY <2>4, TaskObjects DEF ClientSignals, Next, ProcStep
  <2>5. CASE ClientAcquires(p)
    BY <2>5, TaskObjects DEF ClientAcquires, Next, ProcStep
  <2> QED
    BY <1>4, <2>1, <2>2, <2>3, <2>4, <2>5 DEF Supervise
<1>5. CASE Key(p)
  <2>1. CASE Command(p)
    <3>1. ASSUME NEW q \in Proc, Kill(q) \/ Wake(q) PROVE Next
      BY <3>1 DEF Next
    <3> QED
      BY <2>1, <3>1, <1>0 DEF Command, Spawn
  <2>2. CASE UNCHANGED <<procs, sync>>
    BY <2>2, <1>0
  <2>3. CASE Kill(p)
    BY <2>3 DEF Next
  <2>4. Command(p) \/ Kill(p) \/ UNCHANGED <<procs, sync>>
    BY <1>5 DEF Key, Enter, KillSelf, Push, Idle
  <2> QED
    BY <2>1, <2>2, <2>3, <2>4
<1>6. CASE PollEnds(p)
  BY <1>0, <1>6 DEF PollEnds, Idle
<1>7. CASE MailCommand(p)
  BY <1>1, <1>7, TaskObjects DEF MailCommand
<1> QED
  BY <1>2, <1>3, <1>4, <1>5, <1>6, <1>7 DEF TaskStep

(* The system of tasks implements the specification of the objects: every  *)
(* theorem above is true of the kernel's own tasks.                        *)
THEOREM TasksUseObjects == SystemSpec => Spec
<1>1. SystemInit => Init
  BY DEF SystemInit
<1>2. [SystemNext]_systemVars => [Next]_vars
  BY TasksCall DEF systemVars
<1> QED
  BY <1>1, <1>2, PTL DEF SystemSpec, Spec

(* The tasks destroy nothing, and so nothing hangs.                        *)
LEMMA ObjectsStayStep ==
  ASSUME TypeOK, ObjectsStay, NEW p \in Proc, TaskStep(p)
  PROVE  ObjectsStay'
<1>0. ASSUME UNCHANGED <<procs, sync>> PROVE ObjectsStay'
  BY <1>0 DEF sync, objects, ObjectsStay
<1>a. ASSUME NEW b \in Mailboxes, Send(p, b) \/ Receive(p, b) PROVE ObjectsStay'
  BY <1>a, QueueNames DEF ObjectsStay, Send, CallSend, ResumeSend, SendTurn, Receive, WaitOn, objects
<1>1. ASSUME NEW o \in Simple,
             \/ Acquire(p, o) \/ Release(p, o) \/ Lock(p, o) \/ Unlock(p, o)
             \/ EventWait(p, o) \/ Signal(p, o)
      PROVE ObjectsStay'
  BY <1>1, QueueNames DEF ObjectsStay, Acquire, Release, Lock, Unlock, EventWait,
     CallEventWait, EventWaitReturns, Signal, WaitOn, objects
<1>b. "requested" \in Simple /\ "replied" \in Simple /\ "state" \in Simple
  BY TaskObjects DEF Simple
<1>2. CASE Server(p)
  BY <1>2, <1>a, <1>1, <1>b, <1>0, TaskObjects
     DEF Server, ServerWaits, ServerReceives, Take, ServerLocks, ServerUnlocks, ServerReplies,
         ServerReleases, Post
<1>3. CASE Receiver(p) \/ MailCommand(p)
  BY <1>3, <1>a, TaskObjects DEF Receiver, MailCommand
<1>4. CASE Supervise(p)
  BY <1>4, <1>a, <1>1, <1>b, <1>0, TaskObjects
     DEF Supervise, DemoSends, ClientSends, NoRoundTrip, ClientSignals, ClientAcquires,
         ClientReceives, Idle
<1>5. CASE Key(p) \/ PollEnds(p)
  <2>1. ASSUME NEW q \in Proc, Kill(q) \/ Wake(q) PROVE ObjectsStay'
    BY <2>1 DEF Kill, Wake, ObjectsStay, objects
  <2>2. Command(p) => ObjectsStay'
    BY <2>1, <1>0 DEF Command, Spawn
  <2> QED
    BY <1>5, <2>1, <2>2, <1>0 DEF Key, Enter, KillSelf, Push, Idle, PollEnds
<1> QED
  BY <1>2, <1>3, <1>4, <1>5 DEF TaskStep

(* A send that returns has put a message into an empty mailbox; one that   *)
(* waits found it full and has changed none.  None is delivered.           *)
LEMMA SendOutcome ==
  ASSUME TypeOK, MessageInv, ObjectsStay, NEW p \in Proc, NEW b \in Mailboxes, Send(p, b)
  PROVE  /\ \/ /\ waiting'[p] = NoQueue /\ mail[b] = NoMessage
               /\ \E msg \in Message : mail' = [mail EXCEPT ![b] = msg]
            \/ waiting'[p] # NoQueue /\ mail[b] # NoMessage /\ mail' = mail
         /\ delivered' = delivered
<1>0. waiting \in [Proc -> Queues \cup {NoQueue}]
  BY DEF TypeOK
<1>1. ASSUME NEW msg \in Message, SendTurn(p, b, msg)
      PROVE  \/ /\ waiting'[p] = NoQueue /\ mail[b] = NoMessage
                /\ mail' = [mail EXCEPT ![b] = msg]
             \/ waiting'[p] # NoQueue /\ mail[b] # NoMessage /\ mail' = mail
  BY <1>0, <1>1, QueueNames DEF SendTurn, Leave, WaitOn, ObjectsStay
<1>2. CASE CallSend(p, b)
  <2>1. sent + 1 \in Message
    BY <1>2, SyncAssumption DEF CallSend, TypeOK, Message
  <2> QED
    BY <1>1, <1>2, <2>1 DEF CallSend
<1>3. CASE ResumeSend(p, b)
  <2>1. waiting[p] = Senders(b)
    BY <1>3 DEF ResumeSend, Fresh, Turn
  <2>2. arg[p] # NoMessage
    BY <2>1 DEF MessageInv, SendersHold, SenderQueues, ObjectsStay
  <2>3. arg[p] \in Message
    BY <2>2 DEF TypeOK
  <2>4. SendTurn(p, b, arg[p]) /\ delivered' = delivered
    BY <1>3 DEF ResumeSend, history
  <2> QED
    BY <1>1, <2>3, <2>4
<1> QED
  BY <1>2, <1>3 DEF Send

(* A receive that returns has emptied the mailbox and delivered what was   *)
(* in it; one that waits found it empty.                                   *)
LEMMA ReceiveOutcome ==
  ASSUME TypeOK, ObjectsStay, NEW p \in Proc, NEW b \in Mailboxes, Receive(p, b)
  PROVE  \/ /\ waiting'[p] = NoQueue /\ mail[b] # NoMessage
            /\ mail' = [mail EXCEPT ![b] = NoMessage]
            /\ delivered' = delivered \cup {mail[b]}
         \/ /\ waiting'[p] # NoQueue /\ mail[b] = NoMessage
            /\ mail' = mail /\ delivered' = delivered
BY QueueNames DEF Receive, Leave, WaitOn, TypeOK, ObjectsStay

\* The service's two mailboxes are not touched, and what was delivered stays
\* delivered.
ServiceMailSame ==
  /\ mail'["request"] = mail["request"] /\ mail'["reply"] = mail["reply"]
  /\ delivered \subseteq delivered'

(* Sends and receives of other messages, and every other call, leave the   *)
(* service's mailboxes alone.                                              *)
LEMMA WorkerMail ==
  ASSUME TypeOK, MessageInv, ObjectsStay, NEW p \in Proc,
         Send(p, "worker") \/ Receive(p, "worker")
  PROVE  ServiceMailSame
<1>1. "worker" \in Mailboxes /\ "request" \in Mailboxes /\ "reply" \in Mailboxes
  BY TaskObjects
<1>2. /\ mail' = mail \/ \E msg : mail' = [mail EXCEPT !["worker"] = msg]
      /\ delivered \subseteq delivered'
  BY <1>1, SendOutcome, ReceiveOutcome
<1>3. mail \in [Mailboxes -> Message \cup {NoMessage}]
  BY DEF TypeOK
<1> QED
  BY <1>1, <1>2, <1>3 DEF ServiceMailSame

(* A step that moves one task to another place, touches no request and     *)
(* changes no role keeps the invariant, if the task is a client that asks  *)
(* or a server that works after it as much as before it.                   *)
LEMMA QuietStep ==
  ASSUME ServiceInv, NEW p \in Proc, NEW to \in TaskPlaces,
         pc' = [pc EXCEPT ![p] = to],
         role[p] = "supervisor" => (to \in ClientAsks <=> pc[p] \in ClientAsks),
         role[p] = "server" => (to \in ServerWorks <=> pc[p] \in ServerWorks),
         UNCHANGED <<role, taken, reply, asking, answered>>, ServiceMailSame
  PROVE  ServiceInv'
<1>0. pc \in [Proc -> TaskPlaces]
  BY DEF ServiceInv, TasksTyped
<1>1. TasksTyped'
  BY <1>0 DEF ServiceInv, TasksTyped
<1>2. ClientPlace'
  <2>1. \A r \in Proc : role[r] = "supervisor" =>
          (pc'[r] \in ClientAsks <=> pc[r] \in ClientAsks)
    BY <1>0
  <2> QED
    BY <2>1 DEF ServiceInv, ClientPlace
<1>3. ServerPlace'
  <2>1. \A r \in Proc : role[r] = "server" =>
          (pc'[r] \in ServerWorks <=> pc[r] \in ServerWorks)
    BY <1>0
  <2> QED
    BY <2>1 DEF ServiceInv, ServerPlace
<1>4. AnsweredOnce'
  BY DEF ServiceInv, AnsweredOnce, TakenOnce, RepliedOnce, ServiceMailSame
<1>5. OnlyClient' => RequestPlaces'
  BY DEF ServiceInv, OnlyClient, RequestPlaces, OneServer, RequestAlone, ReplyAlone,
         ServiceMailSame
<1> QED
  BY <1>1, <1>2, <1>3, <1>4, <1>5 DEF ServiceInv

(* The same of a step that ends at one of two places, as GoOn decides.     *)
LEMMA QuietGoOn ==
  ASSUME ServiceInv, NEW p \in Proc, NEW to \in TaskPlaces, NEW y,
         GoOn(p, to, y),
         role[p] = "supervisor" => (to \in ClientAsks <=> pc[p] \in ClientAsks),
         role[p] = "server" => (to \in ServerWorks <=> pc[p] \in ServerWorks),
         UNCHANGED <<role, taken, reply, asking, answered>>, ServiceMailSame
  PROVE  ServiceInv'
<1>1. pc \in [Proc -> TaskPlaces]
  BY DEF ServiceInv, TasksTyped
<1>2. \E t \in TaskPlaces : pc' = [pc EXCEPT ![p] = t] /\ t \in {to, pc[p]}
  <2>1. CASE waiting'[p] = NoQueue
    BY <2>1 DEF GoOn
  <2>2. CASE waiting'[p] # NoQueue
    BY <1>1, <2>2 DEF GoOn
  <2> QED
    BY <2>1, <2>2
<1> QED
  BY <1>2, QuietStep

(* Steps of the shells and calls that have nothing to do with requests.    *)
LEMMA QuietSteps ==
  ASSUME TypeOK, MessageInv, ObjectsStay, ServiceInv, NEW p \in Proc,
         \/ ServerWaits(p) \/ ServerLocks(p) \/ ServerUnlocks(p) \/ ServerReleases(p)
         \/ Receiver(p) \/ DemoSends(p) \/ NoRoundTrip(p) \/ ClientSignals(p)
         \/ ClientAcquires(p) \/ PollEnds(p) \/ MailCommand(p)
  PROVE  ServiceInv'
<1>0. ASSUME UNCHANGED <<mail, delivered>> PROVE ServiceMailSame
  BY <1>0 DEF ServiceMailSame
<1>i. ASSUME UNCHANGED <<procs, sync>> PROVE ServiceMailSame
  BY <1>i DEF sync, history, ServiceMailSame
<1>1. CASE ServerWaits(p)
  <2>1. ServiceMailSame
    BY <1>0, <1>1 DEF ServerWaits, EventWait, CallEventWait, EventWaitReturns, history
  <2> QED
    BY <1>1, <2>1, QuietGoOn DEF ServerWaits, At, TaskPlaces, ServerWorks, service, tasks
<1>2. CASE ServerLocks(p)
  <2>1. ServiceMailSame
    BY <1>0, <1>2 DEF ServerLocks, Lock
  <2> QED
    BY <1>2, <2>1, QuietGoOn DEF ServerLocks, At, TaskPlaces, ServerWorks, service, tasks
<1>3. CASE ServerUnlocks(p)
  <2>1. ServiceMailSame
    BY <1>0, <1>3 DEF ServerUnlocks, Unlock
  <2> QED
    BY <1>3, <2>1, QuietGoOn DEF ServerUnlocks, At, TaskPlaces, ServerWorks, service, tasks
<1>4. CASE ServerReleases(p)
  <2>1. ServiceMailSame
    BY <1>0, <1>i, <1>4 DEF ServerReleases, Post, Release, history
  <2> QED
    BY <1>4, <2>1, QuietGoOn DEF ServerReleases, At, TaskPlaces, ServerWorks, service, tasks
<1>5. CASE Receiver(p)
  <2>1. ServiceMailSame
    BY <1>5, WorkerMail DEF Receiver
  <2> QED
    BY <1>5, <2>1, QuietGoOn DEF Receiver, At, TaskPlaces, service, tasks
<1>6. CASE DemoSends(p)
  <2>1. ServiceMailSame
    BY <1>6, <1>i, WorkerMail DEF DemoSends, Idle
  <2>2. GoOn(p, "service", FALSE)
    BY <1>6 DEF DemoSends, Idle
  <2> QED
    BY <1>6, <2>1, <2>2, QuietGoOn DEF DemoSends, At, TaskPlaces, ClientAsks, service, tasks
<1>7. CASE NoRoundTrip(p)
  <2>1. ServiceMailSame
    BY <1>7, <1>i DEF NoRoundTrip, Idle
  <2> QED
    BY <1>7, <2>1, QuietGoOn DEF NoRoundTrip, Idle, At, TaskPlaces, ClientAsks, service, tasks
<1>8. CASE ClientSignals(p)
  <2>1. ServiceMailSame
    BY <1>0, <1>8 DEF ClientSignals, Signal, history
  <2> QED
    BY <1>8, <2>1, QuietGoOn DEF ClientSignals, At, TaskPlaces, ClientAsks, tasks
<1>9. CASE ClientAcquires(p)
  <2>1. ServiceMailSame
    BY <1>0, <1>9 DEF ClientAcquires, Acquire, history
  <2> QED
    BY <1>9, <2>1, QuietGoOn DEF ClientAcquires, At, TaskPlaces, ClientAsks, service, tasks
<1>10. CASE PollEnds(p)
  <2>1. ServiceMailSame
    BY <1>10, <1>i DEF PollEnds, Idle
  <2>2. Polled(p) \in {"demo", "recv"} /\ role[p] # "server" /\ pc[p] = "poll"
    BY <1>10 DEF Polled, PollEnds, At, Shells
  <2> QED
    BY <1>10, <2>1, <2>2, QuietGoOn DEF PollEnds, Idle, TaskPlaces, ClientAsks, service, tasks
<1>11. CASE MailCommand(p)
  <2>1. ServiceMailSame
    BY <1>11, WorkerMail DEF MailCommand
  <2>2. role[p] # "server" /\ pc[p] \in {"cmdsend", "cmdrecv"}
    BY <1>11 DEF MailCommand, At, Shells
  <2> QED
    BY <1>11, <2>1, <2>2, QuietGoOn DEF MailCommand, TaskPlaces, ClientAsks, service, tasks
<1> QED
  BY <1>1, <1>2, <1>3, <1>4, <1>5, <1>6, <1>7, <1>8, <1>9, <1>10, <1>11

(* A key of the shell: the operator kills, wakes and spawns tasks, and     *)
(* touches no request.  A task that is spawned has none in hand.           *)
LEMMA KeyStep ==
  ASSUME TypeOK, ServiceInv, NEW p \in Proc, Key(p)
  PROVE  ServiceInv'
<1>0. /\ role[p] \in Shells /\ pc[p] = "poll"
      /\ UNCHANGED <<taken, reply, asking, answered>>
      /\ pc \in [Proc -> TaskPlaces]
  BY DEF Key, At, Shells, service, ServiceInv, TasksTyped
<1>i. ASSUME UNCHANGED <<procs, sync>> PROVE ServiceMailSame
  BY <1>i DEF sync, history, ServiceMailSame
<1>1. ASSUME NEW to \in {"poll", "cmdsend", "cmdrecv"}, GoOn(p, to, FALSE), ServiceMailSame,
             UNCHANGED tasks
      PROVE ServiceInv'
  <2>1. to \in TaskPlaces /\ to \notin ClientAsks /\ role[p] # "server"
    BY <1>0 DEF TaskPlaces, ClientAsks, Shells
  <2>2. pc[p] \notin ClientAsks
    BY <1>0 DEF ClientAsks
  <2>3. UNCHANGED <<role, taken, reply, asking, answered>>
    BY <1>0, <1>1 DEF tasks
  <2> QED
    BY <1>1, <2>1, <2>2, <2>3, QuietGoOn
<1>2. CASE Command(p)
  <2>1. ASSUME NEW q \in Proc, Kill(q) \/ Wake(q) PROVE ServiceMailSame
    BY <2>1 DEF Kill, Wake, history, ServiceMailSame
  <2>2. CASE GoOn(p, "poll", FALSE) /\ ServiceMailSame /\ UNCHANGED tasks
    BY <1>1, <2>2
  <2>3. ASSUME NEW q \in Proc, NEW r \in Spawnable, Spawn(p, q, r) PROVE ServiceInv'
    <3> DEFINE first == IF r = "server" THEN "wait" ELSE "poll"
    <3>1. /\ role[q] = "none" /\ role' = [role EXCEPT ![q] = r]
          /\ pc' = [pc EXCEPT ![p] = "poll", ![q] = first]
          /\ ServiceMailSame
      BY <2>3, <1>i DEF Spawn
    <3>2. q # p /\ q # Supervisor0 /\ r \in {"server", "receiver", "supervisor"}
      BY <1>0, <3>1, SupervisorAssumption DEF Shells, ServiceInv, TasksTyped
    <3>3. /\ first \in TaskPlaces /\ first \notin ServerWorks /\ first \notin ClientAsks /\ "poll" \in TaskPlaces
          /\ "poll" \notin ClientAsks /\ "poll" \notin ServerWorks
      BY DEF TaskPlaces, ServerWorks, ClientAsks
    <3>4. pc' \in [Proc -> TaskPlaces]
      BY <1>0, <3>1, <3>3
    <3>5. \A x \in Proc : x # q => role'[x] = role[x] /\ pc'[x] = pc[x]
      BY <1>0, <3>1 DEF ServiceInv, TasksTyped
    <3>6. role'[q] = r /\ pc'[q] = first
      BY <1>0, <3>1 DEF ServiceInv, TasksTyped
    <3> HIDE DEF first
    <3>7. TasksTyped'
      BY <1>0, <3>1, <3>2, <3>4, <3>5, TaskObjects DEF ServiceInv, TasksTyped
    <3>8. ClientPlace'
      <4>1. asking[q] = NoMessage
        BY <3>1 DEF ServiceInv, ClientPlace
      <4> QED
        BY <1>0, <3>3, <3>5, <3>6, <4>1 DEF ServiceInv, ClientPlace
    <3>9. ServerPlace'
      <4>1. taken[q] = NoMessage
        BY <3>1 DEF ServiceInv, ServerPlace
      <4> QED
        BY <1>0, <3>3, <3>5, <3>6, <4>1 DEF ServiceInv, ServerPlace
    <3>10. AnsweredOnce'
      BY <1>0, <3>1 DEF ServiceInv, AnsweredOnce, TakenOnce, RepliedOnce, ServiceMailSame
    <3>11. OnlyClient' => RequestPlaces'
      <4>1. OnlyClient' => OnlyClient
        BY <3>1, <3>5 DEF OnlyClient
      <4> QED
        BY <1>0, <3>1, <4>1 DEF ServiceInv, RequestPlaces, OneServer, RequestAlone, ReplyAlone,
           ServiceMailSame
    <3> QED
      BY <3>7, <3>8, <3>9, <3>10, <3>11 DEF ServiceInv
  <2> QED
    BY <1>2, <1>i, <2>1, <2>2, <2>3 DEF Command
<1>3. CASE \E to \in {"poll", "cmdsend", "cmdrecv"} : Idle(p, to, FALSE) /\ UNCHANGED tasks
  BY <1>1, <1>3, <1>i DEF Idle
<1>4. CASE KillSelf(p) /\ UNCHANGED tasks
  <2>1. ServiceMailSame
    BY <1>4 DEF KillSelf, Kill, history, ServiceMailSame
  <2>2. pc' = [pc EXCEPT ![p] = pc[p]] /\ pc[p] \in TaskPlaces
    BY <1>0, <1>4 DEF KillSelf
  <2>3. UNCHANGED <<role, taken, reply, asking, answered>>
    BY <1>0, <1>4 DEF tasks
  <2> QED
    BY <2>1, <2>2, <2>3, QuietStep
<1> QED
  BY <1>2, <1>3, <1>4 DEF Key, Enter, Push

(* A client asks.  It may have to wait for the mailbox, but not if it is   *)
(* the only one: then nothing of an earlier request is left anywhere.      *)
LEMMA AskStep ==
  ASSUME TypeOK, MessageInv, ObjectsStay, ServiceInv, NEW p \in Proc, ClientSends(p)
  PROVE  /\ ServiceInv'
         /\ \A r \in Proc : asking[r] # NoMessage => asking'[r] = asking[r]
<1>0. /\ pc \in [Proc -> TaskPlaces] /\ asking \in [Proc -> Message \cup {NoMessage}]
      /\ role' = role /\ taken' = taken /\ reply' = reply /\ answered' = answered
      /\ mail \in [Mailboxes -> Message \cup {NoMessage}]
      /\ "request" \in Mailboxes /\ "reply" \in Mailboxes
  BY TaskObjects DEF ServiceInv, TasksTyped, TypeOK, ClientSends, tasks
<1>1. role[p] = "supervisor" /\ pc[p] = "service" /\ Send(p, "request")
  BY DEF ClientSends, At
<1>2. asking[p] = NoMessage
  BY <1>1 DEF ServiceInv, ClientPlace, ClientAsks
<1>d. delivered' = delivered
  BY <1>0, <1>1, SendOutcome
<1>3. CASE waiting'[p] # NoQueue
  <2>1. mail' = mail
    BY <1>0, <1>1, <1>3, SendOutcome
  <2>2. asking' = asking /\ pc' = [pc EXCEPT ![p] = pc[p]] /\ ServiceMailSame
    BY <1>3, <1>d, <2>1 DEF ClientSends, GoOn, ServiceMailSame
  <2>3. pc[p] \in TaskPlaces
    BY <1>0
  <2> QED
    BY <1>0, <2>2, <2>3, QuietStep
<1>4. CASE waiting'[p] = NoQueue
  <2>1. PICK msg \in Message : mail' = [mail EXCEPT !["request"] = msg]
    BY <1>0, <1>1, <1>4, SendOutcome
  <2>2. mail'["request"] = msg /\ mail'["reply"] = mail["reply"] /\ msg # NoMessage
    BY <1>0, <2>1 DEF Message, NoMessage
  <2>3. asking' = [asking EXCEPT ![p] = msg] /\ pc' = [pc EXCEPT ![p] = "signal"]
    BY <1>4, <2>2 DEF ClientSends, GoOn
  <2>4. "signal" \in TaskPlaces /\ "signal" \in ClientAsks
    BY DEF TaskPlaces, ClientAsks
  <2>5. /\ asking'[p] = msg /\ pc'[p] = "signal"
        /\ \A r \in Proc : r # p => asking'[r] = asking[r] /\ pc'[r] = pc[r]
    BY <1>0, <2>3
  <2>6. TasksTyped'
    BY <1>0, <2>3, <2>4 DEF ServiceInv, TasksTyped
  <2>7. ClientPlace'
    BY <1>0, <1>1, <2>2, <2>4, <2>5 DEF ServiceInv, ClientPlace
  <2>8. ServerPlace'
    BY <1>0, <1>1, <2>5 DEF ServiceInv, ServerPlace
  <2>9. AnsweredOnce'
    BY <1>0, <1>d, <2>2 DEF ServiceInv, AnsweredOnce, TakenOnce, RepliedOnce
  <2>10. ASSUME OnlyClient' PROVE RequestPlaces'
    <3>1. OnlyClient /\ p = Supervisor0
      BY <1>0, <1>1, <2>10 DEF OnlyClient
    <3>2. mail["reply"] = NoMessage /\ \A r \in Proc : taken[r] = NoMessage
      <4>1. RequestPlaces
        BY <3>1 DEF ServiceInv
      <4>2. ASSUME NEW r \in Proc PROVE taken[r] = NoMessage
        <5>1. taken[r] # NoMessage => taken[r] = asking[Supervisor0]
          BY <4>1 DEF RequestPlaces, OneServer
        <5> QED
          BY <1>2, <3>1, <5>1
      <4>3. mail["reply"] = NoMessage
        BY <1>2, <3>1, <4>1 DEF RequestPlaces, ReplyAlone
      <4> QED
        BY <4>2, <4>3
    <3> QED
      BY <1>0, <2>2, <2>5, <3>1, <3>2 DEF RequestPlaces, OneServer, RequestAlone, ReplyAlone
  <2> QED
    BY <1>2, <2>5, <2>6, <2>7, <2>8, <2>9, <2>10 DEF ServiceInv
<1> QED
  BY <1>3, <1>4

(* A server takes the request out of the mailbox, if there is one.  It was *)
(* never delivered before.                                                 *)
LEMMA TakeStep ==
  ASSUME TypeOK, MessageInv, ObjectsStay, ServiceInv, NEW p \in Proc, ServerReceives(p)
  PROVE  ServiceInv'
<1>0. /\ pc \in [Proc -> TaskPlaces] /\ role' = role /\ reply' = reply /\ asking' = asking
      /\ answered' = answered /\ taken \in [Proc -> Message \cup {NoMessage}]
      /\ mail \in [Mailboxes -> Message \cup {NoMessage}]
      /\ "request" \in Mailboxes /\ "reply" \in Mailboxes
  BY TaskObjects DEF ServiceInv, TasksTyped, TypeOK, ServerReceives, tasks
<1>1. role[p] = "server" /\ pc[p] = "receive" /\ Receive(p, "request")
  BY DEF ServerReceives, Take, At
<1>2. CASE mail["request"] = NoMessage
  <2>1. mail' = mail /\ waiting'[p] # NoQueue /\ delivered' = delivered
    BY <1>0, <1>1, <1>2, ReceiveOutcome
  <2>2. taken' = taken /\ pc' = [pc EXCEPT ![p] = pc[p]] /\ ServiceMailSame
    BY <1>2, <2>1 DEF ServerReceives, GoOn, ServiceMailSame
  <2>3. pc[p] \in TaskPlaces
    BY <1>0
  <2> QED
    BY <1>0, <2>2, <2>3, QuietStep
<1>3. CASE mail["request"] # NoMessage
  <2> DEFINE msg == mail["request"]
  <2>1. /\ waiting'[p] = NoQueue /\ mail' = [mail EXCEPT !["request"] = NoMessage]
        /\ delivered' = delivered \cup {msg}
    BY <1>0, <1>1, <1>3, ReceiveOutcome
  <2>2. mail'["request"] = NoMessage /\ mail'["reply"] = mail["reply"]
    BY <1>0, <2>1
  <2>3. msg \notin delivered /\ msg \in Message /\ msg # NoMessage
    BY <1>0, <1>3 DEF MessageInv, MessagePlaces, NotAgain
  <2>4. taken' = [taken EXCEPT ![p] = msg] /\ pc' = [pc EXCEPT ![p] = "lock"]
    BY <1>3, <2>1 DEF ServerReceives, GoOn
  <2> HIDE DEF msg
  <2>5. "lock" \in TaskPlaces /\ "lock" \in ServerWorks
    BY DEF TaskPlaces, ServerWorks
  <2>6. /\ taken'[p] = msg /\ pc'[p] = "lock"
        /\ \A r \in Proc : r # p => taken'[r] = taken[r] /\ pc'[r] = pc[r]
    BY <1>0, <2>4
  <2>7. TasksTyped'
    BY <1>0, <2>3, <2>4, <2>5 DEF ServiceInv, TasksTyped
  <2>8. ClientPlace'
    BY <1>0, <1>1, <2>6 DEF ServiceInv, ClientPlace
  <2>9. ServerPlace'
    BY <1>0, <1>1, <2>3, <2>5, <2>6 DEF ServiceInv, ServerPlace
  <2>10. AnsweredOnce'
    <3>1. msg \notin answered /\ answered' \subseteq delivered'
      BY <1>0, <2>1, <2>3 DEF ServiceInv, AnsweredOnce
    <3>2. \A r \in Proc : taken[r] # NoMessage => taken[r] # msg /\ taken[r] \in delivered
      BY <2>3 DEF ServiceInv, AnsweredOnce, TakenOnce
    <3>3. mail["reply"] # NoMessage => reply # msg
      BY <2>3 DEF ServiceInv, AnsweredOnce, RepliedOnce
    <3>4. TakenOnce'
      <4>1. ASSUME NEW r \in Proc, taken'[r] # NoMessage
            PROVE  /\ taken'[r] \in delivered' \ answered'
                   /\ \A x \in Proc : x # r => taken'[x] # taken'[r]
                   /\ mail'["reply"] # NoMessage => reply' # taken'[r]
        <5>1. CASE r = p
          <6>1. \A x \in Proc : x # r => taken'[x] # taken'[r]
            BY <2>3, <2>6, <3>2, <5>1
          <6> QED
            BY <1>0, <2>1, <2>2, <2>6, <3>1, <3>3, <5>1, <6>1
        <5>2. CASE r # p
          <6>1. /\ taken[r] # NoMessage /\ taken[r] \in delivered \ answered
                /\ \A x \in Proc : x # r => taken[x] # taken[r]
                /\ mail["reply"] # NoMessage => reply # taken[r]
            BY <2>6, <4>1, <5>2 DEF ServiceInv, AnsweredOnce, TakenOnce
          <6>2. \A x \in Proc : x # r => taken'[x] # taken'[r]
            BY <2>6, <3>2, <5>2, <6>1
          <6> QED
            BY <1>0, <2>1, <2>2, <2>6, <5>2, <6>1, <6>2
        <5> QED
          BY <5>1, <5>2
      <4> QED
        BY <4>1 DEF TakenOnce
    <3>5. RepliedOnce'
      BY <1>0, <2>1, <2>2 DEF ServiceInv, AnsweredOnce, RepliedOnce
    <3> QED
      BY <3>1, <3>4, <3>5 DEF AnsweredOnce
  <2>11. ASSUME OnlyClient' PROVE RequestPlaces'
    <3>1. OnlyClient
      BY <1>0, <2>11 DEF OnlyClient
    <3>2. /\ msg = asking[Supervisor0] /\ mail["reply"] = NoMessage
          /\ \A r \in Proc : taken[r] = NoMessage
      BY <1>3, <3>1 DEF ServiceInv, RequestPlaces, RequestAlone, msg
    <3> QED
      BY <1>0, <2>2, <2>6, <3>2 DEF RequestPlaces, OneServer, RequestAlone, ReplyAlone
  <2> QED
    BY <2>7, <2>8, <2>9, <2>10, <2>11 DEF ServiceInv
<1> QED
  BY <1>2, <1>3

(* A server replies to the request it has in hand, when the reply mailbox  *)
(* is empty.                                                               *)
LEMMA ReplyStep ==
  ASSUME TypeOK, MessageInv, ObjectsStay, ServiceInv, NEW p \in Proc, ServerReplies(p)
  PROVE  ServiceInv'
<1>0. /\ pc \in [Proc -> TaskPlaces] /\ role' = role /\ asking' = asking
      /\ answered' = answered /\ taken \in [Proc -> Message \cup {NoMessage}]
      /\ mail \in [Mailboxes -> Message \cup {NoMessage}]
      /\ "request" \in Mailboxes /\ "reply" \in Mailboxes
  BY TaskObjects DEF ServiceInv, TasksTyped, TypeOK, ServerReplies, tasks
<1>1. role[p] = "server" /\ pc[p] = "reply" /\ Send(p, "reply")
  BY DEF ServerReplies, At
<1>2. taken[p] # NoMessage
  BY <1>1 DEF ServiceInv, ServerPlace, ServerWorks
<1>d. delivered' = delivered
  BY <1>0, <1>1, SendOutcome
<1>3. CASE waiting'[p] # NoQueue
  <2>1. mail' = mail
    BY <1>0, <1>1, <1>3, SendOutcome
  <2>2. /\ taken' = taken /\ reply' = reply
        /\ pc' = [pc EXCEPT ![p] = pc[p]] /\ ServiceMailSame
    BY <1>3, <1>d, <2>1 DEF ServerReplies, GoOn, ServiceMailSame
  <2>3. pc[p] \in TaskPlaces
    BY <1>0
  <2> QED
    BY <1>0, <2>2, <2>3, QuietStep
<1>4. CASE waiting'[p] = NoQueue
  <2>1. mail["reply"] = NoMessage /\ \E msg \in Message : mail' = [mail EXCEPT !["reply"] = msg]
    BY <1>0, <1>1, <1>4, SendOutcome
  <2>2. mail'["request"] = mail["request"]
    BY <1>0, <2>1
  <2>3. /\ reply' = taken[p] /\ taken' = [taken EXCEPT ![p] = NoMessage]
        /\ pc' = [pc EXCEPT ![p] = "release"]
    BY <1>4 DEF ServerReplies, GoOn
  <2>4. "release" \in TaskPlaces /\ "release" \notin ServerWorks
    BY DEF TaskPlaces, ServerWorks
  <2>5. /\ pc'[p] = "release" /\ taken'[p] = NoMessage
        /\ \A r \in Proc : r # p => pc'[r] = pc[r] /\ taken'[r] = taken[r]
    BY <1>0, <2>3
  <2>6. TasksTyped'
    BY <1>0, <2>3, <2>4 DEF ServiceInv, TasksTyped
  <2>7. ClientPlace'
    BY <1>0, <1>1, <2>5 DEF ServiceInv, ClientPlace
  <2>8. ServerPlace'
    BY <1>0, <2>4, <2>5 DEF ServiceInv, ServerPlace
  <2>9. AnsweredOnce'
    <3>1. /\ taken[p] \in delivered \ answered
          /\ \A r \in Proc : r # p => taken[r] # taken[p]
      BY <1>2 DEF ServiceInv, AnsweredOnce, TakenOnce
    <3>2. TakenOnce'
      BY <1>0, <1>d, <2>3, <2>5, <3>1 DEF ServiceInv, AnsweredOnce, TakenOnce
    <3>3. RepliedOnce'
      BY <1>0, <1>d, <2>3, <3>1 DEF RepliedOnce
    <3> QED
      BY <1>0, <1>d, <3>2, <3>3 DEF ServiceInv, AnsweredOnce
  <2>10. ASSUME OnlyClient' PROVE RequestPlaces'
    <3>1. OnlyClient
      BY <1>0, <2>10 DEF OnlyClient
    <3>2. /\ taken[p] = asking[Supervisor0] /\ mail["request"] = NoMessage
          /\ \A r \in Proc : r # p => taken[r] = NoMessage
      BY <1>2, <3>1 DEF ServiceInv, RequestPlaces, OneServer, RequestAlone
    <3>3. \A r \in Proc : taken'[r] = NoMessage
      BY <2>5, <3>2
    <3> QED
      BY <1>0, <1>2, <2>2, <2>3, <3>2, <3>3 DEF RequestPlaces, OneServer, RequestAlone, ReplyAlone
  <2> QED
    BY <2>6, <2>7, <2>8, <2>9, <2>10 DEF ServiceInv
<1> QED
  BY <1>3, <1>4

\* What RepliesMatch says of a step
ReplyFits ==
  \A p \in Proc : asking[p] # NoMessage /\ asking'[p] = NoMessage =>
    /\ reply \in delivered \ answered
    /\ OnlyClient => reply = asking[p]

(* A client gets a reply, and nothing of the request it is to is left.     *)
LEMMA AnswerStep ==
  ASSUME TypeOK, ObjectsStay, ServiceInv, NEW p \in Proc, ClientReceives(p)
  PROVE  ServiceInv' /\ ReplyFits
<1>0. /\ pc \in [Proc -> TaskPlaces] /\ role' = role /\ taken' = taken
      /\ asking \in [Proc -> Message \cup {NoMessage}]
      /\ mail \in [Mailboxes -> Message \cup {NoMessage}]
      /\ "request" \in Mailboxes /\ "reply" \in Mailboxes
  BY TaskObjects DEF ServiceInv, TasksTyped, TypeOK, ClientReceives, tasks
<1>1. role[p] = "supervisor" /\ pc[p] = "response" /\ Receive(p, "reply")
  BY DEF ClientReceives, At
<1>2. CASE mail["reply"] = NoMessage
  <2>1. mail' = mail /\ waiting'[p] # NoQueue /\ delivered' = delivered
    BY <1>0, <1>1, <1>2, ReceiveOutcome
  <2>2. /\ asking' = asking /\ reply' = reply /\ answered' = answered
        /\ pc' = [pc EXCEPT ![p] = pc[p]] /\ ServiceMailSame
    BY <2>1 DEF ClientReceives, ServiceMailSame
  <2>3. pc[p] \in TaskPlaces
    BY <1>0
  <2>4. ServiceInv'
    BY <1>0, <2>2, <2>3, QuietStep
  <2> QED
    BY <2>2, <2>4 DEF ReplyFits
<1>3. CASE mail["reply"] # NoMessage
  <2>1. /\ waiting'[p] = NoQueue /\ mail' = [mail EXCEPT !["reply"] = NoMessage]
        /\ delivered' = delivered \cup {mail["reply"]}
    BY <1>0, <1>1, <1>3, ReceiveOutcome
  <2>2. mail'["request"] = mail["request"] /\ mail'["reply"] = NoMessage
    BY <1>0, <2>1
  <2>3. /\ asking' = [asking EXCEPT ![p] = NoMessage] /\ answered' = answered \cup {reply}
        /\ pc' = [pc EXCEPT ![p] = "poll"]
    BY <2>1 DEF ClientReceives
  <2>4. reply \in delivered \ answered
    BY <1>3 DEF ServiceInv, AnsweredOnce, RepliedOnce
  <2>5. "poll" \in TaskPlaces /\ "poll" \notin ClientAsks
    BY DEF TaskPlaces, ClientAsks
  <2>6. /\ pc'[p] = "poll" /\ asking'[p] = NoMessage
        /\ \A r \in Proc : r # p => pc'[r] = pc[r] /\ asking'[r] = asking[r]
    BY <1>0, <2>3
  <2>7. TasksTyped'
    BY <1>0, <2>3, <2>5 DEF ServiceInv, TasksTyped
  <2>8. ClientPlace'
    BY <1>0, <2>5, <2>6 DEF ServiceInv, ClientPlace
  <2>9. ServerPlace'
    BY <1>0, <1>1, <2>6 DEF ServiceInv, ServerPlace
  <2>10. AnsweredOnce'
    BY <1>0, <1>3, <2>1, <2>2, <2>3, <2>4 DEF ServiceInv, AnsweredOnce, TakenOnce, RepliedOnce
  <2>11. ASSUME OnlyClient
         PROVE  /\ p = Supervisor0 /\ reply = asking[p]
                /\ mail["request"] = NoMessage /\ \A r \in Proc : taken[r] = NoMessage
    <3>1. p = Supervisor0
      BY <1>1, <2>11 DEF OnlyClient
    <3>2. RequestPlaces
      BY <2>11 DEF ServiceInv
    <3> QED
      BY <1>3, <3>1, <3>2 DEF RequestPlaces, RequestAlone, ReplyAlone
  <2>12. OnlyClient' => RequestPlaces'
    <3>1. OnlyClient' => OnlyClient
      BY <1>0 DEF OnlyClient
    <3> QED
      BY <1>0, <2>2, <2>11, <3>1 DEF RequestPlaces, OneServer, RequestAlone, ReplyAlone
  <2>13. ReplyFits
    BY <2>4, <2>6, <2>11 DEF ReplyFits
  <2> QED
    BY <2>7, <2>8, <2>9, <2>10, <2>12, <2>13 DEF ServiceInv
<1> QED
  BY <1>2, <1>3

(* Every step of every task keeps the invariant, and a request is only     *)
(* ever dropped for a reply that fits.                                     *)
LEMMA ServiceStep ==
  ASSUME TypeOK, MessageInv, ObjectsStay, ServiceInv, [SystemNext]_systemVars
  PROVE  ServiceInv' /\ ObjectsStay' /\ ReplyFits
<1>0. asking' = asking => ReplyFits
  BY DEF ReplyFits
<1>1. CASE UNCHANGED systemVars
  <2>1. /\ UNCHANGED <<queueOk, objectOk, hung, mail, delivered>>
        /\ UNCHANGED <<role, pc, taken, reply, asking, answered>>
    BY <1>1 DEF systemVars, vars, objects, history, service, tasks
  <2>2. ObjectsStay'
    BY <2>1 DEF ObjectsStay
  <2>3. ServiceInv'
    BY <2>1 DEF ServiceInv, TasksTyped, OnlyClient, ClientPlace, ServerPlace, AnsweredOnce,
                TakenOnce, RepliedOnce, RequestPlaces, OneServer, RequestAlone, ReplyAlone
  <2> QED
    BY <1>0, <2>1, <2>2, <2>3
<1>2. ASSUME NEW p \in Proc, TaskStep(p)
      PROVE  ServiceInv' /\ ObjectsStay' /\ ReplyFits
  <2>0. ObjectsStay'
    BY <1>2, ObjectsStayStep
  <2>1. CASE \/ ServerWaits(p) \/ ServerLocks(p) \/ ServerUnlocks(p) \/ ServerReleases(p)
             \/ Receiver(p) \/ DemoSends(p) \/ NoRoundTrip(p) \/ ClientSignals(p)
             \/ ClientAcquires(p) \/ PollEnds(p) \/ MailCommand(p)
    <3>1. asking' = asking
      BY <2>1 DEF ServerWaits, ServerLocks, ServerUnlocks, ServerReleases, Receiver, DemoSends,
                  NoRoundTrip, ClientSignals, ClientAcquires, PollEnds, MailCommand, service
    <3>2. ServiceInv'
      BY <2>1, QuietSteps
    <3> QED
      BY <1>0, <2>0, <3>1, <3>2
  <2>2. CASE Key(p)
    <3>1. asking' = asking
      BY <2>2 DEF Key, service
    <3> QED
      BY <1>0, <2>0, <2>2, <3>1, KeyStep
  <2>3. CASE ClientSends(p)
    <3>1. ReplyFits
      BY <2>3, AskStep DEF ReplyFits
    <3> QED
      BY <2>0, <2>3, <3>1, AskStep
  <2>4. CASE ServerReceives(p)
    <3>1. asking' = asking
      BY <2>4 DEF ServerReceives
    <3> QED
      BY <1>0, <2>0, <2>4, <3>1, TakeStep
  <2>5. CASE ServerReplies(p)
    <3>1. asking' = asking
      BY <2>5 DEF ServerReplies
    <3> QED
      BY <1>0, <2>0, <2>5, <3>1, ReplyStep
  <2>6. CASE ClientReceives(p)
    BY <2>0, <2>6, AnswerStep
  <2> QED
    BY <1>2, <2>1, <2>2, <2>3, <2>4, <2>5, <2>6 DEF TaskStep, Server, Supervise
<1> QED
  BY <1>1, <1>2 DEF SystemNext

(* At the start there is one client and no request.                        *)
LEMMA ServiceInit == SystemInit => ServiceInv /\ ObjectsStay
<1> SUFFICES ASSUME SystemInit PROVE ServiceInv /\ ObjectsStay
  OBVIOUS
<1>1. ObjectsStay
  BY DEF SystemInit, Init, ObjectsStay
<1>2. /\ \A p \in Proc : taken[p] = NoMessage /\ asking[p] = NoMessage
      /\ mail["request"] = NoMessage /\ mail["reply"] = NoMessage
      /\ answered = {}
  BY TaskObjects DEF SystemInit, Init
<1>3. /\ "wait" \in TaskPlaces /\ "poll" \in TaskPlaces
      /\ {"wait", "poll"} \cap (ServerWorks \cup ClientAsks) = {}
  BY DEF TaskPlaces, ServerWorks, ClientAsks
<1>4. \A p \in Proc :
        role[p] = CASE p = Supervisor0 -> "supervisor" [] p = Server0 -> "server"
                    [] p = Receiver0 -> "receiver" [] OTHER -> "none"
  BY DEF SystemInit
<1>5. /\ \A p \in Proc : role[p] \in {"none", "server", "receiver", "supervisor"}
      /\ role[Supervisor0] = "supervisor"
  BY <1>4, TaskObjects DEF Supervisor0, Server0, Receiver0
<1>6. role \in [Proc -> {"none", "server", "receiver", "supervisor"}]
  BY <1>5 DEF SystemInit
<1>7. /\ pc \in [Proc -> TaskPlaces]
      /\ \A p \in Proc : pc[p] \notin ServerWorks /\ pc[p] \notin ClientAsks
  BY <1>3 DEF SystemInit
<1>8. /\ taken \in [Proc -> Message \cup {NoMessage}]
      /\ asking \in [Proc -> Message \cup {NoMessage}]
  BY DEF SystemInit
<1>9. TasksTyped /\ ClientPlace /\ ServerPlace
  BY <1>2, <1>5, <1>6, <1>7, <1>8 DEF TasksTyped, ClientPlace, ServerPlace
<1>10. AnsweredOnce /\ RequestPlaces
  BY <1>2 DEF AnsweredOnce, TakenOnce, RepliedOnce, RequestPlaces, OneServer, RequestAlone,
              ReplyAlone
<1> QED
  BY <1>1, <1>9, <1>10 DEF ServiceInv

(* A response answers a request that was made and not answered before, and *)
(* with no client but the first the request that it waits for, whatever    *)
(* tasks are killed, woken and spawned in the meantime:                    *)
(* runtime_service_request_sync, for any number of processes and for every *)
(* role that the catalog lets the operator spawn.                          *)
THEOREM AnswersFit == SystemSpec => RepliesMatch
<1>1. SystemSpec => [](TypeOK /\ MessageInv)
  BY TasksUseObjects, SyncTypeCorrect, MessagesInductive, PTL
<1>2. TypeOK /\ MessageInv /\ ObjectsStay /\ ServiceInv /\ [SystemNext]_systemVars
        => (ObjectsStay /\ ServiceInv)'
  BY ServiceStep
<1>3. SystemSpec => [](ObjectsStay /\ ServiceInv)
  BY <1>1, <1>2, ServiceInit, PTL DEF SystemSpec
<1>4. TypeOK /\ MessageInv /\ ObjectsStay /\ ServiceInv /\ [SystemNext]_systemVars
        => [\A p \in Proc : asking[p] # NoMessage /\ asking'[p] = NoMessage =>
              /\ reply \in delivered \ answered
              /\ OnlyClient => reply = asking[p]]_systemVars
  BY ServiceStep DEF ReplyFits
<1> QED
  BY <1>1, <1>3, <1>4, PTL DEF SystemSpec, RepliesMatch
=============================================================================
