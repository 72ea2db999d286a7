--------------------------- MODULE SchedulerProofs ---------------------------
(***************************************************************************)
(* Proofs about Scheduler, for every number of slots, every pid width, any *)
(* channels and roles and any bounds.                                      *)
(***************************************************************************)
EXTENDS Scheduler, TLAPS

USE SchedulerAssumption

(* The slot numbers are naturals and g_current_process_index's UINT32_MAX  *)
(* is none of them.                                                        *)
LEMMA SlotFacts ==
  /\ Slot \subseteq Nat
  /\ NoSlot \notin Slot
  /\ \A s \in Slot : s < MaxProcesses
BY DEF Slot, NoSlot

(* process_core_block is always given a well-formed wait record.           *)
LEMMA WaitRecords ==
  /\ NoWait \in Wait
  /\ \A n \in Nat : WaitFor("sleep", 0, 0, n) \in Wait
  /\ \A c \in Channels : WaitFor("channel", 0, c, 0) \in Wait
  /\ WaitFor("manual", 0, 0, 0) \in Wait
  /\ \A t \in Pid \cup {0} : WaitFor("child", t, 0, 0) \in Wait
BY DEF NoWait, WaitFor, Wait, Reasons

(* g_next_pid stays a process_id_t.                                        *)
LEMMA PidAfterType == nextPid \in Pid \cup {0} => PidAfter \in Pid \cup {0}
BY DEF PidAfter, Pid

(* A process created by process_spawn_with_role starts with a natural      *)
(* vruntime.                                                               *)
LEMMA MinVruntimeType == TypeOK => MinVruntime \subseteq Nat
BY DEF TypeOK, MinVruntime, RunnableVruntimes

(* process_core_make_ready keeps the columns it writes in their types.     *)
LEMMA MakeReadyType ==
  ASSUME NEW W, TypeOK, MakeReady(W)
  PROVE  state' \in [Slot -> States] /\ wait' \in [Slot -> Wait]
BY WaitRecords DEF TypeOK, MakeReady, States

(* So do the parts that exit and kill share, and the reset of a slot.      *)
LEMMA TerminateType ==
  ASSUME NEW s, TypeOK, Terminate(s)
  PROVE  state' \in [Slot -> States] /\ wait' \in [Slot -> Wait]
BY WaitRecords DEF TypeOK, Terminate, States

(* scheduler_sync_ready_queue links slots only.                            *)
LEMMA SyncType == Sync => onRq' \in SUBSET Slot
BY DEF Sync, Ready

(* One turn of process_waitpid keeps every type, whatever it waits for.    *)
LEMMA WaitpidType ==
  ASSUME TypeOK, NEW t \in Pid \cup {0}, WaitpidTurn(t),
         UNCHANGED <<current, nextPid, timer, halt>>
  PROVE  TypeOK'
<1> USE DEF table, accounts, timer
<1>1. CASE LeaveWaitpid /\ UNCHANGED <<table, accounts, onRq>>
  BY <1>1 DEF LeaveWaitpid, TypeOK
<1>2. ASSUME NEW s \in Slot, ResetSlot(s), LeaveWaitpid PROVE TypeOK'
  BY <1>2, WaitRecords DEF LeaveWaitpid, ResetSlot, TypeOK, States
<1>3. CASE /\ BlockWith(current, WaitFor("child", t, 0, 0))
           /\ EnterYield("waitpid")
           /\ waitArg' = [waitArg EXCEPT ![current] = t]
           /\ UNCHANGED <<pid, parent, role, accounts>>
  BY <1>3, WaitRecords, SyncType DEF BlockWith, EnterYield, TypeOK, States
<1> QED
  BY <1>1, <1>2, <1>3 DEF WaitpidTurn, Children

(* Every call with which the running process blocks itself keeps them too. *)
LEMMA BlockSelfType ==
  ASSUME TypeOK, NEW w \in Wait, BlockSelf(w)
  PROVE  TypeOK'
BY SyncType DEF BlockSelf, BlockWith, EnterYield, TypeOK, States, accounts, timer

(* And every call that makes a set of processes ready.                     *)
LEMMA WakeAllType ==
  ASSUME TypeOK, NEW W, WakeAll(W)
  PROVE  TypeOK'
BY MakeReadyType, SyncType DEF WakeAll, TypeOK, accounts, timer, stacks

(* And the tick.                                                           *)
LEMMA TickType ==
  ASSUME TypeOK, Tick
  PROVE  /\ state' \in [Slot -> States] /\ wait' \in [Slot -> Wait]
         /\ onRq' \in SUBSET Slot
         /\ ticks' \in Nat /\ pending' \in BOOLEAN
         /\ UNCHANGED <<pid, parent, role>>
<1>1. MakeReady(DueSleepers(ticks + 1)) /\ Sync /\ UNCHANGED <<pid, parent, role>>
  BY DEF Tick
<1>2. state' \in [Slot -> States] /\ wait' \in [Slot -> Wait]
  BY <1>1, MakeReadyType
<1>3. ticks' \in Nat
  <2>1. ticks' = ticks + 1 BY DEF Tick
  <2>2. ticks \in Nat BY DEF TypeOK
  <2> QED BY <2>1, <2>2
<1>4. pending' \in BOOLEAN
  <2>1. pending' = FALSE BY DEF Tick
  <2> QED BY <2>1
<1> QED BY <1>1, <1>2, <1>3, <1>4, SyncType

(* Where a process_yield returns to.                                       *)
LEMMA ReturnType ==
  ASSUME TypeOK, NEW s \in Slot, Return(s)
  PROVE  /\ pc' \in {"task", "waitpid", "halted"}
         /\ halt' \in {"none", "no_runnable", "exit_returned", "no_first_process"}
BY DEF Return, Panic, TypeOK

(* The scheduler starts with its types and keeps them through every step;  *)
(* that the resumed caller of process_waitpid is a slot is OneRunning.     *)
LEMMA TypeStep == TypeOK /\ OneRunning /\ [Next]_vars => TypeOK'
<1> SUFFICES ASSUME TypeOK, OneRunning, [Next]_vars PROVE TypeOK'
  OBVIOUS
<1> USE SlotFacts DEF table, accounts, timer, stacks
<1>1. ASSUME NEW r \in Roles, Spawn(r) PROVE TypeOK'
  <2>1. PidAfter \in Pid \cup {0}
    BY PidAfterType DEF TypeOK
  <2>2. nextPid \in Pid /\ CurrentPid \in Pid \cup {0}
    BY <1>1 DEF Spawn, TypeOK, CurrentPid
  <2> QED
    BY <1>1, <2>1, <2>2, MinVruntimeType, WaitRecords, SyncType
    DEF Spawn, TypeOK, States
<1>2. ASSUME Exit PROVE TypeOK'
  BY <1>2, TerminateType DEF Exit, EnterYield, TypeOK, InTask, Terminate
<1>3. ASSUME NEW s \in Slot, Kill(s) PROVE TypeOK'
  BY <1>3, TerminateType, SyncType DEF Kill, TypeOK, Terminate
<1>4. ASSUME NEW s \in Slot, Reap(s) PROVE TypeOK'
  BY <1>4, WaitRecords DEF Reap, ResetSlot, TypeOK, States
<1>5. ASSUME NEW t \in Pid \cup {0}, CallWaitpid(t) PROVE TypeOK'
  BY <1>5, WaitpidType DEF CallWaitpid
<1>6. ASSUME ResumeWaitpid PROVE TypeOK'
  <2>1. waitArg[current] \in Pid \cup {0}
    BY <1>6 DEF ResumeWaitpid, TypeOK, OneRunning
  <2> QED BY <1>6, <2>1, WaitpidType DEF ResumeWaitpid
<1>7. ASSUME CallYield PROVE TypeOK'
  BY <1>7 DEF CallYield, EnterYield, TypeOK
<1>8. ASSUME NEW n \in 1 .. MaxSleep, Sleep(n) PROVE TypeOK'
  <2>1. WaitFor("sleep", 0, 0, ticks + n) \in Wait
    BY WaitRecords DEF TypeOK
  <2> QED BY <1>8, <2>1, BlockSelfType DEF Sleep
<1>9. ASSUME NEW c \in Channels, WaitChannel(c) PROVE TypeOK'
  BY <1>9, WaitRecords, BlockSelfType DEF WaitChannel
<1>10. ASSUME BlockCurrent PROVE TypeOK'
  BY <1>10, WaitRecords, BlockSelfType DEF BlockCurrent
<1>11. ASSUME NEW s \in Slot, BlockOther(s) PROVE TypeOK'
  BY <1>11, WaitRecords, SyncType DEF BlockOther, BlockWith, TypeOK, States
<1>12. ASSUME NEW s \in Slot, WakeProcess(s) PROVE TypeOK'
  BY <1>12, WakeAllType DEF WakeProcess
<1>13. ASSUME NEW c \in Channels, WakeChannel(c) \/ WakeFirstChannel(c) PROVE TypeOK'
  BY <1>13, WakeAllType DEF WakeChannel, WakeFirstChannel
<1>14. ASSUME PollTimer \/ TickInterrupt PROVE TypeOK'
  BY <1>14, TickType DEF PollTimer, TickInterrupt, TypeOK
<1>15. ASSUME YieldPoll PROVE TypeOK'
  BY <1>15, TickType DEF YieldPoll, TypeOK
<1>16. ASSUME StartFirst PROVE TypeOK'
  <2>1. ASSUME NEW s \in onRq, current' = s,
               state' = [state EXCEPT ![s] = "running"],
               execStart' = [execStart EXCEPT ![s] = ticks],
               Sync, Return(s),
               UNCHANGED <<pid, parent, role, wait, vruntime, nextPid, timer, stacks>>
        PROVE  TypeOK'
    <3>1. s \in Slot BY DEF TypeOK
    <3>2. state' \in [Slot -> States] /\ execStart' \in [Slot -> Nat]
      BY <2>1, <3>1 DEF TypeOK, States
    <3> QED BY <2>1, <3>1, <3>2, ReturnType, SyncType DEF TypeOK
  <2>2. ASSUME Panic("no_first_process"),
               UNCHANGED <<state, execStart, onRq, current>>,
               UNCHANGED <<pid, parent, role, wait, vruntime, nextPid, timer, stacks>>
        PROVE  TypeOK'
    BY <2>2 DEF Panic, TypeOK
  <2> QED BY <1>16, <2>1, <2>2 DEF StartFirst
<1>17. ASSUME PickNone PROVE TypeOK'
  BY <1>17, ReturnType DEF PickNone, Panic, TypeOK
<1>18. ASSUME PickSelf PROVE TypeOK'
  BY <1>18, ReturnType DEF PickSelf, TypeOK, States
<1>19. ASSUME NEW s \in Slot, PickSwitch(s) PROVE TypeOK'
  <2>1. current \in Slot
    BY <1>19 DEF PickSwitch, TypeOK
  <2>2. Charge(current) \in Nat
    BY <2>1 DEF Charge, TypeOK
  <2>3. /\ vruntime' \in [Slot -> Nat]
        /\ execStart' \in [Slot -> Nat]
    BY <1>19, <2>1, <2>2 DEF PickSwitch, Accounted, TypeOK
  <2> QED
    BY <1>19, <2>1, <2>3, ReturnType, SyncType DEF PickSwitch, StateLeft, TypeOK, States
<1>20. ASSUME IdleWake PROVE TypeOK'
  BY <1>20 DEF IdleWake, TypeOK, Ready
<1>21. ASSUME SchedulerRun \/ TimerFires PROVE TypeOK'
  BY <1>21 DEF SchedulerRun, TimerFires, TypeOK
<1>22. CASE UNCHANGED vars
  BY <1>22 DEF vars, TypeOK
<1> QED
  BY <1>1, <1>2, <1>3, <1>4, <1>5, <1>6, <1>7, <1>8, <1>9, <1>10, <1>11, <1>12,
     <1>13, <1>14, <1>15, <1>16, <1>17, <1>18, <1>19, <1>20, <1>21, <1>22
  DEF Next, TaskCall, KernelStep, Halted

(* Only the executing process is RUNNING, and it stays so until it blocks, *)
(* dies or is switched away from.                                          *)
LEMMA OneRunningStep == TypeOK /\ OneRunning /\ [Next]_vars => OneRunning'
<1> SUFFICES ASSUME TypeOK, OneRunning, [Next]_vars PROVE OneRunning'
  OBVIOUS
<1> USE SlotFacts DEF table, accounts, timer, stacks
<1>1. ASSUME NEW r \in Roles, Spawn(r) PROVE OneRunning'
  BY <1>1 DEF Spawn, TypeOK, OneRunning
<1>2. ASSUME Exit PROVE OneRunning'
  BY <1>2 DEF Exit, EnterYield, Terminate, TypeOK, OneRunning
<1>3. ASSUME NEW s \in Slot, Kill(s) PROVE OneRunning'
  BY <1>3 DEF Kill, Terminate, TypeOK, OneRunning, InTask, WaitingParents
<1>4. ASSUME NEW s \in Slot, Reap(s) PROVE OneRunning'
  BY <1>4 DEF Reap, ResetSlot, TypeOK, OneRunning, InTask
<1>5. ASSUME NEW t, WaitpidTurn(t), pc \in {"task", "waitpid"},
             UNCHANGED <<current, nextPid, timer, halt>>
      PROVE  OneRunning'
  <2>1. CASE LeaveWaitpid /\ UNCHANGED <<table, accounts, onRq>>
    BY <1>5, <2>1 DEF LeaveWaitpid, OneRunning
  <2>2. ASSUME NEW s \in Slot, state[s] = "zombie", ResetSlot(s), LeaveWaitpid
        PROVE  OneRunning'
    BY <1>5, <2>2 DEF LeaveWaitpid, ResetSlot, TypeOK, OneRunning
  <2>3. CASE BlockWith(current, WaitFor("child", t, 0, 0)) /\ EnterYield("waitpid")
    BY <1>5, <2>3 DEF BlockWith, EnterYield, TypeOK, OneRunning
  <2> QED BY <1>5, <2>1, <2>2, <2>3 DEF WaitpidTurn, Children
<1>6. ASSUME NEW t \in Pid \cup {0}, CallWaitpid(t) PROVE OneRunning'
  BY <1>6, <1>5 DEF CallWaitpid, InTask
<1>7. ASSUME ResumeWaitpid PROVE OneRunning'
  BY <1>7, <1>5 DEF ResumeWaitpid
<1>8. ASSUME CallYield PROVE OneRunning'
  BY <1>8 DEF CallYield, EnterYield, OneRunning
<1>9. ASSUME NEW w, BlockSelf(w) PROVE OneRunning'
  BY <1>9 DEF BlockSelf, BlockWith, EnterYield, TypeOK, OneRunning
<1>10. ASSUME \/ \E n \in 1 .. MaxSleep : Sleep(n)
              \/ \E c \in Channels : WaitChannel(c)
              \/ BlockCurrent
       PROVE  OneRunning'
  BY <1>10, <1>9 DEF Sleep, WaitChannel, BlockCurrent
<1>11. ASSUME NEW s \in Slot, BlockOther(s) PROVE OneRunning'
  BY <1>11 DEF BlockOther, BlockWith, TypeOK, OneRunning, InTask
<1>12. ASSUME NEW W, MakeReady(W), UNCHANGED <<current>>, pc' \in {pc, "pick"}
       PROVE  OneRunning'
  BY <1>12 DEF MakeReady, TypeOK, OneRunning
<1>13. ASSUME NEW W, WakeAll(W) PROVE OneRunning'
  BY <1>13, <1>12 DEF WakeAll
<1>14. ASSUME \/ \E s \in Slot : WakeProcess(s)
              \/ \E c \in Channels : WakeChannel(c) \/ WakeFirstChannel(c)
       PROVE  OneRunning'
  <2>1. CASE \E s \in Slot : WakeProcess(s)
    BY <2>1, <1>13 DEF WakeProcess
  <2>2. CASE \E c \in Channels : WakeChannel(c)
    BY <2>2, <1>13 DEF WakeChannel
  <2>3. CASE \E c \in Channels : WakeFirstChannel(c)
    BY <2>3, <1>13 DEF WakeFirstChannel
  <2> QED BY <1>14, <2>1, <2>2, <2>3
<1>15. ASSUME PollTimer \/ TickInterrupt PROVE OneRunning'
  BY <1>15, <1>12 DEF PollTimer, TickInterrupt, Tick
<1>16. ASSUME YieldPoll PROVE OneRunning'
  <2>1. CASE Tick BY <1>16, <2>1, <1>12 DEF YieldPoll, Tick
  <2>2. CASE UNCHANGED <<table, onRq, timer>>
    BY <1>16, <2>2 DEF YieldPoll, OneRunning
  <2> QED BY <1>16, <2>1, <2>2 DEF YieldPoll
<1>17. ASSUME StartFirst PROVE OneRunning'
  <2>1. ASSUME NEW s \in onRq, current' = s,
               state' = [state EXCEPT ![s] = "running"]
        PROVE  OneRunning'
    BY <1>17, <2>1 DEF StartFirst, TypeOK, OneRunning
  <2>2. CASE Panic("no_first_process") /\ UNCHANGED <<state, current>>
    BY <1>17, <2>2 DEF Panic, OneRunning
  <2> QED BY <1>17, <2>1, <2>2 DEF StartFirst
<1>18. ASSUME PickNone PROVE OneRunning'
  BY <1>18 DEF PickNone, Return, Panic, TypeOK, OneRunning
<1>19. ASSUME PickSelf PROVE OneRunning'
  BY <1>19 DEF PickSelf, Return, Panic, TypeOK, OneRunning
<1>20. ASSUME NEW s \in Slot, PickSwitch(s) PROVE OneRunning'
  BY <1>20 DEF PickSwitch, StateLeft, TypeOK, OneRunning
<1>21. ASSUME IdleWake \/ SchedulerRun \/ TimerFires PROVE OneRunning'
  BY <1>21 DEF IdleWake, SchedulerRun, TimerFires, OneRunning
<1>22. CASE UNCHANGED vars
  BY <1>22 DEF vars, OneRunning
<1> QED
  BY <1>1, <1>2, <1>3, <1>4, <1>6, <1>7, <1>8, <1>10, <1>11, <1>14, <1>15,
     <1>16, <1>17, <1>18, <1>19, <1>20, <1>21, <1>22
  DEF Next, TaskCall, KernelStep, Halted

(* The state kernel_main starts from has every type, and nothing runs.     *)
LEMMA InitTypes == Init => TypeOK /\ OneRunning
<1> SUFFICES ASSUME Init PROVE TypeOK /\ OneRunning
  OBVIOUS
<1>1. pending \in BOOLEAN
  <2>1. pending = FALSE BY DEF Init
  <2> QED BY <2>1
<1>2. wait \in [Slot -> Wait]
  BY WaitRecords DEF Init
<1>3. TypeOK
  BY <1>1, <1>2 DEF Init, TypeOK, States, Pid
<1>4. OneRunning
  BY DEF Init, OneRunning
<1> QED BY <1>3, <1>4

(* Type correctness of the process table, the run queue, the accounting    *)
(* arrays and the timer, in every reachable state.                         *)
THEOREM TypeCorrect == Spec => []TypeOK
<1>1. Init => TypeOK /\ OneRunning BY InitTypes
<1>2. TypeOK /\ OneRunning /\ [Next]_vars => TypeOK' /\ OneRunning'
  BY TypeStep, OneRunningStep
<1> QED BY <1>1, <1>2, PTL DEF Spec

(* Mutual exclusion of the CPU: the process table never shows two RUNNING  *)
(* processes, and task code runs only as the RUNNING one.                  *)
THEOREM RunsAlone == Spec => []OneRunning
<1>1. Init => TypeOK /\ OneRunning BY InitTypes
<1>2. TypeOK /\ OneRunning /\ [Next]_vars => TypeOK' /\ OneRunning'
  BY TypeStep, OneRunningStep
<1> QED BY <1>1, <1>2, PTL DEF Spec

-----------------------------------------------------------------------------
(***************************************************************************)
(* The ready queue: what it holds, that its keys never move under it, and  *)
(* that the switch takes the right process.  All of it follows from one    *)
(* inductive invariant, QueueInv.                                          *)
(***************************************************************************)

(* The caller of process_yield may be linked although it is not READY: it  *)
(* was resumed without a sync (RUNNING), or process_exit unlinked nothing  *)
(* (ZOMBIE).  In both cases it still is the least of the queue.            *)
CallerLinked ==
  \/ state[current] = "ready"
  \/ /\ pc # "idle"
     /\ IsLeftmost(current)
     /\ \/ state[current] = "running"
        \/ state[current] = "zombie" /\ cont[current] = "exit"

(* The queue is complete unless a process_exit is under way.               *)
ExitUnderWay ==
  /\ pc \notin {"boot", "task", "waitpid"}
  /\ current # NoSlot
  /\ cont[current] = "exit"

QueueInv ==
  /\ onRq \ {current} \subseteq Ready(state)
  /\ current \in onRq => CallerLinked
  /\ ~ExitUnderWay => Ready(state) \subseteq onRq

Safe == TypeOK /\ OneRunning

(* After scheduler_sync_ready_queue the invariant holds outright.          *)
LEMMA SyncEstablishes ==
  ASSUME TypeOK', Sync PROVE QueueInv'
BY DEF Sync, Ready, QueueInv, CallerLinked, TypeOK

(* Freeing a dead process's slot disturbs neither the rest of the queue    *)
(* nor the keys of what stays linked.                                      *)
LEMMA ResetKeeps ==
  ASSUME Safe, QueueInv, TypeOK', NEW s \in Slot, state[s] = "zombie", ResetSlot(s),
         pc \in {"task", "waitpid"}, UNCHANGED current, pc' = "task"
  PROVE  QueueInv'
<1> USE SlotFacts
<1>1. current \in Slot /\ state[current] = "running" /\ s # current
  BY DEF Safe, OneRunning
<1>2. state'[current] = "running" /\ Ready(state') = Ready(state)
  BY <1>1 DEF ResetSlot, Ready, Safe, TypeOK
<1>3. onRq' \ {current} \subseteq Ready(state')
  BY <1>2 DEF ResetSlot, QueueInv
<1>4. ASSUME current \in onRq PROVE IsLeftmost(current)'
  <2>1. IsLeftmost(current)
    BY <1>1, <1>4 DEF QueueInv, CallerLinked
  <2>2. \A r \in onRq' : Before(current, r) => Before(current, r)'
    BY <1>1 DEF Before, ResetSlot, Safe, TypeOK
  <2> QED BY <1>1, <1>4, <2>1, <2>2 DEF IsLeftmost, ResetSlot
<1>5. Ready(state') \subseteq onRq'
  BY <1>2 DEF ResetSlot, QueueInv, ExitUnderWay, Ready
<1> QED BY <1>1, <1>2, <1>3, <1>4, <1>5 DEF QueueInv, CallerLinked, ResetSlot

(* When the queue, the keys and the caller stay as they are, it is enough  *)
(* to look at the states.                                                  *)
LEMMA LeftmostFrame ==
  ASSUME UNCHANGED <<onRq, vruntime, pid, current>>
  PROVE  IsLeftmost(current)' <=> IsLeftmost(current)
BY DEF IsLeftmost, Before

(* Every step of the scheduler, whichever process takes it, keeps the     *)
(* queue invariant.                                                        *)
LEMMA QueueStep == Safe /\ TypeOK' /\ QueueInv /\ [Next]_vars => QueueInv'
<1> SUFFICES ASSUME Safe, TypeOK', QueueInv, [Next]_vars PROVE QueueInv'
  OBVIOUS
<1> USE SlotFacts DEF table, accounts, timer, stacks
<1>1. ASSUME Sync PROVE QueueInv'
  BY <1>1, SyncEstablishes
<1>2. ASSUME UNCHANGED <<onRq, state, vruntime, pid, current, cont>>,
             pc' = pc \/ pc' \in {"pick", "halted"} \/ (onRq = {} /\ pc' = "idle"),
             pc \notin {"task", "waitpid"} \/ pc' = pc,
             pc = "boot" => current = NoSlot \/ pc' = pc
      PROVE  QueueInv'
  BY <1>2, LeftmostFrame DEF QueueInv, CallerLinked, ExitUnderWay
<1>3. ASSUME Exit PROVE QueueInv'
  <2>1. current \in Slot /\ state[current] = "running"
    BY <1>3 DEF Exit, InTask, Safe, OneRunning
  <2>2. state'[current] = "zombie" /\ cont'[current] = "exit" /\ pc' = "yield"
    BY <1>3, <2>1 DEF Exit, Terminate, EnterYield, Safe, TypeOK
  <2>3. Ready(state) \subseteq Ready(state')
    BY <1>3, <2>1 DEF Exit, Terminate, WaitingParents, Ready, Safe, TypeOK
  <2>4. current \in onRq => IsLeftmost(current)
    BY <2>1 DEF QueueInv, CallerLinked
  <2>5. UNCHANGED <<onRq, vruntime, pid, current>>
    BY <1>3 DEF Exit, Terminate
  <2> QED
    BY <2>1, <2>2, <2>3, <2>4, <2>5, LeftmostFrame
    DEF QueueInv, CallerLinked, ExitUnderWay
<1>4. ASSUME NEW s \in Slot, Reap(s) PROVE QueueInv'
  BY <1>4, ResetKeeps DEF Reap, InTask
<1>5. ASSUME NEW t, WaitpidTurn(t), pc \in {"task", "waitpid"}, UNCHANGED current
      PROVE  QueueInv'
  <2>1. CASE LeaveWaitpid /\ UNCHANGED <<table, accounts, onRq>>
    <3>1. current \in Slot /\ state[current] = "running"
      BY <1>5 DEF Safe, OneRunning
    <3> QED BY <1>5, <2>1, <3>1, LeftmostFrame
      DEF LeaveWaitpid, QueueInv, CallerLinked, ExitUnderWay
  <2>2. ASSUME NEW s \in Slot, state[s] = "zombie", ResetSlot(s), LeaveWaitpid
        PROVE  QueueInv'
    BY <1>5, <2>2, ResetKeeps DEF LeaveWaitpid
  <2>3. CASE BlockWith(current, WaitFor("child", t, 0, 0))
    BY <2>3, <1>1 DEF BlockWith
  <2> QED BY <1>5, <2>1, <2>2, <2>3 DEF WaitpidTurn, Children
<1>6. ASSUME CallYield PROVE QueueInv'
  <2>1. current \in Slot /\ state[current] = "running"
    BY <1>6 DEF CallYield, InTask, Safe, OneRunning
  <2>2. cont'[current] = "task" /\ pc' = "yield"
    BY <1>6, <2>1 DEF CallYield, EnterYield, Safe, TypeOK
  <2> QED BY <1>6, <2>1, <2>2, LeftmostFrame
    DEF CallYield, InTask, QueueInv, CallerLinked, ExitUnderWay
<1>7. ASSUME YieldPoll PROVE QueueInv'
  BY <1>7, <1>1, <1>2 DEF YieldPoll, Tick
<1>8. ASSUME StartFirst PROVE QueueInv'
  BY <1>8, <1>1, <1>2 DEF StartFirst, Panic
<1>9. ASSUME PickNone PROVE QueueInv'
  <2>1. CASE Return(current) /\ state[current] = "running"
    BY <1>9, <2>1 DEF PickNone, Return, Panic, QueueInv, ExitUnderWay
  <2>2. CASE pc' = "idle" \/ Panic("no_runnable")
    BY <1>9, <2>2, <1>2 DEF PickNone, Panic
  <2> QED BY <1>9, <2>1, <2>2 DEF PickNone
<1>10. ASSUME PickSelf PROVE QueueInv'
  <2>1. current \in Slot
    BY <1>10 DEF PickSelf, Safe, TypeOK
  <2>2. state'[current] = "running" /\ Ready(state') = Ready(state) \ {current}
    BY <1>10, <2>1 DEF PickSelf, Ready, Safe, TypeOK
  <2>3. IsLeftmost(current)'
    BY <1>10, LeftmostFrame DEF PickSelf
  <2>4. pc' # "idle" /\ (ExitUnderWay => ExitUnderWay')
    BY <1>10, <2>1 DEF PickSelf, Return, Panic, Safe, TypeOK, ExitUnderWay
  <2> QED BY <1>10, <2>1, <2>2, <2>3, <2>4 DEF PickSelf, QueueInv, CallerLinked
<1>11. ASSUME IdleWake PROVE QueueInv'
  BY <1>11, <1>1 DEF IdleWake, Sync
<1>12. ASSUME SchedulerRun PROVE QueueInv'
  BY <1>12, LeftmostFrame DEF SchedulerRun, QueueInv, CallerLinked, ExitUnderWay
<1>13. CASE TimerFires \/ UNCHANGED vars
  BY <1>13, <1>2 DEF TimerFires, vars
<1>14. ASSUME NEW r \in Roles, Spawn(r) PROVE QueueInv'
  BY <1>14, <1>1 DEF Spawn
<1>15. ASSUME \/ \E s \in Slot : Kill(s) \/ BlockOther(s) \/ WakeProcess(s) \/ PickSwitch(s)
              \/ \E n \in 1 .. MaxSleep : Sleep(n)
              \/ \E c \in Channels : WaitChannel(c) \/ WakeChannel(c) \/ WakeFirstChannel(c)
              \/ BlockCurrent \/ PollTimer \/ TickInterrupt
       PROVE  QueueInv'
  BY <1>15, <1>1 DEF Kill, BlockOther, WakeProcess, PickSwitch, Sleep, WaitChannel,
     WakeChannel, WakeFirstChannel, BlockCurrent, PollTimer, TickInterrupt,
     WakeAll, BlockSelf, BlockWith, Tick
<1>16. ASSUME NEW t \in Pid \cup {0}, CallWaitpid(t) PROVE QueueInv'
  BY <1>16, <1>5 DEF CallWaitpid, InTask
<1>17. ASSUME ResumeWaitpid PROVE QueueInv'
  BY <1>17, <1>5 DEF ResumeWaitpid
<1> QED
  BY <1>3, <1>4, <1>6, <1>7, <1>8, <1>9, <1>10, <1>11, <1>12, <1>13, <1>14,
     <1>15, <1>16, <1>17
  DEF Next, TaskCall, KernelStep, Halted

(* The three invariants together are inductive.                            *)
LEMMA QueueInductive ==
  /\ Init => Safe /\ QueueInv
  /\ Safe /\ QueueInv /\ [Next]_vars => Safe' /\ QueueInv'
<1>1. Init => QueueInv
  BY SlotFacts DEF Init, QueueInv, Ready
<1> QED BY <1>1, InitTypes, TypeStep, OneRunningStep, QueueStep DEF Safe

(* The ready queue holds exactly the READY processes whenever a task runs, *)
(* but for a caller that process_yield resumed without a sync, and that    *)
(* one is the leftmost.                                                    *)
THEOREM QueueIsTable == Spec => []QueueMatchesTable
<1>1. Safe /\ QueueInv => QueueMatchesTable
  BY DEF Safe, OneRunning, QueueInv, CallerLinked, ExitUnderWay, QueueMatchesTable, Ready
<1> QED BY <1>1, QueueInductive, PTL DEF Spec

(* Nothing that is free, blocked or dead is ever on the queue, except the  *)
(* caller of process_exit.                                                 *)
THEOREM QueueIsRunnable == Spec => []QueueHoldsRunnable
<1>1. Safe /\ QueueInv => QueueHoldsRunnable
  BY DEF QueueInv, CallerLinked, QueueHoldsRunnable, Ready
<1> QED BY <1>1, QueueInductive, PTL DEF Spec

(* No reachable step changes the key of a linked tree node.  The hard case *)
(* is the switch away from a caller that is still linked: being leftmost   *)
(* itself, it is never the one that is switched away from.                 *)
THEOREM KeysNeverMove == Spec => KeysStable
<1> DEFINE Keep == \A s \in onRq \cap onRq' :
                     vruntime'[s] = vruntime[s] /\ pid'[s] = pid[s]
<1>1. ASSUME Safe, QueueInv, [Next]_vars PROVE Keep
  <2> USE SlotFacts DEF table, accounts, timer, stacks
  <2>1. ASSUME UNCHANGED <<vruntime, pid>> PROVE Keep
    BY <2>1
  <2>2. ASSUME NEW s \in Slot, ResetSlot(s) PROVE Keep
    BY <1>1, <2>2 DEF ResetSlot, Safe, TypeOK
  <2>3. ASSUME NEW r \in Roles, Spawn(r) PROVE Keep
    BY <1>1, <2>3 DEF Spawn, Ready, QueueInv, CallerLinked, Safe, TypeOK
  <2>4. ASSUME NEW s \in Slot, PickSwitch(s) PROVE Keep
    <3>1. current \in Slot /\ UNCHANGED pid
      BY <1>1, <2>4 DEF PickSwitch, Safe, TypeOK
    <3>2. ~(Before(s, current) /\ Before(current, s))
      <4>1. /\ vruntime[s] \in Nat /\ vruntime[current] \in Nat
            /\ pid[s] \in Nat /\ pid[current] \in Nat
            /\ s \in Nat /\ current \in Nat /\ s # current
        BY <1>1, <3>1, <2>4 DEF PickSwitch, Safe, TypeOK, Pid
      <4> QED BY <4>1 DEF Before
    <3>3. ~(current \in onRq /\ state[current] = "running")
      BY <1>1, <2>4, <3>2 DEF PickSwitch, IsLeftmost, QueueInv, CallerLinked
    <3> QED BY <1>1, <2>4, <3>1, <3>3 DEF PickSwitch, Accounted, Safe, TypeOK
  <2>5. ASSUME NEW t, WaitpidTurn(t) PROVE Keep
    BY <2>5, <2>1, <2>2 DEF WaitpidTurn, Children
  <2> QED
    BY <1>1, <2>1, <2>2, <2>3, <2>4, <2>5
    DEF Next, TaskCall, KernelStep, Halted, vars, Exit, Terminate, Kill, Reap,
        CallWaitpid, ResumeWaitpid, CallYield, Sleep, WaitChannel, BlockCurrent,
        BlockSelf, BlockOther, WakeProcess, WakeChannel, WakeFirstChannel, WakeAll,
        PollTimer, TickInterrupt, Tick, TimerFires, SchedulerRun, YieldPoll,
        StartFirst, PickNone, PickSelf, IdleWake
<1>2. Safe /\ QueueInv /\ [Next]_vars => [Keep]_vars
  BY <1>1
<1> QED BY <1>2, QueueInductive, PTL DEF Spec, KeysStable

(* The CPU passes only to the READY process with the least (vruntime,      *)
(* pid), the wake-up that a process_exit leaves unsynced aside.            *)
THEOREM SwitchIsFair == Spec => SwitchTakesLeast
<1> DEFINE Least == current' # current /\ current \in Slot =>
                      /\ state[current'] = "ready"
                      /\ \A r \in Ready(state) :
                           r = current' \/ Before(current', r) \/ cont[current] = "exit"
<1>1. ASSUME Safe, QueueInv, [Next]_vars PROVE Least
  <2> USE SlotFacts DEF table, accounts, timer, stacks
  <2>1. ASSUME UNCHANGED current PROVE Least
    BY <2>1
  <2>2. ASSUME NEW s \in Slot, PickSwitch(s) PROVE Least
    <3>1. current' = s /\ s # current /\ IsLeftmost(s) /\ pc = "pick" /\ current # NoSlot
      BY <2>2 DEF PickSwitch
    <3>2. state[s] = "ready"
      BY <1>1, <3>1 DEF IsLeftmost, QueueInv, Ready
    <3>3. cont[current] # "exit" => Ready(state) \subseteq onRq
      BY <1>1, <3>1 DEF QueueInv, ExitUnderWay
    <3> QED BY <3>1, <3>2, <3>3 DEF IsLeftmost
  <2>3. ASSUME StartFirst PROVE Least
    BY <2>3 DEF StartFirst
  <2> QED
    BY <1>1, <2>1, <2>2, <2>3
    DEF Next, TaskCall, KernelStep, Halted, vars, Spawn, Exit, Kill, Reap,
        CallWaitpid, ResumeWaitpid, CallYield, Sleep, WaitChannel, BlockCurrent,
        BlockSelf, BlockOther, WakeProcess, WakeChannel, WakeFirstChannel, WakeAll,
        PollTimer, TickInterrupt, TimerFires, SchedulerRun, YieldPoll, PickNone,
        PickSelf, IdleWake
<1>2. Safe /\ QueueInv /\ [Next]_vars => [Least]_vars
  BY <1>1
<1> QED BY <1>2, QueueInductive, PTL DEF Spec, SwitchTakesLeast

-----------------------------------------------------------------------------
(***************************************************************************)
(* The life of a process: its pid, its parent's wait, its sleep, its role  *)
(* and its death.  Every step rests on Safe and QueueInv, which say that   *)
(* process_yield only ever resumes a process that can run.                 *)
(***************************************************************************)

Base == Safe /\ QueueInv

(* What is on the queue is in use, and what the switch takes is READY.     *)
LEMMA Linked ==
  ASSUME Base
  PROVE  /\ \A s \in onRq : state[s] \notin {"unused", "blocked"}
         /\ \A s \in onRq : s # current => state[s] = "ready"
         /\ \A s \in onRq : state[s] = "zombie" => s = current /\ cont[s] = "exit"
BY DEF Base, QueueInv, CallerLinked, Ready

(* A step of process_yield resumes a process from the queue and leaves the *)
(* rest of the table as it is, the caller becoming READY at most.          *)
Resumes ==
  /\ UNCHANGED <<pid, parent, role, wait, nextPid, ticks>>
  /\ \/ UNCHANGED state
     \/ \E s \in onRq :
          /\ state' \in [Slot -> States]
          /\ state'[s] = "running"
          /\ s = current /\ cont[s] = "exit" => pc' = "halted"
          /\ \A r \in Slot : \/ r = s
                             \/ state'[r] = state[r]
                             \/ r = current /\ state[r] = "running" /\ state'[r] = "ready"

(* Every step in and around process_yield is of that kind.                 *)
LEMMA YieldResumes ==
  ASSUME Base, \/ StartFirst \/ PickNone \/ PickSelf \/ IdleWake \/ SchedulerRun
               \/ CallYield \/ TimerFires \/ UNCHANGED vars
               \/ \E s \in Slot : PickSwitch(s)
  PROVE  Resumes
<1> USE SlotFacts DEF Base, Safe, table, accounts, timer, stacks
<1>1. ASSUME StartFirst PROVE Resumes
  <2>1. ASSUME NEW s \in onRq, state' = [state EXCEPT ![s] = "running"] PROVE Resumes
    BY <1>1, <2>1 DEF StartFirst, Resumes, TypeOK, States
  <2> QED BY <1>1, <2>1 DEF StartFirst, Resumes
<1>2. ASSUME PickSelf PROVE Resumes
  BY <1>2 DEF PickSelf, IsLeftmost, Return, Panic, Resumes, TypeOK, States
<1>3. ASSUME NEW s \in Slot, PickSwitch(s) PROVE Resumes
  <2>1. /\ s \in onRq /\ s # current /\ current \in Slot
        /\ state' = [state EXCEPT ![current] = StateLeft, ![s] = "running"]
        /\ UNCHANGED <<pid, parent, role, wait, nextPid, ticks>>
    BY <1>3 DEF PickSwitch, IsLeftmost, TypeOK
  <2>2. StateLeft \in States
    BY <2>1 DEF StateLeft, TypeOK, States
  <2>3. /\ state' \in [Slot -> States] /\ state'[s] = "running"
        /\ \A r \in Slot : r # s /\ r # current => state'[r] = state[r]
        /\ state'[current] = StateLeft
    BY <2>1, <2>2 DEF TypeOK, States
  <2> QED BY <2>1, <2>3 DEF Resumes, StateLeft
<1>4. ASSUME PickNone \/ IdleWake \/ SchedulerRun \/ CallYield \/ TimerFires \/ UNCHANGED vars
      PROVE  Resumes
  BY <1>4 DEF PickNone, IdleWake, SchedulerRun, CallYield, TimerFires, vars, Resumes
<1> QED BY <1>1, <1>2, <1>3, <1>4

(* The remaining steps of the scheduler, by what they do to the table: a   *)
(* process blocks, some are woken, one dies, one is freed, one is created. *)
Blocks ==
  \E s \in Slot, w \in Wait :
    /\ state[s] \in {"ready", "running"}
    /\ state' = [state EXCEPT ![s] = "blocked"]
    /\ wait' = [wait EXCEPT ![s] = w]
    /\ w.reason = "sleep" => w.tick > ticks
    /\ w.reason = "child" =>
         \E r \in Children(pid[s], w.target) : state[r] # "zombie"
    /\ UNCHANGED <<pid, parent, role, nextPid, ticks>>

Wakes ==
  /\ UNCHANGED <<pid, parent, role, nextPid>>
  /\ ticks' \in Nat
  /\ \E W : MakeReady(W) /\ (ticks' = ticks \/ W = DueSleepers(ticks'))

Dies ==
  \E s \in Slot : /\ state[s] \notin {"unused", "zombie"}
                  /\ Terminate(s) /\ UNCHANGED <<nextPid, ticks>>

Frees ==
  \E s \in Slot : /\ state[s] = "zombie"
                  /\ s # current
                  /\ ResetSlot(s) /\ UNCHANGED <<nextPid, ticks>>

Creates == \E r \in Roles : Spawn(r)

(* A turn of process_waitpid frees a child, blocks, or changes no row.     *)
LEMMA WaitpidKinds ==
  ASSUME Base, NEW t \in Pid \cup {0}, WaitpidTurn(t), pc \in {"task", "waitpid"},
         UNCHANGED <<current, nextPid, timer, halt>>
  PROVE  Resumes \/ Blocks \/ Frees
<1> USE SlotFacts DEF Base, Safe, table, accounts, timer, stacks
<1>1. current \in Slot /\ state[current] = "running"
  BY DEF OneRunning
<1>2. CASE UNCHANGED <<table, accounts, onRq>>
  BY <1>2 DEF Resumes
<1>3. ASSUME NEW s \in Slot, state[s] = "zombie", ResetSlot(s) PROVE Frees
  BY <1>1, <1>3 DEF Frees
<1>4. CASE /\ \E r \in Children(pid[current], t) : state[r] # "zombie"
           /\ BlockWith(current, WaitFor("child", t, 0, 0))
           /\ UNCHANGED <<pid, parent, role>>
  <2> DEFINE w == WaitFor("child", t, 0, 0)
  <2>1. w \in Wait /\ w.reason = "child" /\ w.target = t
    BY WaitRecords DEF WaitFor
  <2> QED BY <1>1, <1>4, <2>1 DEF BlockWith, Blocks
<1> QED BY <1>2, <1>3, <1>4 DEF WaitpidTurn, Children

(* Every step is of one of these kinds.                                    *)
LEMMA StepKinds ==
  ASSUME Base, [Next]_vars
  PROVE  Resumes \/ Blocks \/ Wakes \/ Dies \/ Frees \/ Creates
<1> USE SlotFacts DEF table, accounts, timer, stacks
<1>1. ASSUME Exit PROVE Dies
  BY <1>1 DEF Exit, InTask, Base, Safe, OneRunning, Dies
<1>2. ASSUME NEW s \in Slot, Kill(s) PROVE Dies
  BY <1>2 DEF Kill, Dies
<1>3. ASSUME NEW s \in Slot, Reap(s) PROVE Frees
  BY <1>3 DEF Reap, InTask, Base, Safe, OneRunning, Frees
<1>4. ASSUME NEW t \in Pid \cup {0}, CallWaitpid(t) PROVE Resumes \/ Blocks \/ Frees
  BY <1>4, WaitpidKinds DEF CallWaitpid, InTask
<1>5. ASSUME ResumeWaitpid PROVE Resumes \/ Blocks \/ Frees
  <2>1. waitArg[current] \in Pid \cup {0}
    BY <1>5 DEF ResumeWaitpid, Base, Safe, TypeOK, OneRunning
  <2> QED BY <1>5, <2>1, WaitpidKinds DEF ResumeWaitpid
<1>6. ASSUME NEW w \in Wait, BlockSelf(w), w.reason # "child",
             w.reason = "sleep" => w.tick > ticks
      PROVE  Blocks
  BY <1>6 DEF BlockSelf, BlockWith, InTask, Base, Safe, OneRunning, Blocks
<1>7. ASSUME NEW n \in 1 .. MaxSleep, Sleep(n) PROVE Blocks
  <2> DEFINE w == WaitFor("sleep", 0, 0, ticks + n)
  <2>1. ticks \in Nat BY DEF Base, Safe, TypeOK
  <2>2. w \in Wait BY <2>1, WaitRecords
  <2>3. w.reason = "sleep" /\ w.tick > ticks BY <2>1 DEF WaitFor
  <2> QED BY <1>7, <1>6, <2>2, <2>3 DEF Sleep
<1>8. ASSUME NEW c \in Channels, WaitChannel(c) PROVE Blocks
  BY <1>8, <1>6, WaitRecords DEF WaitChannel, WaitFor
<1>9. ASSUME BlockCurrent PROVE Blocks
  BY <1>9, <1>6, WaitRecords DEF BlockCurrent, WaitFor
<1>10. ASSUME NEW s \in Slot, BlockOther(s) PROVE Blocks
  <2> DEFINE w == WaitFor("manual", 0, 0, 0)
  <2>1. w \in Wait /\ w.reason = "manual" BY WaitRecords DEF WaitFor
  <2> QED BY <1>10, <2>1 DEF BlockOther, BlockWith, Blocks
<1>11. ASSUME NEW W, WakeAll(W) PROVE Wakes
  BY <1>11 DEF WakeAll, Wakes, Base, Safe, TypeOK
<1>12. ASSUME NEW s \in Slot, WakeProcess(s) PROVE Wakes
  BY <1>12, <1>11 DEF WakeProcess
<1>13. ASSUME NEW c \in Channels, WakeChannel(c) \/ WakeFirstChannel(c) PROVE Wakes
  <2>1. CASE WakeChannel(c) BY <2>1, <1>11 DEF WakeChannel
  <2>2. CASE WakeFirstChannel(c) BY <2>2, <1>11 DEF WakeFirstChannel
  <2> QED BY <1>13, <2>1, <2>2
<1>14. ASSUME Tick, UNCHANGED nextPid PROVE Wakes
  <2>1. ticks' = ticks + 1 /\ ticks' \in Nat BY <1>14 DEF Tick, Base, Safe, TypeOK
  <2> QED BY <1>14, <2>1 DEF Tick, Wakes
<1>15. ASSUME PollTimer \/ TickInterrupt PROVE Wakes
  BY <1>15, <1>14 DEF PollTimer, TickInterrupt
<1>16. ASSUME YieldPoll PROVE Wakes \/ Resumes
  BY <1>16, <1>14 DEF YieldPoll, Resumes
<1> QED
  BY <1>1, <1>2, <1>3, <1>4, <1>5, <1>7, <1>8, <1>9, <1>10, <1>12, <1>13, <1>15,
     <1>16, YieldResumes
  DEF Next, TaskCall, KernelStep, Halted, Creates

(* Slot r keeps its row of the process table.                              *)
RowKept(r) ==
  /\ state'[r] = state[r] /\ pid'[r] = pid[r] /\ parent'[r] = parent[r]
  /\ role'[r] = role[r] /\ wait'[r] = wait[r]

(* The same kinds of step, row by row.  A call that blocks a process keeps *)
(* all rows but that process's.                                            *)
LEMMA BlocksRows ==
  ASSUME Base, Blocks
  PROVE  /\ UNCHANGED <<pid, parent, role, nextPid, ticks>>
         /\ \E s \in Slot :
              /\ \A r \in Slot : r # s => RowKept(r)
              /\ state[s] \in {"ready", "running"} /\ state'[s] = "blocked"
              /\ wait'[s].reason = "sleep" => wait'[s].tick > ticks
              /\ wait'[s].reason = "child" =>
                   \E q \in Children(pid[s], wait'[s].target) : state[q] # "zombie"
BY DEF Base, Safe, TypeOK, Blocks, RowKept

(* So does the reset of a slot, which takes the dead process's pid.        *)
LEMMA FreesRows ==
  ASSUME Base, Frees
  PROVE  /\ UNCHANGED <<nextPid, ticks>>
         /\ \E s \in Slot : /\ \A r \in Slot : r # s => RowKept(r)
                            /\ s # current /\ s \notin onRq'
                            /\ state[s] = "zombie" /\ state'[s] = "unused" /\ pid'[s] = 0
BY DEF Base, Safe, TypeOK, Frees, ResetSlot, RowKept

(* A death wakes exactly the processes that wait for it.                   *)
LEMMA DiesRows ==
  ASSUME Base, Dies
  PROVE  /\ UNCHANGED <<pid, parent, role, nextPid, ticks>>
         /\ \E s \in Slot :
              /\ state[s] \notin {"unused", "zombie"} /\ state'[s] = "zombie"
              /\ \A r \in Slot :
                   \/ r = s
                   \/ RowKept(r) /\ r \notin WaitingParents(pid[s])
                   \/ state[r] = "blocked" /\ state'[r] = "ready"
<1>1. PICK s \in Slot : /\ state[s] \notin {"unused", "zombie"}
                        /\ Terminate(s) /\ UNCHANGED <<nextPid, ticks>>
  BY DEF Dies
<1>2. ASSUME NEW r \in Slot, r # s
      PROVE  \/ RowKept(r) /\ r \notin WaitingParents(pid[s])
             \/ state[r] = "blocked" /\ state'[r] = "ready"
  <2>1. CASE r \in WaitingParents(pid[s])
    <3>1. state[r] = "blocked" BY <2>1 DEF WaitingParents
    <3> QED BY <1>1, <1>2, <2>1, <3>1 DEF Terminate
  <2>2. CASE r \notin WaitingParents(pid[s])
    BY <1>1, <1>2, <2>2 DEF Terminate, RowKept
  <2> QED BY <2>1, <2>2
<1> QED BY <1>1, <1>2 DEF Terminate

(* A spawn fills one free row, with the next pid and an admitted role.     *)
LEMMA CreatesRows ==
  ASSUME Base, Creates
  PROVE  /\ nextPid # 0 /\ nextPid' = PidAfter /\ UNCHANGED <<current, ticks>>
         /\ \E s \in Slot : /\ \A r \in Slot : r # s => RowKept(r)
                            /\ state[s] = "unused" /\ state'[s] = "ready"
                            /\ pid'[s] = nextPid
                            /\ CanSpawn(role'[s])
         /\ pc \in {"boot", "task"} /\ onRq' = Ready(state')
<1>1. PICK q \in Roles : Spawn(q) BY DEF Creates
<1>2. PICK s \in Slot : /\ state[s] = "unused"
                        /\ state' = [state EXCEPT ![s] = "ready"]
                        /\ pid' = [pid EXCEPT ![s] = nextPid]
                        /\ parent' = [parent EXCEPT ![s] = CurrentPid]
                        /\ role' = [role EXCEPT ![s] = q]
                        /\ wait' = [wait EXCEPT ![s] = NoWait]
                        /\ Sync
  BY <1>1 DEF Spawn
<1>3. /\ nextPid # 0 /\ nextPid' = PidAfter /\ UNCHANGED <<current, ticks>>
      /\ CanSpawn(q) /\ pc \in {"boot", "task"}
  BY <1>1 DEF Spawn, timer
<1>4. /\ \A r \in Slot : r # s => RowKept(r)
      /\ state'[s] = "ready" /\ pid'[s] = nextPid /\ role'[s] = q
  BY <1>2 DEF Base, Safe, TypeOK, RowKept
<1> QED BY <1>2, <1>3, <1>4 DEF Sync

(* A wake-up only makes blocked processes READY, and a tick all that are   *)
(* due.                                                                    *)
LEMMA WakesRows ==
  ASSUME Base, Wakes
  PROVE  /\ UNCHANGED <<pid, parent, role, nextPid>> /\ ticks' \in Nat
         /\ \/ ticks' = ticks
            \/ \A r \in DueSleepers(ticks') : state'[r] = "ready"
         /\ \A r \in Slot : \/ RowKept(r)
                            \/ state[r] = "blocked" /\ state'[r] = "ready"
<1>1. PICK W : MakeReady(W) /\ (ticks' = ticks \/ W = DueSleepers(ticks'))
  BY DEF Wakes
<1>2. UNCHANGED <<pid, parent, role, nextPid>> /\ ticks' \in Nat
  BY DEF Wakes
<1>3. \A r \in Slot : \/ RowKept(r)
                      \/ state[r] = "blocked" /\ state'[r] = "ready"
  <2> TAKE r \in Slot
  <2>1. CASE r \in W /\ state[r] = "blocked"
    BY <1>1, <2>1 DEF MakeReady
  <2>2. CASE ~(r \in W /\ state[r] = "blocked")
    <3>1. state'[r] = state[r] /\ wait'[r] = wait[r]
      BY <1>1, <2>2 DEF MakeReady
    <3> QED BY <1>2, <3>1 DEF RowKept
  <2> QED BY <2>1, <2>2
<1>4. ASSUME W = DueSleepers(ticks'), NEW r \in DueSleepers(ticks')
      PROVE  state'[r] = "ready"
  BY <1>1, <1>4 DEF MakeReady, DueSleepers, Sleepers
<1> QED BY <1>1, <1>2, <1>3, <1>4

(* Pids stay unique: a new one is above every pid handed out so far.       *)
LEMMA PidsStep ==
  ASSUME Base, PidsUnique, [Next]_vars PROVE PidsUnique'
<1> USE DEF PidsUnique, RowKept
<1>1. ASSUME Resumes PROVE PidsUnique'
  BY <1>1, Linked DEF Resumes, Base, Safe, TypeOK
<1>2. ASSUME Blocks PROVE PidsUnique'
  BY <1>2, BlocksRows
<1>3. ASSUME Wakes PROVE PidsUnique'
  BY <1>3, WakesRows
<1>4. ASSUME Dies PROVE PidsUnique'
  BY <1>4, DiesRows
<1>5. ASSUME Frees PROVE PidsUnique'
  BY <1>5, FreesRows DEF Pid, Base, Safe, TypeOK
<1>6. ASSUME Creates PROVE PidsUnique'
  <2>1. PICK s \in Slot : /\ \A r \in Slot : r # s => RowKept(r)
                          /\ state'[s] = "ready" /\ pid'[s] = nextPid
    BY <1>6, CreatesRows
  <2>2. nextPid \in Pid /\ nextPid' = PidAfter
    BY <1>6, CreatesRows DEF Base, Safe, TypeOK
  <2>3. nextPid' = 0 \/ nextPid' = nextPid + 1
    BY <2>2, SchedulerAssumption DEF PidAfter, Pid
  <2>4. \A r \in Slot : pid[r] < nextPid /\ pid[r] # nextPid
    BY <2>2 DEF Pid, Base, Safe, TypeOK
  <2>5. \A r \in Slot : nextPid' # 0 => pid'[r] < nextPid'
    BY <2>1, <2>2, <2>3, <2>4 DEF Pid, Base, Safe, TypeOK
  <2>6. \A r \in Slot : state'[r] # "unused" => pid'[r] \in Pid
    BY <2>1, <2>2
  <2>7. \A q, r \in Slot : pid'[q] # 0 /\ pid'[q] = pid'[r] => q = r
    BY <2>1, <2>4
  <2> QED BY <2>5, <2>6, <2>7
<1> QED BY <1>1, <1>2, <1>3, <1>4, <1>5, <1>6, StepKinds

(* A parent blocked in process_waitpid keeps a live child: the death of a  *)
(* child it waits for wakes it in the same step.                           *)
LEMMA WaitersStep ==
  ASSUME Base, WaitersHaveLiveChild, [Next]_vars PROVE WaitersHaveLiveChild'
<1> USE DEF WaitersHaveLiveChild, Children, RowKept
<1>1. ASSUME Resumes PROVE WaitersHaveLiveChild'
  BY <1>1, Linked DEF Resumes
<1>2. ASSUME Blocks PROVE WaitersHaveLiveChild'
  BY <1>2, BlocksRows
<1>3. ASSUME Wakes PROVE WaitersHaveLiveChild'
  BY <1>3, WakesRows
<1>4. ASSUME Dies PROVE WaitersHaveLiveChild'
  BY <1>4, DiesRows DEF WaitingParents
<1>5. ASSUME Frees PROVE WaitersHaveLiveChild'
  BY <1>5, FreesRows
<1>6. ASSUME Creates PROVE WaitersHaveLiveChild'
  BY <1>6, CreatesRows
<1> QED BY <1>1, <1>2, <1>3, <1>4, <1>5, <1>6, StepKinds

(* No sleeper is overdue: a sleep ends in the future, and the tick that    *)
(* reaches its end wakes it.                                               *)
LEMMA SleepersStep ==
  ASSUME Base, NoOverdueSleeper, [Next]_vars PROVE NoOverdueSleeper'
<1> USE DEF NoOverdueSleeper, Sleepers, RowKept
<1>1. ASSUME Resumes PROVE NoOverdueSleeper'
  BY <1>1, Linked DEF Resumes
<1>2. ASSUME Blocks PROVE NoOverdueSleeper'
  BY <1>2, BlocksRows
<1>3. ASSUME Wakes PROVE NoOverdueSleeper'
  <2>1. ASSUME NEW s \in Slot, state'[s] = "blocked", wait'[s].reason = "sleep"
        PROVE  wait'[s].tick > ticks'
    <3>1. s \in Sleepers /\ wait'[s] = wait[s]
      BY <1>3, <2>1, WakesRows
    <3>2. wait[s].tick \in Nat /\ ticks' \in Nat
      BY <1>3, <2>1, WakesRows DEF Base, Safe, TypeOK, Wait
    <3>3. ticks' # ticks => s \notin DueSleepers(ticks')
      BY <1>3, <2>1, WakesRows
    <3> QED BY <3>1, <3>2, <3>3 DEF DueSleepers
  <2> QED BY <2>1
<1>4. ASSUME Dies PROVE NoOverdueSleeper'
  BY <1>4, DiesRows
<1>5. ASSUME Frees PROVE NoOverdueSleeper'
  BY <1>5, FreesRows
<1>6. ASSUME Creates PROVE NoOverdueSleeper'
  BY <1>6, CreatesRows
<1> QED BY <1>1, <1>2, <1>3, <1>4, <1>5, <1>6, StepKinds

(* The hypotheses of the three lemmas hold initially.                      *)
LEMMA LifeInit == Init => PidsUnique /\ WaitersHaveLiveChild /\ NoOverdueSleeper
BY SlotFacts DEF Init, PidsUnique, WaitersHaveLiveChild, NoOverdueSleeper, Sleepers

(* A pid names at most one process, ever, for every width of process_id_t. *)
THEOREM PidsStayUnique == Spec => []PidsUnique
<1>1. Safe /\ QueueInv /\ PidsUnique /\ [Next]_vars => PidsUnique'
  BY PidsStep DEF Base
<1> QED BY <1>1, QueueInductive, LifeInit, PTL DEF Spec

(* No process waits in process_waitpid for children that are all dead or   *)
(* gone.                                                                   *)
THEOREM NoMissedChild == Spec => []WaitersHaveLiveChild
<1>1. Safe /\ QueueInv /\ WaitersHaveLiveChild /\ [Next]_vars => WaitersHaveLiveChild'
  BY WaitersStep DEF Base
<1> QED BY <1>1, QueueInductive, LifeInit, PTL DEF Spec

(* No process sleeps past its wake_tick.                                   *)
THEOREM NoMissedTick == Spec => []NoOverdueSleeper
<1>1. Safe /\ QueueInv /\ NoOverdueSleeper /\ [Next]_vars => NoOverdueSleeper'
  BY SleepersStep DEF Base
<1> QED BY <1>1, QueueInductive, LifeInit, PTL DEF Spec

(* A slot that counts as a foreground application: a live one, or the      *)
(* caller of process_exit while it is still linked (process_yield might    *)
(* resume it, on its way to panic_halt).                                   *)
Foreground(s) ==
  /\ role[s] = "foreground"
  /\ state[s] \notin {"unused", "zombie"} \/ (s = current /\ s \in onRq)

ForegroundInv ==
  SingleForeground => \A s, r \in Slot : Foreground(s) /\ Foreground(r) => s = r

(* No step adds a foreground application but a spawn, which the policy     *)
(* admits only when there is none.                                         *)
LEMMA ForegroundStep ==
  ASSUME Base, ForegroundInv, [Next]_vars PROVE ForegroundInv'
<1>1. ASSUME NEW s \in Slot, Foreground(s)', ~Creates PROVE Foreground(s)
  <2> USE DEF Foreground, RowKept
  <2>1. \/ current' = current /\ onRq' \subseteq onRq \cup Ready(state')
        \/ onRq' = Ready(state')
    BY <1>1 DEF Next, TaskCall, KernelStep, Halted, Creates, vars, Exit, Kill, Reap,
       CallWaitpid, ResumeWaitpid, WaitpidTurn, ResetSlot, CallYield, Sleep, WaitChannel,
       BlockCurrent, BlockSelf, BlockWith, BlockOther, WakeProcess, WakeChannel,
       WakeFirstChannel, WakeAll, PollTimer, TickInterrupt, Tick, TimerFires,
       SchedulerRun, YieldPoll, StartFirst, PickNone, PickSelf, PickSwitch, IdleWake,
       Sync, table, accounts, timer, stacks
  <2>2. s \in onRq' /\ s = current' => state'[s] = "ready" \/ (s \in onRq /\ s = current)
    BY <2>1 DEF Ready
  <2>3. ASSUME Resumes PROVE Foreground(s)
    BY <1>1, <2>2, <2>3, Linked DEF Resumes
  <2>4. ASSUME Blocks PROVE Foreground(s)
    BY <1>1, <2>2, <2>4, BlocksRows
  <2>5. ASSUME Wakes PROVE Foreground(s)
    BY <1>1, <2>2, <2>5, WakesRows
  <2>6. ASSUME Dies PROVE Foreground(s)
    BY <1>1, <2>2, <2>6, DiesRows
  <2>7. ASSUME Frees PROVE Foreground(s)
    BY <1>1, <2>2, <2>7, FreesRows
  <2> QED BY <1>1, <2>3, <2>4, <2>5, <2>6, <2>7, StepKinds
<1>2. ASSUME Creates, SingleForeground
      PROVE  \A s, r \in Slot : Foreground(s)' /\ Foreground(r)' => s = r
  <2>1. PICK n \in Slot : /\ \A r \in Slot : r # n => RowKept(r)
                          /\ state[n] = "unused" /\ CanSpawn(role'[n])
    BY <1>2, CreatesRows
  <2>2. ASSUME NEW s \in Slot, s # n, Foreground(s)'
        PROVE  Foreground(s) /\ state[s] \notin {"unused", "zombie"}
    BY <1>2, <2>1, <2>2, CreatesRows DEF Foreground, RowKept, Ready
  <2>3. ASSUME NEW s \in Slot, s # n, Foreground(s)' PROVE ~Foreground(n)'
    BY <1>2, <2>1, <2>2, <2>3 DEF CanSpawn, Foreground
  <2> QED BY <1>2, <2>2, <2>3 DEF ForegroundInv
<1> QED BY <1>1, <1>2 DEF ForegroundInv

(* At most one live foreground application, with                           *)
(* CONFIG_RUNTIME_SINGLE_FOREGROUND, through any sequence of calls.        *)
THEOREM ForegroundAlone == Spec => []OneForeground
<1>1. Safe /\ QueueInv /\ ForegroundInv /\ [Next]_vars => ForegroundInv'
  BY ForegroundStep DEF Base
<1>2. Init => ForegroundInv
  BY SlotFacts DEF Init, ForegroundInv, Foreground
<1>3. ForegroundInv => OneForeground
  BY DEF ForegroundInv, Foreground, OneForeground
<1> QED BY <1>1, <1>2, <1>3, QueueInductive, PTL DEF Spec

(* A dead process never runs again: only the reset of its slot ends its    *)
(* being a ZOMBIE, unless the kernel halts.                                *)
THEOREM DeadStayDead == Spec => ZombiesStayDead
<1> DEFINE Dead == \A s \in Slot : state[s] = "zombie" =>
                     state'[s] \in {"zombie", "unused"} \/ pc' = "halted"
<1>1. ASSUME Base, [Next]_vars PROVE Dead
  <2>1. ASSUME NEW s \in Slot, state[s] = "zombie", pc' # "halted",
               state'[s] \notin {"zombie", "unused"}
        PROVE  FALSE
    <3> USE DEF RowKept
    <3>1. CASE Resumes
      BY <1>1, <2>1, <3>1, Linked DEF Resumes
    <3> QED BY <1>1, <2>1, <3>1, BlocksRows, WakesRows, DiesRows, FreesRows,
               CreatesRows, StepKinds
  <2> QED BY <2>1
<1>2. Safe /\ QueueInv /\ [Next]_vars => [Dead]_vars
  BY <1>1 DEF Base
<1> QED BY <1>2, QueueInductive, PTL DEF Spec, ZombiesStayDead
=============================================================================
