------------------------------ MODULE Scheduler ------------------------------
(***************************************************************************)
(* The process table and the cooperative scheduler of the TensorOS kernel: *)
(* kernel/scheduler.c, kernel/process_core.c, kernel/runtime_policy.c, the *)
(* tick path of targets/esp32c3/src/timer.c and the timer poll of          *)
(* kernel/kernel.c.                                                        *)
(*                                                                         *)
(* Exactly one context executes at a time.  kernel_main spawns the first   *)
(* processes with interrupts enabled; scheduler_start_first_process then   *)
(* clears MIE for good, so from that point a tick is taken only where the  *)
(* code polls for it (process_yield and the task loops) or in the window   *)
(* that the idle loop of process_yield opens around wfi.  pc names the     *)
(* place that context has reached; the steps between two such places run   *)
(* with interrupts masked and are one action.                              *)
(*                                                                         *)
(* The red-black tree is represented by the set onRq of the slots linked   *)
(* into it; its cached leftmost node is the least element of onRq in the   *)
(* order of scheduler_vruntime_before.  KeysStable is what makes that      *)
(* representation right, and module ReadyQueue checks the tree itself.     *)
(***************************************************************************)
EXTENDS Naturals

CONSTANTS
  MaxProcesses,      (* MAX_PROCESSES, the number of slots                 *)
  PidModulus,        (* process_id_t wraps to 0 at this value              *)
  Channels,          (* wait channels the tasks use                        *)
  Roles,             (* roles they spawn; the policy only tells            *)
                     (* "foreground" from the others                       *)
  SingleForeground,  (* CONFIG_RUNTIME_SINGLE_FOREGROUND                   *)
  MaxSleep,          (* bound: longest process_sleep                       *)
  MaxTicks,          (* bound: ticks the hardware raises                   *)
  MaxVruntime        (* bound: a process charged this much yields no more  *)

ASSUME SchedulerAssumption ==
  /\ MaxProcesses \in Nat \ {0}
  /\ PidModulus \in Nat \ {0, 1}
  /\ Channels \subseteq Nat
  /\ SingleForeground \in BOOLEAN
  /\ MaxSleep \in Nat
  /\ MaxTicks \in Nat
  /\ MaxVruntime \in Nat

Slot == 0 .. (MaxProcesses - 1)
NoSlot == MaxProcesses              \* UINT32_MAX in g_current_process_index
Pid == 1 .. (PidModulus - 1)

States == {"unused", "ready", "running", "blocked", "zombie"}
Reasons == {"none", "sleep", "manual", "child", "channel"}
Wait == [reason : Reasons, target : Pid \cup {0},
         channel : Channels \cup {0}, tick : Nat]
WaitFor(why, p, c, t) == [reason |-> why, target |-> p, channel |-> c, tick |-> t]
NoWait == WaitFor("none", 0, 0, 0)

VARIABLES
  state, pid, parent, role,  \* g_processes[], field by field
  wait,                      \* wait_reason, _target_pid, _channel, wake_tick
  vruntime, execStart,       \* g_sched_vruntime, g_sched_exec_start_tick
  onRq,                      \* the slots with g_sched_on_rq set
  current, nextPid,          \* g_current_process_index, g_next_pid
  ticks, pending,            \* g_kernel_ticks, the SYSTIMER interrupt bit
  pc,                        \* where the executing context is
  cont, waitArg,             \* per slot: what its process_yield returns to,
                             \* and the pid its process_waitpid waits for
  halt                       \* why panic_halt was reached

table == <<state, pid, parent, role, wait>>
accounts == <<vruntime, execStart>>
timer == <<ticks, pending>>
stacks == <<cont, waitArg>>
vars == <<table, accounts, onRq, current, nextPid, timer, pc, stacks, halt>>

-----------------------------------------------------------------------------
(* Helpers of process_core.c and of the ready queue.                       *)

Ready(st) == {s \in Slot : st[s] = "ready"}

\* scheduler_vruntime_before
Before(a, b) ==
  \/ vruntime[a] < vruntime[b]
  \/ /\ vruntime[a] = vruntime[b]
     /\ \/ pid[a] < pid[b]
        \/ pid[a] = pid[b] /\ a < b

\* scheduler_pick_next_ready returns s (mutated form: the lowest slot)
IsLowestSlot(s) == s \in onRq /\ \A r \in onRq : s <= r
IsLeftmost(s) == s \in onRq /\ \A r \in onRq : r = s \/ Before(s, r)

\* scheduler_sync_ready_queue, run as the last part of a step
Sync == onRq' = Ready(state')

\* process_core_make_ready for every slot of W (mutated form: without its
\* check that the process is BLOCKED)
MakeReadyUnchecked(W) ==
  /\ state' = [s \in Slot |-> IF s \in W THEN "ready" ELSE state[s]]
  /\ wait' = [s \in Slot |-> IF s \in W THEN NoWait ELSE wait[s]]
MakeReady(W) ==
  LET blocked == {s \in W : state[s] = "blocked"}
  IN  /\ state' = [s \in Slot |-> IF s \in blocked THEN "ready" ELSE state[s]]
      /\ wait' = [s \in Slot |-> IF s \in blocked THEN NoWait ELSE wait[s]]

\* scheduler_block_process (mutated form: without the sync)
BlockUnsynced(s, w) ==
  /\ state' = [state EXCEPT ![s] = "blocked"]
  /\ wait' = [wait EXCEPT ![s] = w]
  /\ onRq' = onRq
BlockWith(s, w) ==
  /\ state' = [state EXCEPT ![s] = "blocked"]
  /\ wait' = [wait EXCEPT ![s] = w]
  /\ Sync

\* process_core_find_waitable_child and process_core_has_child
Children(p, target) ==
  {s \in Slot : /\ state[s] # "unused"
                /\ p # 0 /\ parent[s] = p
                /\ target = 0 \/ pid[s] = target}

\* process_core_wake_waiting_parent, for the slots it makes ready (mutated
\* form: a parent waiting for any child is left out)
ParentsWaitingForOne(child) ==
  {s \in Slot : /\ state[s] = "blocked"
                /\ wait[s].reason = "child"
                /\ wait[s].target = child}
WaitingParents(child) ==
  {s \in Slot : /\ state[s] = "blocked"
                /\ wait[s].reason = "child"
                /\ wait[s].target \in {0, child}}

Sleepers == {s \in Slot : state[s] = "blocked" /\ wait[s].reason = "sleep"}
\* process_core_wake_sleepers (mutated form: < for <=)
LateSleepers(now) == {s \in Sleepers : wait[s].tick < now}
DueSleepers(now) == {s \in Sleepers : wait[s].tick <= now}

ChannelWaiters(c) ==
  {s \in Slot : /\ state[s] = "blocked"
                /\ wait[s].reason = "channel"
                /\ wait[s].channel = c}

\* The waiter that process_core_wake_first_channel reaches first, scanning
\* round robin from the slot after the current one.
ScanDistance(s) == (s + MaxProcesses - current - 1) % MaxProcesses
FirstWaiter(c) ==
  {s \in ChannelWaiters(c) :
     \A r \in ChannelWaiters(c) : ScanDistance(s) <= ScanDistance(r)}

\* runtime_policy_can_spawn (mutated form: only the runnable count)
CanSpawnUnlessRunnable(r) ==
  \/ ~SingleForeground
  \/ r # "foreground"
  \/ \A s \in Slot : state[s] \in {"ready", "running"} => role[s] # "foreground"
CanSpawn(r) ==
  \/ ~SingleForeground
  \/ r # "foreground"
  \/ \A s \in Slot : state[s] \notin {"unused", "zombie"} => role[s] # "foreground"

\* scheduler_min_vruntime, as the set of its one value
RunnableVruntimes ==
  {vruntime[s] : s \in onRq}
    \cup {vruntime[s] : s \in {r \in Slot : r = current /\ state[r] = "running"}}
MinVruntime ==
  IF RunnableVruntimes = {} THEN {0}
  ELSE {v \in RunnableVruntimes : \A w \in RunnableVruntimes : v <= w}

\* scheduler_account_runtime: only a process that is still RUNNING when it
\* leaves the CPU is charged; one that blocked or died is not.
Charge(s) == IF ticks > execStart[s] THEN ticks - execStart[s] ELSE 1
Accounted(column, value) ==
  IF state[current] = "running" THEN [column EXCEPT ![current] = value] ELSE column

\* The state scheduler_switch_process leaves the caller in
\* (mutated form: a caller that was preempted stays RUNNING).
StateLeftRunning == state[current]
StateLeft == IF state[current] = "running" THEN "ready" ELSE state[current]

\* g_next_pid++ on a process_id_t (mutated form: a wrap that skips the 0 at
\* which process_spawn_with_role stops)
PidAfterReusing == IF nextPid + 1 = PidModulus THEN 1 ELSE nextPid + 1
PidAfter == (nextPid + 1) % PidModulus

InTask == pc = "task"
CanYield == vruntime[current] < MaxVruntime
CurrentPid == IF current = NoSlot THEN 0 ELSE pid[current]

\* Every blocking call ends in process_yield.
EnterYield(c) ==
  /\ pc' = "yield"
  /\ cont' = [cont EXCEPT ![current] = c]

-----------------------------------------------------------------------------
(* Creation and termination.                                               *)

\* process_spawn_with_role when it succeeds: by kernel_main, or by a process
Spawn(r) ==
  /\ pc \in {"boot", "task"}
  /\ nextPid # 0
  /\ CanSpawn(r)
  /\ \E s \in Slot :
       /\ state[s] = "unused"
       /\ \A q \in Slot : q < s => state[q] # "unused"
       /\ state' = [state EXCEPT ![s] = "ready"]
       /\ pid' = [pid EXCEPT ![s] = nextPid]
       /\ parent' = [parent EXCEPT ![s] = CurrentPid]
       /\ role' = [role EXCEPT ![s] = r]
       /\ wait' = [wait EXCEPT ![s] = NoWait]
       /\ \E v \in MinVruntime : vruntime' = [vruntime EXCEPT ![s] = v]
       /\ execStart' = [execStart EXCEPT ![s] = 0]
       /\ cont' = [cont EXCEPT ![s] = "task"]
       /\ waitArg' = [waitArg EXCEPT ![s] = 0]
       /\ Sync
  /\ nextPid' = PidAfter
  /\ UNCHANGED <<current, timer, pc, halt>>

\* The state and wait columns after slot s became a zombie and its waiting
\* parents were woken: the part process_exit and process_kill share.
Terminate(s) ==
  LET woken == WaitingParents(pid[s]) \ {s}
  IN  /\ state' = [r \in Slot |-> IF r = s THEN "zombie"
                                  ELSE IF r \in woken THEN "ready" ELSE state[r]]
      /\ wait' = [r \in Slot |-> IF r \in woken THEN NoWait ELSE wait[r]]
      /\ UNCHANGED <<pid, parent, role>>

\* process_exit up to its process_yield; it does not sync the ready queue
Exit ==
  /\ InTask
  /\ Terminate(current)
  /\ EnterYield("exit")
  /\ UNCHANGED <<accounts, onRq, current, nextPid, timer, waitArg, halt>>

\* process_kill of another, live process (of itself it is Exit; of a zombie
\* or of an unknown pid it changes nothing); mutated form: without the sync
KillUnsynced(s) ==
  /\ InTask
  /\ s # current
  /\ state[s] \in {"ready", "running", "blocked"}
  /\ Terminate(s)
  /\ UNCHANGED <<accounts, onRq, current, nextPid, timer, pc, stacks, halt>>
Kill(s) ==
  /\ InTask
  /\ s # current
  /\ state[s] \in {"ready", "running", "blocked"}
  /\ Terminate(s)
  /\ Sync
  /\ UNCHANGED <<accounts, current, nextPid, timer, pc, stacks, halt>>

\* scheduler_reset_process_slot
ResetSlot(s) ==
  /\ onRq' = onRq \ {s}
  /\ state' = [state EXCEPT ![s] = "unused"]
  /\ pid' = [pid EXCEPT ![s] = 0]
  /\ parent' = [parent EXCEPT ![s] = 0]
  /\ role' = [role EXCEPT ![s] = "none"]
  /\ wait' = [wait EXCEPT ![s] = NoWait]
  /\ vruntime' = [vruntime EXCEPT ![s] = 0]
  /\ execStart' = [execStart EXCEPT ![s] = 0]

\* process_reap: any process may reap any zombie
Reap(s) ==
  /\ InTask
  /\ state[s] = "zombie"
  /\ ResetSlot(s)
  /\ UNCHANGED <<current, nextPid, timer, pc, stacks, halt>>

LeaveWaitpid ==
  /\ pc' = "task"
  /\ cont' = [cont EXCEPT ![current] = "task"]
  /\ waitArg' = [waitArg EXCEPT ![current] = 0]

\* One turn of process_waitpid's loop for the pid (or 0, any child) target
WaitpidTurn(target) ==
  LET children == Children(pid[current], target)
      zombies == {s \in children : state[s] = "zombie"}
  IN  \/ /\ \E s \in zombies :
              /\ \A r \in zombies : s <= r
              /\ ResetSlot(s)
         /\ LeaveWaitpid
      \/ /\ children = {}
         /\ LeaveWaitpid
         /\ UNCHANGED <<table, accounts, onRq>>
      \/ /\ children # {} /\ zombies = {}
         /\ BlockWith(current, WaitFor("child", target, 0, 0))
         /\ EnterYield("waitpid")
         /\ waitArg' = [waitArg EXCEPT ![current] = target]
         /\ UNCHANGED <<pid, parent, role, accounts>>

CallWaitpid(target) ==
  /\ InTask /\ CanYield
  /\ WaitpidTurn(target)
  /\ UNCHANGED <<current, nextPid, timer, halt>>

\* process_waitpid runs again after its process_yield
ResumeWaitpid ==
  /\ pc = "waitpid"
  /\ WaitpidTurn(waitArg[current])
  /\ UNCHANGED <<current, nextPid, timer, halt>>

-----------------------------------------------------------------------------
(* Blocking and waking.                                                    *)

\* process_yield called by a task, and process_sleep(0)
CallYield ==
  /\ InTask /\ CanYield
  /\ EnterYield("task")
  /\ UNCHANGED <<table, accounts, onRq, current, nextPid, timer, waitArg, halt>>

\* The current process blocks itself and yields.
BlockSelf(w) ==
  /\ InTask /\ CanYield
  /\ BlockWith(current, w)
  /\ EnterYield("task")
  /\ UNCHANGED <<pid, parent, role, accounts, current, nextPid, timer, waitArg, halt>>

\* process_sleep
Sleep(n) ==
  /\ ticks + n <= MaxTicks
  /\ BlockSelf(WaitFor("sleep", 0, 0, ticks + n))

\* process_wait_channel
WaitChannel(c) == BlockSelf(WaitFor("channel", 0, c, 0))

\* process_block of the caller itself
BlockCurrent == BlockSelf(WaitFor("manual", 0, 0, 0))

\* process_block of another process
BlockOther(s) ==
  /\ InTask
  /\ s # current
  /\ state[s] \in {"ready", "running"}
  /\ BlockWith(s, WaitFor("manual", 0, 0, 0))
  /\ UNCHANGED <<pid, parent, role, accounts, current, nextPid, timer, pc, stacks, halt>>

\* A call that makes the slots of W ready and syncs the queue
WakeAll(W) ==
  /\ InTask
  /\ MakeReady(W)
  /\ Sync
  /\ UNCHANGED <<pid, parent, role, accounts, current, nextPid, timer, pc, stacks, halt>>

\* process_wake, for whatever reason the process is blocked
WakeProcess(s) == state[s] # "unused" /\ WakeAll({s})

WakeChannel(c) == WakeAll(ChannelWaiters(c))
WakeFirstChannel(c) == WakeAll(FirstWaiter(c))

-----------------------------------------------------------------------------
(* The timer.                                                              *)

\* The SYSTIMER alarm sets its interrupt bit; alarms do not queue.
TimerFires ==
  /\ ~pending /\ ticks < MaxTicks
  /\ pc # "halted"
  /\ pending' = TRUE
  /\ UNCHANGED <<table, accounts, onRq, current, nextPid, ticks, pc, stacks, halt>>

\* systimer_tick_isr and the process_tick it calls
Tick ==
  /\ pending
  /\ pending' = FALSE
  /\ ticks' = ticks + 1
  /\ MakeReady(DueSleepers(ticks + 1))
  /\ Sync
  /\ UNCHANGED <<pid, parent, role>>

\* The interrupt is taken: in kernel_main, or in the idle loop's window
\* (mutated form: the idle loop waits with interrupts still masked).
TickInterruptMaskedIdle ==
  /\ pc = "boot"
  /\ Tick
  /\ UNCHANGED <<accounts, current, nextPid, pc, stacks, halt>>
TickInterrupt ==
  /\ pc \in {"boot", "idle"}
  /\ Tick
  /\ UNCHANGED <<accounts, current, nextPid, pc, stacks, halt>>

\* A task calls runtime_poll_timer_delivery while the tick is pending.
PollTimer ==
  /\ InTask
  /\ Tick
  /\ UNCHANGED <<accounts, current, nextPid, pc, stacks, halt>>

-----------------------------------------------------------------------------
(* process_yield and the switch.                                           *)

\* scheduler_run enters process_yield with no current process.
SchedulerRun ==
  /\ pc = "boot"
  /\ pc' = "yield"
  /\ UNCHANGED <<table, accounts, onRq, current, nextPid, timer, stacks, halt>>

\* process_yield first polls the timer.
YieldPoll ==
  /\ pc = "yield"
  /\ pc' = "pick"
  /\ \/ Tick
     \/ ~pending /\ UNCHANGED <<table, onRq, timer>>
  /\ UNCHANGED <<accounts, current, nextPid, stacks, halt>>

Panic(why) == pc' = "halted" /\ halt' = why

\* Where slot s goes on once its process_yield returns; process_exit's
\* returning is the panic_halt at its end.
Return(s) ==
  IF cont[s] = "exit" THEN Panic("exit_returned")
  ELSE pc' = cont[s] /\ UNCHANGED halt

\* scheduler_start_first_process; with nothing spawned it panics
StartFirst ==
  /\ pc = "pick" /\ current = NoSlot
  /\ \/ \E s \in onRq :
          /\ IsLeftmost(s)
          /\ current' = s
          /\ state' = [state EXCEPT ![s] = "running"]
          /\ execStart' = [execStart EXCEPT ![s] = ticks]
          /\ Sync
          /\ Return(s)
     \/ /\ onRq = {}
        /\ Panic("no_first_process")
        /\ UNCHANGED <<state, execStart, onRq, current>>
  /\ UNCHANGED <<pid, parent, role, wait, vruntime, nextPid, timer, stacks>>

\* Nothing on the queue: go on, go idle until a sleeper is due, or panic.
PickNone ==
  /\ pc = "pick" /\ current # NoSlot
  /\ onRq = {}
  /\ \/ state[current] = "running" /\ Return(current)
     \/ /\ state[current] # "running" /\ Sleepers # {}
        /\ pc' = "idle" /\ UNCHANGED halt
     \/ /\ state[current] # "running" /\ Sleepers = {}
        /\ Panic("no_runnable")
  /\ UNCHANGED <<table, accounts, onRq, current, nextPid, timer, stacks>>

\* The idle loop after wfi returned: sync and look again.
IdleWake ==
  /\ pc = "idle"
  /\ onRq' = Ready(state)
  /\ pc' = IF Ready(state) = {} THEN "idle" ELSE "pick"
  /\ UNCHANGED <<table, accounts, current, nextPid, timer, stacks, halt>>

\* The leftmost process is the caller: it goes on, without a sync (mutated
\* form: it is charged while it is still linked).
PickSelfCharged ==
  /\ pc = "pick" /\ current # NoSlot
  /\ IsLeftmost(current)
  /\ state' = [state EXCEPT ![current] = "running"]
  /\ vruntime' = [vruntime EXCEPT ![current] = @ + Charge(current)]
  /\ Return(current)
  /\ UNCHANGED <<pid, parent, role, wait, execStart, onRq, current, nextPid, timer, stacks>>
PickSelf ==
  /\ pc = "pick" /\ current # NoSlot
  /\ IsLeftmost(current)
  /\ state' = [state EXCEPT ![current] = "running"]
  /\ Return(current)
  /\ UNCHANGED <<pid, parent, role, wait, accounts, onRq, current, nextPid, timer, stacks>>

\* scheduler_switch_process
PickSwitch(s) ==
  /\ pc = "pick" /\ current # NoSlot
  /\ s # current
  /\ IsLeftmost(s)
  /\ vruntime' = Accounted(vruntime, vruntime[current] + Charge(current))
  /\ execStart' = [Accounted(execStart, ticks) EXCEPT ![s] = ticks]
  /\ state' = [state EXCEPT ![current] = StateLeft, ![s] = "running"]
  /\ current' = s
  /\ Sync
  /\ Return(s)
  /\ UNCHANGED <<pid, parent, role, wait, nextPid, timer, stacks>>

\* panic_halt never returns.
Halted == pc = "halted" /\ UNCHANGED vars

-----------------------------------------------------------------------------
Init ==
  /\ state = [s \in Slot |-> "unused"]
  /\ pid = [s \in Slot |-> 0]
  /\ parent = [s \in Slot |-> 0]
  /\ role = [s \in Slot |-> "none"]
  /\ wait = [s \in Slot |-> NoWait]
  /\ vruntime = [s \in Slot |-> 0]
  /\ execStart = [s \in Slot |-> 0]
  /\ onRq = {}
  /\ current = NoSlot
  /\ nextPid = 1
  /\ ticks = 0 /\ pending = FALSE
  /\ pc = "boot"
  /\ cont = [s \in Slot |-> "task"]
  /\ waitArg = [s \in Slot |-> 0]
  /\ halt = "none"

\* What a running process may ask of the kernel
TaskCall ==
  \/ \E r \in Roles : Spawn(r)
  \/ Exit
  \/ \E s \in Slot : Kill(s)
  \/ \E s \in Slot : Reap(s)
  \/ \E t \in Pid \cup {0} : CallWaitpid(t)
  \/ CallYield
  \/ \E n \in 1 .. MaxSleep : Sleep(n)
  \/ \E c \in Channels : WaitChannel(c)
  \/ BlockCurrent
  \/ \E s \in Slot : BlockOther(s)
  \/ \E s \in Slot : WakeProcess(s)
  \/ \E c \in Channels : WakeChannel(c)
  \/ \E c \in Channels : WakeFirstChannel(c)
  \/ PollTimer

\* What the kernel does on its own, once in process_yield
KernelStep ==
  \/ YieldPoll
  \/ StartFirst
  \/ PickNone
  \/ PickSelf
  \/ \E s \in Slot : PickSwitch(s)
  \/ IdleWake
  \/ ResumeWaitpid

Next ==
  \/ TaskCall
  \/ KernelStep
  \/ SchedulerRun
  \/ TimerFires
  \/ TickInterrupt
  \/ Halted

Spec == Init /\ [][Next]_vars

(* A cooperative task polls the timer or yields again and again (the task  *)
(* loops of kernel.c do both each turn), process_yield runs to its end,    *)
(* the periodic alarm keeps firing, and wfi returns on an interrupt.       *)
Fairness ==
  /\ WF_vars(PollTimer)
  /\ WF_vars(KernelStep)
  /\ WF_vars(SchedulerRun)
  /\ WF_vars(TimerFires)
  /\ WF_vars(TickInterrupt)

FairSpec == Spec /\ Fairness

-----------------------------------------------------------------------------
(* Properties.                                                             *)

(* Every variable of the scheduler stays in the range its C type and the   *)
(* code's use of it give it (struct process_runtime_state, scheduler.c     *)
(* globals).                                                               *)
TypeOK ==
  /\ state \in [Slot -> States]
  /\ pid \in [Slot -> Pid \cup {0}]
  /\ parent \in [Slot -> Pid \cup {0}]
  /\ role \in [Slot -> Roles \cup {"none"}]
  /\ wait \in [Slot -> Wait]
  /\ vruntime \in [Slot -> Nat]
  /\ execStart \in [Slot -> Nat]
  /\ onRq \in SUBSET Slot
  /\ current \in Slot \cup {NoSlot}
  /\ nextPid \in Pid \cup {0}
  /\ ticks \in Nat /\ pending \in BOOLEAN
  /\ pc \in {"boot", "task", "yield", "pick", "idle", "waitpid", "halted"}
  /\ cont \in [Slot -> {"task", "waitpid", "exit"}]
  /\ waitArg \in [Slot -> Pid \cup {0}]
  /\ halt \in {"none", "no_runnable", "exit_returned", "no_first_process"}

(* The CPU is never claimed twice: only the slot g_current_process_index   *)
(* names is RUNNING, and it is RUNNING whenever task code executes         *)
(* (scheduler_switch_process, the resume path of process_yield, and every  *)
(* call that blocks or kills).                                             *)
OneRunning ==
  /\ \A s \in Slot : state[s] = "running" => s = current
  /\ pc \in {"task", "waitpid"} => current \in Slot /\ state[current] = "running"

(* No two used slots share a pid, and a pid is never handed out twice      *)
(* until g_next_pid wraps to 0 and process_spawn_with_role refuses, so a   *)
(* pid kept across a reap can never name another process.                  *)
PidsUnique ==
  /\ \A s \in Slot : state[s] # "unused" => pid[s] \in Pid
  /\ \A s, r \in Slot : pid[s] # 0 /\ pid[s] = pid[r] => s = r
  /\ \A s \in Slot : nextPid # 0 => pid[s] < nextPid

(* While a task runs, the ready queue holds exactly the READY processes,   *)
(* but for the running process itself, which process_yield leaves linked   *)
(* when it resumes the caller without a sync; then it is the leftmost.     *)
(* process_exit's missing sync is always repaired by the switch.           *)
QueueMatchesTable ==
  pc \in {"task", "waitpid"} =>
    /\ onRq \ {current} = Ready(state)
    /\ current \in onRq => IsLeftmost(current)

(* In every state, the queue holds no slot that is free, blocked or dead,  *)
(* save the caller of process_exit: a switch target always has a stack to  *)
(* switch to.                                                              *)
QueueHoldsRunnable ==
  \A s \in onRq :
    \/ state[s] = "ready"
    \/ s = current /\ pc # "idle" /\ (state[s] = "running" \/ cont[s] = "exit")

(* A process blocked in process_waitpid always has a live child that       *)
(* matches: the death of the last one is never missed, whatever the order  *)
(* of exit, kill, reap by a third process, and waking.                     *)
WaitersHaveLiveChild ==
  \A s \in Slot :
    state[s] = "blocked" /\ wait[s].reason = "child" =>
      \E r \in Children(pid[s], wait[s].target) : state[r] # "zombie"

(* No tick leaves a due sleeper behind: process_core_wake_sleepers and the *)
(* order of the increment and the wake in systimer_tick_isr.               *)
NoOverdueSleeper == \A s \in Sleepers : wait[s].tick > ticks

(* With CONFIG_RUNTIME_SINGLE_FOREGROUND at most one live process is a     *)
(* foreground application, through any sequence of spawns, kills, exits    *)
(* and reaps.                                                              *)
OneForeground ==
  SingleForeground =>
    \A s, r \in Slot :
      /\ state[s] \notin {"unused", "zombie"} /\ role[s] = "foreground"
      /\ state[r] \notin {"unused", "zombie"} /\ role[r] = "foreground"
      => s = r

(* The keys of the red-black tree do not change under it: a slot that is   *)
(* linked before and after a step keeps its vruntime and its pid, so the   *)
(* order the tree was built with stays the order it is searched in         *)
(* (scheduler_account_runtime, process_spawn_with_role).                   *)
KeysStable ==
  [][\A s \in onRq \cap onRq' :
       vruntime'[s] = vruntime[s] /\ pid'[s] = pid[s]]_vars

(* A dead process stays dead until its slot is reset, unless the kernel    *)
(* halts in that very step (process_exit's final panic_halt).              *)
ZombiesStayDead ==
  [][\A s \in Slot : state[s] = "zombie" =>
       state'[s] \in {"zombie", "unused"} \/ pc' = "halted"]_vars

(* The CPU only passes to the READY process with the least (vruntime, pid) *)
(* among all READY ones, save that a process woken by the exit of the      *)
(* caller may be overlooked once, process_exit not having synced.          *)
SwitchTakesLeast ==
  [][current' # current /\ current \in Slot =>
       /\ state[current'] = "ready"
       /\ \A r \in Ready(state) :
            r = current' \/ Before(current', r) \/ cont[current] = "exit"]_vars

(* A sleeping process is made ready (or killed) sooner or later, even when *)
(* every process sleeps or is blocked and only the idle loop runs.         *)
SleeperWakes ==
  \A s \in Slot : s \in Sleepers ~> (s \notin Sleepers \/ pc = "halted")

(* scheduler.c:978 reports "no runnable processes" before it halts: there  *)
(* then is no process that could run.                                      *)
HaltMeansNoneRunnable == halt = "no_runnable" => Ready(state) = {}
=============================================================================
