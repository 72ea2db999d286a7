# TensorOS in TLA+

A verification project for the TensorOS kernel (ESP32-C3, RISC-V, C): TLA+
modules of its core components, TLC runs over small instances, and TLAPS proofs
for instances of every size. `PROJECT.json` lists components, runs, the source
lines behind each definition, mutants, findings, hazards and theorems.

    tlc -workers 2 -config Scheduler.cfg MCScheduler
    tlapm SchedulerProofs.tla

## 1. The system

TensorOS runs a handful of tasks (`MAX_PROCESSES` = 10) on one core. The build is
cooperative: `scheduler_start_first_process` clears the interrupt enable bit for
good, so between two scheduling points a task runs undisturbed. A timer tick is
taken only where the code polls for it or in the window the idle loop opens
around `wfi`. What makes the kernel hard is therefore not preemption but *order*:
which calls of which processes come between a state change and the place where
the rest of the kernel learns of it.

| component | state | operations | interacts with |
|---|---|---|---|
| process table (`process_core.c`, `scheduler.c`) | state, pid, parent, role, wait record of each slot; next pid | spawn, exit, kill, reap, waitpid, sleep, block, wake | ready queue, timer, every task |
| ready queue (`scheduler.c` 128-505) | red-black tree in arrays, cached leftmost slot | insert, remove, recompute, sync | process table (keys), `process_yield` |
| switch and idle (`process_yield`) | current slot, vruntime, start tick | pick, charge, switch, idle, halt | timer, ready queue |
| timer (`timer.c`, poll in `kernel.c`) | tick count, the SYSTIMER bit | tick interrupt, poll | wakes sleepers |
| policy (`runtime_policy.c`) | none; reads the table | may this role be spawned | spawn |
| synchronisation (`wait_queue.c`, `event.c`, `semaphore.c`, `mutex.c`, `mailbox.c`) | waiter counts, channels, count, owner, message slot, magics | acquire/release, lock/unlock, send/receive, wait/signal, destroy | wait channels of the scheduler |
| file system (`runtime_fs.c`) | node table (16 slots), open-file table | mkdir, remove, rename, open, read, write, seek, readdir, close | system calls, image |
| file-system image (`runtime_fs_image.c`) | none; a buffer | export, validate, import | file system |
| system calls (`runtime_syscall.c`) | handle table | dispatch, alloc, dup, close, owner checks | all of the above |
| heap (`kmem.c`) | block list, counters | alloc, free, split, merge | objects |
| service loop (`kernel.c`, `runtime_service.c`) | provider pid, two mailboxes, event, mutex, semaphore | request, serve, reply | synchronisation, scheduler |
| UI (`runtime_ui.c`, `runtime_input.c`) | event ring, timer table | push, pop, arm, cancel, collect | ticks, processes |
| display (`display_surface.c`, `runtime_display_demo.c`, `panel_gc9a01.c`) | two buffers, dirty rectangle, the panel's memory | fill, blit, present | panel driver |
| management shell (`runtime_manage.c`) | line buffer shared by two tasks | wake, kill, spawn, send, receive | scheduler, synchronisation |
| preemption (`preempt.c`, `trap.c`) | disable depth, pending flag | safe points | off in this build |
| drivers, boot, demo | registers | I/O | - |

Hard behaviours: a wake-up or a death that falls between another process's check
and its block; wake-ups out of the blue from the management shell (`wake <pid>`)
and kills of processes inside a call (`kill <pid>`); queue keys that change under
the queue; a pid or node index that is reused while somebody still holds it; calls
that fail after they have changed something; the idle loop as the only place left
that can deliver a tick. The hazards in `PROJECT.json` give each with its line.

What makes the components correct:

* scheduler: one process claims the CPU; the queue is the READY processes; keys are
  stable while linked; the least process is chosen; no due sleeper, no dead child
  and no halt is missed; a dead process never runs; pids are unique.
* ready queue: a search tree with red-black balance whose leftmost node is the
  minimum; loops end.
* synchronisation: no lost wake-up, exclusion, each message once, nothing freed
  under a waiter.
* file system: the nodes below the root are a tree, and the root stays; open files keep
  their node; one writer, who may write; no stale bytes.
* image: what is exported imports as the same file system; damage is noticed before
  anything is cleared; what validate accepts the file system accepts too, but for names
  that the import cuts.
* heap: the blocks tile the arena and are merged; the statistics agree with the list.
* handles: none dangles, nothing open is without one, no process reaches another's.
* service loop: no request is answered twice, the reply to the only client answers what it
  asked, and every request of it that a server hears is answered.
* UI: a first-in first-out queue and timers that fire once, on time.
* display: the panel shows what was drawn, and the rectangle sent is the least around it.

## 2. Modules

| module | models | checked by |
|---|---|---|
| `Scheduler` | process table, tick, yield, switch, idle | `Scheduler`, `SchedulerLive`, `SchedulerHalt` |
| `SchedulerProofs` | theorems about `Scheduler` | tlapm |
| `ReadySet` | abstract: a set of slots and its least member | as a property of `ReadyQueue` |
| `ReadyQueue` | the red-black tree of `scheduler.c` | `ReadyQueue` |
| `ReadyQueueProofs` | theorems about `ReadyQueue`; it implements `ReadySet` | tlapm |
| `KernelSync` | wait queues and the four objects on them | `KernelSync`, and inside `Supervisor` |
| `KernelSyncProofs` | theorems about `KernelSync` and `Supervisor` | tlapm |
| `Supervisor` | supervisor, service server, mailbox receiver and shell; composes `KernelSync` | `Supervisor` |
| `RuntimeFs` | nodes and open files | `RuntimeFs`, `RuntimeFsRoot` |
| `FsImage` | export, validate, import; extends `RuntimeFs` | `RuntimeFs` |
| `FsImageProofs` | theorems about `RuntimeFs` and `FsImage` | tlapm |
| `Kmem` | the heap | `Kmem` |
| `KmemProofs` | theorems about `Kmem` | tlapm |
| `Syscall` | handle table, service sessions and the objects behind handles | `Syscall`, `SyscallSessions` |
| `SyscallProofs` | theorems about `Syscall` | tlapm |
| `UiEvents` | abstract: a queue and a set of timers | as a property of `RuntimeUi` |
| `RuntimeUi` | event ring, timer table, input service | `Screen` |
| `Display` | surface, drawing calls, transfer to the panel | `Screen` |
| `RuntimeScreenProofs` | theorems about `RuntimeUi`, which implements `UiEvents`, and `Display` | tlapm |
| `NatLemmas` | least elements, induction, iteration and division, for the proofs | tlapm |

`MC*` modules instantiate them for TLC. Operators whose comment says *mutated form*
are deliberate errors, used only to show that the property named with them in
`PROJECT.json` can fail; no specification refers to them.

**Scheduler.** `pc` names the place the one executing context has reached: `boot`
(kernel_main), `task`, `yield` and `pick` (inside `process_yield`, before and after
its timer poll), `idle`, `waitpid` (back inside `process_waitpid`'s loop), `halted`.
Code between two places runs with interrupts masked and is one action. `cont[s]` is
what slot `s`'s `process_yield` will return to, the part of its stack that matters.
`onRq` is the set of slots linked into the tree; `Sync` (`scheduler_sync_ready_queue`)
is part of exactly the actions whose code calls it. `Exit` does not: that is the
code. `TaskCall` lists what a process may ask for; tasks are otherwise arbitrary.

**ReadyQueue.** The tree is one record of arrays (`root`, `up`, `down`, `color`), the
two sides share code through `Other`, and each turn of a fix-up loop is a step, so
that intermediate shapes and termination are visible. `Scheduler` uses the set view;
`ImplementsReadySet` says the tree implements it, provided keys are stable while
linked, which `KeysStable` says of `Scheduler`.

**KernelSync.** `waiting[p]` is the queue whose `kernel_wait_queue_wait` process `p`
is inside, `run[p]` whether it can take a step. A blocking call is one action per
turn of its `while` loop. `Wake` and `Kill` are what the management shell does.
`hung` is the state in which a loop spins on a queue that is gone. `holders`, `sent`
and `delivered` are history.

**Supervisor.** Each task is a loop over `pc`, each place a call of `KernelSync`; a task
keeps the CPU (`cpu`) until it waits, yields or sleeps. A client is a supervisor in
`runtime_service_request_sync`: send, signal, acquire, receive; the operator may spawn more
of them, and they share the one reply mailbox and semaphore. `OnlyClient` says that nobody
did. The supervisor and the mailbox receiver poll the same shell: a key extends or shortens
the line, the newline executes it, and a mailbox command may wait inside. What the line
says is the operator's choice: kill, wake or spawn one of the tasks, send, receive, or
something that leaves them alone. A task that is told to kill itself never comes back to
empty the line (`KillSelf`). Whether the demo profile has a send or a round trip due is
open at each turn. `taken`, `reply`, `asking`, `answered` and `heard` are history.

**RuntimeFs and FsImage.** A path is a sequence of names, where `Empty` is the empty
component of `//`; the constant `Path` says which paths are tried. A byte is zero or
written. Calls that fail without an effect are no steps; refused opens that do have an
effect are. An image is a header, records, the hashes of the Merkle tree and the payload.
The name of a record either ends within its 16 bytes or fills them: validation compares all
16, the import copies 15. A hash is the value that was hashed, since FNV-1a tells apart any
two inputs of one length that differ in one byte, which are the ones that are compared.
`Checkpoint` exports, validates and imports in place, as
`runtime_fs_stress_checkpoint_roundtrip` does.

**Kmem.** The list of blocks is a sequence; a block keeps its address, so that a split
or a merge can get the layout wrong. Sizes are modulo `Word`, the number of values of
`uint32_t`, scaled down with the arena.

**Syscall.** A system call is one action of its caller. An event or a mailbox lives at
an address the heap may hand out again; `busy` are the ones whose destroy is refused
(a message, a waiter). `CloseHandles` is `runtime_syscall_close_handle` for one handle
or, from `runtime_syscall_release_owner_handles`, for all of an owner in table order.
Calls on an open handle that change only the file or the message are in `RuntimeFs`
and `KernelSync`; look-ups change nothing.

**RuntimeUi.** The ring is an array with a read index and a count; `PushAll` is the push
of several events in a row, for collecting. Timers compare 32-bit ticks; `wanted` is
history, the time each timer was really meant for.

**Display.** Buffers are arrays of colours by address, `Flushed` streams the rectangle
into the panel's address window row by row. `drawn` and `picture` are history: what the
callers meant, computed from their arguments without the clipping code.

## 3. Runs

| run | bounds | shows |
|---|---|---|
| `scheduler` | 3 slots, 3 pids, 1 channel, 2 roles, 1 tick | `QueueMatchesTable`, `QueueHoldsRunnable`, `NoOverdueSleeper`, `OneRunning`, `PidsUnique`, `WaitersHaveLiveChild`, `OneForeground`, `KeysStable`, `ZombiesStayDead`, `SwitchTakesLeast` |
| `scheduler_live` | 2 slots, 3 pids, 3 ticks | `SleeperWakes` under fairness |
| `ready_queue` | 10 slots (the real `MAX_PROCESSES`), one of which changes its key between two values | shape, order, balance, progress, refinement |
| `kernel_sync` | 3 processes, one object of each kind, 3 messages, 1 kill | `WaitersCounted`, `NoLostWakeup`, `MutexExclusive`, `MessagesOnce`, `NoWaitOnFreed` |
| `supervisor` | 4 tasks (one spawned: a server or a supervisor), 4 messages, 1 kill, a line of 1 character, 1 key per poll | `RepliesMatch`, `HeardIsAnswered` under fairness |
| `runtime_fs` | 3 nodes, 2 open files, 2 pids, 2 bytes, the paths `/`, `//` and those of one or two different names | `DirectoryTree`, `WritersOwn`, `NoStaleBytes`, `OpenKeepsNode`, `RoundTripRestores`, `DamageDetected`, `AcceptedIsValid` |
| `kmem` | arena of 112 with headers of 12, words of 8 bits, 6 calls of alloc, sizes 0, 1, 8, 20, 60, 255 | `Tiled`, `Coalesced`, `StatsAddUp`, `LargeEnough` |
| `syscall` | 2 callers, 3 handles, 1 address, 1 file, 2 sessions, 2 spawned processes | `NoDangling`, `NothingLeaks`, `OthersUntouched` |
| `screen` | 3 by 2 pixels, 2 colours, rectangles of 2 by 2 that overlap each edge; ring of 2, 2 timers, ticks modulo 3, 4 ticks, 2 tokens | `DamageTight`, `PresentShowsDrawn`, `ImplementsUiEvents`, `OnTimeUnlessWrapped` |

In `screen` the display and the UI share no state, so each moves while the other is as it
was initialised.

Why the bounds are enough: three slots give a parent, a child and a third party who reaps,
kills or wakes; the pid counter runs out in every scheduler run; ten slots are the kernel's
own number, and the least with which the deletion fix-up takes a second turn (seven reach
each of its cases on both sides); three processes on one object are a waiter, a waker and a
thief of the wake-up; three nodes are the root and the two that a directory cycle or a
reused index needs, and leave holes in the node table for the image. Four messages are two
round trips, with which an answer could come to the wrong request; a request is sent only
with room for its reply (`Room`), so the bound on messages never keeps a server from
answering. The fourth task is a second server, one that replaces a killed one, or a second
client. In the heap's arena four blocks fit, so three free neighbours, a remainder too
small to split, the exact fit and the full arena all occur, and 255 is a request whose
rounding overflows. Three handles are an object with two aliases and one more, or a full
table; one address makes every new object reuse it. The ring fills while two timers are
due, and the tick counter wraps once with timers armed on either side. On three by two
pixels the rectangles are clipped at one or two edges or not at all, two of them can leave
a column between them that neither drew, and one can extend another. `MaxVruntime` stops a
process that was charged that much from yielding again: it only bounds the exploration, the
process may still poll, wake, kill and exit.

Deadlock is not checked in `kernel_sync` and `supervisor` (all may wait for good there:
nobody is obliged to signal, and the messages run out) nor in `kmem`, where the
calls run out.

Runs that show a disagreement between the code and what it says of itself:

* `scheduler_halt`: `process_exit` wakes a waiting parent but does not sync the queue;
  if nothing else is linked and nobody sleeps, the kernel reports "no runnable
  processes" and halts with the parent READY.
* `syscall_sessions`: `runtime_service_session_invalidate_provider` closes the sessions of a
  provider that was replaced under the handles that name them; the number is handed out
  again and the old handle reaches another process's session. In the run a second server
  is spawned beside the first, which is enough to replace it.
* `runtime_fs_root`: `//` is not the spelling of the root that `runtime_fs_remove` and
  `runtime_fs_rename` refuse, and it resolves to the root (`runtime_fs.c:136`). A remove frees
  the root's node if the root is empty, a rename names it, while
  `runtime_fs_host_test.c:614` and `:619` expect both to be refused.

The models contain more behaviours that a user of the code should know of. The properties
of the passing runs are stated so that they are true with them:

* `process_yield` resumes a caller it finds leftmost without unlinking it; when that
  caller exits, it picks itself and returns into `panic_halt` (`scheduler.c:704`).
  `QueueHoldsRunnable`, `ZombiesStayDead` and `SwitchTakesLeast` name this exception.
* `kernel_mailbox_destroy` refused for a waiting receiver has already freed the senders'
  queue (`mailbox.c:46`); a later sender to the full mailbox spins (`hung`).
* Once `//` has removed or renamed the root, the nodes below its slot are still a tree
  (`DirectoryTree`), but the file system can no longer be exported: `RoundTripRestores` asks
  for `RootStays`.
* `runtime_fs_image_validate` compares the 16 bytes of a name and never asks for a NUL
  (`runtime_fs_image.c:65`), `runtime_fs_image_copy_name` copies 15 (`runtime_fs_image.c:57`).
  Siblings that differ in the 16th are accepted, the file system is cleared, and
  `runtime_fs_validate` then says EEXIST. An export never writes such names.
  `AcceptedIsValid` says that this is the one way an accepted import fails.
* `runtime_fs_open` truncates before its last refusals (`runtime_fs.c:531`).
* A server that reaches `kernel_event_wait` after the client's signal misses it and the
  client waits for good, as it does when its server is killed: `kernel.c:701` has no
  timeout. `HeardIsAnswered` assumes the signal was heard and nobody was killed.
* The catalog has the supervisor itself (`kernel.c:127`). Requests, tokens and replies do not
  name their client, so two supervisors take each other's replies. `RepliesMatch` then says
  only that no request is answered twice. A task that uses the `service_request` system
  call (`kernel.c:781`) is such a second client as well.
* A shell told to kill its own task leaves the line in the buffer that the other shell
  shares; a newline there executes it again.
* The handle of a closed session cannot be closed: the close of the session fails
  (`runtime_syscall.c:115`), so the entry is lost.
* An event or mailbox created with a full handle table is lost (`runtime_syscall.c:305`;
  `lost` in `NothingLeaks`).
* A request within `Alignment` of 2^32 is rounded to a small block (`kmem.c:30`), and a
  timer due after the tick counter wraps fires early or late (`runtime_ui.c:161`);
  `LargeEnough` and `OnTimeUnlessWrapped` except exactly these.
* After a publish the back buffer holds the frame before the last
  (`display_surface.c:190`): pixels inside the next dirty rectangle that were not drawn
  again show it. `PresentShowsDrawn` speaks of the pixels that were drawn.

**Fairness.** `Scheduler!Fairness`, only for `SleeperWakes`: the alarm is periodic and
fires again (`TimerFires`); an interrupt pending in the idle window is taken
(`TickInterrupt`), which is what `wfi` with MIE set does; kernel code runs to its end
(`KernelStep`, `SchedulerRun`); a task polls the timer while a tick is pending
(`PollTimer`): the task loops of `kernel.c` poll or yield on each turn. No fairness is
assumed of any other call, nor that a task ever yields.

`Supervisor!SystemSpec`, only for `HeardIsAnswered`: strong fairness of each task's
steps. A task that can run again and again is picked at last, because the scheduler
takes the least vruntime and a yield raises it. A task that blocks instead is not
charged, but then it is out of the queue until a tick or one of these tasks wakes it:
the supervisor sleeps ten ticks a turn, or waits for the server, and the receiver
waits for a message only the shell sends. It is strong because the CPU is taken and
given back between two moments at which a ready task could run.

## 4. Proofs

Each theorem holds for every value of the constants that the module's named assumption
allows, the bounds included; no theorem has any other hypothesis. The invariants of the
runs are seldom inductive; what is proved by induction is named here. `KernelSyncProofs`
extends `Supervisor`, but the assumptions that module makes about its objects are cited
only in the theorems about its tasks.

**Scheduler** (`SchedulerProofs`).

* `TypeCorrect`, `RunsAlone`. `OneRunning` is inductive once it is known that in `waitpid`
  and `task` the current slot is RUNNING.
* `QueueIsTable`, `QueueIsRunnable`, `KeysNeverMove`, `SwitchIsFair`. What the runs check
  speaks of states in which a task runs, while the queue goes wrong and right again inside
  `process_yield`. `QueueInv` says it for every state: slots linked other than the caller's
  are READY; a linked caller is the least of the queue (`CallerLinked`), because only
  `PickSelf` leaves one there, and nobody can get before it until the next sync; and every
  READY slot is linked unless an exit is under way. The keys cannot move because only a
  RUNNING caller is charged and the switch relinks it.
* `PidsStayUnique`, `NoMissedChild`, `NoMissedTick`, `ForegroundAlone`, `DeadStayDead`. Each
  step is first shown to be one of six kinds (a process resumes, blocks, is woken, dies, is
  freed, is created), and each invariant is preserved kind by kind. `NoMissedChild` is the
  subtle one: a child's slot is only freed once it is a zombie, and it only becomes one in a
  step that wakes every parent that could be waiting for it.

**Ready queue** (`ReadyQueueProofs`), for any number of slots and any vruntimes.
`QueueInductive` states the invariant `QueueInv` from which the others follow.

* It is local: it speaks of a node, its parent and its children, never of a whole subtree,
  so that a rotation or a repainting disturbs it at two or three nodes. Two functions that
  are not in the program carry what is global. An interval of keys for each node, with
  those of its children inside it on their sides of its own key, is the search order
  (`Ordered`); a number for each node is the black nodes below it (`Balanced`).
* There are three shapes. Between calls the tree is `Plain`. While an insertion is repaired it
  is `Inserted`: at most the current node is red under a red parent. While a removal is
  repaired it is `Short`: the subtree at `index`, which may be empty and then hangs from
  `above`, has one black node too few. One lemma for each case of the two loops, for either
  side at once, says which shape it leads to.
* The removal of a node with two children, in which the code moves the successor up by
  relinking, is shown to be two simpler changes: the successor, which has one child at
  most, is dropped from its place (`Dropped`), and then the node is renamed to it
  (`Renamed`), which keeps the order because no key lies between theirs (`NextKey`).
* `TreeIsWhole`: walks along the links end, because the intervals get wider on the way up, so
  every node reaches the root. `TreeIsRedBlack`: the black nodes on the way to a node and
  those below it add up to the root's number, so the paths agree. `FixupsProgress`: each
  turn of a loop brings `index` one or two generations nearer to the root or is the last.
  `TreeImplementsReadySet`: the cached leftmost node, as the code updates it on an insertion
  and a removal, is the least member.

**Synchronisation** (`KernelSyncProofs`), with kills and spurious wakes at any moment. One
lemma per building block of the calls (`WaitOn`, `Leave`, `MakeReady`, `SendTurn`) says what
it does to the types and to the set of processes inside a wait. The assumption that the
objects of the four kinds are different is the one thing asked of the constants.

* `CountsWaiters`, `WaitsStaySafe`, `LockExcludes`. `WaitersCounted` is inductive with the
  types: a process that waits again after a wake-up is uncounted and counted in one step,
  and a kill leaves its victim counted. `NoWaitOnFreed` needs it: a destroy goes ahead only
  at a count of zero, and then nobody is inside.
* `NoMessageLost`. `MessageInv` says where every message number is (with one sender, in one
  mailbox, or delivered) and that a process carries a message exactly while it is inside
  the senders' wait, unless the kernel hangs; so a retry after a wake-up sends the message
  it had, once.
* `WakeupsSuffice`. Of each queue: with k things to be had (`Offer`), either k of its waiters
  have been woken and have not gone back to sleep, or nobody is blocked. Each call that takes
  lowers both sides together, each that gives wakes one or all; a spurious wake only helps.
  A process killed between its wake-up and its turn counts as woken (`lost`): it eats the
  wake-up, the one exception that `NoLostWakeup` makes.

**Tasks** (`KernelSyncProofs`, last part). `TasksUseObjects`: each step of the system of
`Supervisor` is a call of `KernelSync` or leaves its state alone, so the theorems above are
true of the kernel's own tasks. `AnswersFit` is `RepliesMatch` for any number of processes,
with servers, receivers and supervisors spawned, killed and woken at any moment.
`ServiceInv` says of any number of clients that what a server holds or has answered was
delivered to it, and that no request is in two of the hands of the servers, the reply
mailbox and the answered ones. With the only client it also says that the request asked is
in one place at most: the request mailbox, the hands of one server, or, as its reply, the
reply mailbox. A server killed with the request in its hands keeps it for ever; then the
client asks nothing more, so no stale reply can meet a later request. It needs `MessageInv`
(a resumed send has a message) and that these tasks destroy no object.

**System calls** (`SyscallProofs`). `HandlesNeverDangle` rests on the fact that handles on one
object are equal, which is what lets the close of the last alias be told by counting equal
entries; one lemma about closing several handles, lowest first, serves both close and the
release of all handles of an owner. `OpenIsReachable` and `CallsLeaveOthersAlone` follow from
the same lemma and the handles' owners.

**File system and image** (`FsImageProofs`).

* `FsTypeCorrect`, `OneWriterThatOwns`, `BytesNeverReturn`, `OpenFilesKeepNodes` from `FsInv`:
  free nodes are clear and open files are on nodes that are in use, or on the root.
* `CheckpointsRestore`, `ExportRestores`, `ImportHalfwayOnlyOnCutNames`,
  `DamageNeverPasses`. The list of used nodes, the running offset, the payload, the walks
  along parents and the Merkle tree are recursive functions; each is first shown to satisfy
  its own definition, then what it computes is shown by induction along the table: the list
  has every used node once, in order, and the payload has each file's bytes at its offset.
  An import is valid because the walk of the image's validation and that of
  `runtime_fs_validate` are the same climb, and the names it copies collide exactly when
  two siblings are equal in 15 characters. Damage is noticed because the ten fields of a
  record determine its hash, every byte of the payload lies between two running offsets,
  and each number of the header is bound by a sum to the others.
* `AlwaysATree`. `TreeInv` gives every node a rank above its parent's; a rename may raise
  the ranks of a whole subtree, which is well defined because `fs_parent_chain_contains`
  was false. It speaks of the root's slot, not of the root's node, so that it also holds
  after `//` has removed or renamed that node. Walks end within the table by the pigeonhole
  principle.

Paths are any sequences of names, empty pieces included. Export is limited to 16 nodes
(`FsImageAssumption`), as `runtime_fs_image_next_pow2` is used for.

**Heap** (`KmemProofs`): `ArenaTiled`, `FreeNeighboursMerged`, `StatisticsAddUp`,
`RequestsGranted` from `KmemInv`: the blocks lie side by side up to the end of the arena, no
two free ones are neighbours, and the counters are what the walk over the list adds up to.
Splitting, merging with the next and with the previous block are each the replacement of a
piece of the list by one that fills the same bytes; sums over the list split at that piece.

**UI** (`RuntimeScreenProofs`): `QueueAndTimersKept` is the refinement of `UiEvents`, call
by call: a push appends and a pop takes the head wherever the ring wraps; arming replaces
the timer of that owner and token, for which there is then room; collecting takes the due
timers of least rank, which is all of them or fills the queue, in an order that has each
once. `UiInv` says that no owner and token has two entries and that an entry's tick is that
of the time it is really due, from which `TimersOnTime` follows by division.

**Display** (`RuntimeScreenProofs`): `DamageIsLeast` and `PresentShowsAll` from
`DisplayInv`: what was drawn lies inside the dirty rectangle, each side of which was drawn
to, and the back buffer has it. The proof corrected the property: that every row and column
of the rectangle was drawn to, as it was stated first, holds only on a screen two pixels
wide.

`NatLemmas` states induction about sets of natural numbers, so that it can be cited with any
set: that is what makes recursive functions provable here.

Only model-checked:

* `SleeperWakes` and `HeardIsAnswered`: liveness under fairness is out of the prover's reach.
* The disagreements, which are counterexamples.

## 5. Abstractions and what is not modelled

Stack contents, saved registers, exit codes, names and diagnostics registers are left out
of `Scheduler`; `scheduler_validate_switch_targets` and the stack checks are about memory
that the model does not have. Ticks and vruntime are 64-bit in the code and unbounded
numbers here. In `KernelSync` objects exist at the start; a creation that fails for want of
memory is a failed call of `Kmem` and leaves nothing behind. `process_kill` of the caller
is `Exit` in `Scheduler`. A killed process's slot in `KernelSync` is not reused. In
`RuntimeFs` the 32-bit sum of offset and size is not at its limit, and in `Display`
coordinates stay away from the ends of `int32_t`.

In `Supervisor` the operator spawns the tasks of the catalog that use its objects: servers,
receivers and supervisors. The event waiter waits on an event of its own, and the other tasks
of the catalog only count and yield.

Not modelled: preemption, which is off in this target (`preempt_target.c`); drivers, boot
and the context switch, which are register access and assembly; the shell's parsing and
its inspection commands; glyph bitmaps, the wordmark's layout and the panel's
initialisation; the look-ups of `runtime_resource.c`, `runtime_catalog.c` and
`runtime_loader.c` over constant tables; `runtime_display.c`, which only forwards; the
file-system stress script of `kernel.c`, whose calls are those of `RuntimeFs`.

## 6. Plan

Done: every module of section 2 with its runs, and the theorems of section 4, which state
every safety property that a run checks. What is left is liveness, which stays with TLC.
