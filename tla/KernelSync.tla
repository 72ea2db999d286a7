------------------------------ MODULE KernelSync ------------------------------
(***************************************************************************)
(* The synchronisation objects of the kernel: kernel/wait_queue.c,         *)
(* event.c, semaphore.c, mutex.c and mailbox.c, used by NumProcs processes *)
(* in any order.                                                           *)
(*                                                                         *)
(* The scheduler is cooperative, so a call runs without interruption until *)
(* kernel_wait_queue_wait yields: one action is one turn of a call's       *)
(* while loop, from the call (or from the return of the wait) to the next  *)
(* wait or to the call's end.  Which ready process runs next is left open, *)
(* and so are the calls of process_kill and process_wake from the          *)
(* management shell.  The try_ variants are the first turn of the blocking *)
(* calls when they succeed, and change nothing when they fail.             *)
(***************************************************************************)
EXTENDS Naturals, FiniteSets

CONSTANTS
  NumProcs,      (* processes, numbered by slot                            *)
  Semaphores, Mutexes, Mailboxes, Events,  (* the objects, disjoint sets   *)
  InitialCount,  (* initial_count and max_count of the semaphores          *)
  MaxCount,
  MaxMessages,   (* bound: messages sent in all                            *)
  MaxKills       (* bound: processes killed                                *)

ASSUME SyncAssumption ==
  /\ NumProcs \in Nat \ {0}
  /\ MaxCount \in Nat \ {0}
  /\ InitialCount \in 0 .. MaxCount
  /\ MaxMessages \in Nat
  /\ MaxKills \in Nat
  /\ Semaphores \cap Mutexes = {} /\ Semaphores \cap Events = {} /\ Mutexes \cap Events = {}
  /\ Mailboxes \cap (Semaphores \cup Mutexes \cup Events) = {}

Proc == 0 .. (NumProcs - 1)
NoProc == NumProcs                  \* owner_pid 0
Simple == Semaphores \cup Mutexes \cup Events  \* objects with one wait queue
Objects == Simple \cup Mailboxes
QueueOf(o) == <<"waiters", o>>
Senders(b) == <<"senders", b>>
Receivers(b) == <<"receivers", b>>
Queues == {QueueOf(o) : o \in Simple}
            \cup {Senders(b) : b \in Mailboxes} \cup {Receivers(b) : b \in Mailboxes}
NoQueue == <<"none", "none">>
NoMessage == 0                      \* has_message is clear
Message == 1 .. MaxMessages

VARIABLES
  run,        \* "ready", "blocked", "dead", or "lost": killed after a wake-up
  waiting,    \* the queue whose kernel_wait_queue_wait a process is inside
  arg,        \* the message a process is sending
  waiters,    \* waiter_count of each wait queue
  queueOk,    \* the wait queues whose magic is intact
  objectOk,   \* the objects whose magic is intact
  count,      \* of the semaphore
  owner,      \* owner_pid of the mutex
  mail,       \* the mailbox's message
  holders,    \* history: processes between their lock and their unlock
  sent,       \* history: messages numbered so far
  delivered,  \* history: messages received
  hung        \* a loop around a wait that no longer blocks

procs == <<run, waiting, arg>>
objects == <<queueOk, objectOk>>
history == <<holders, sent, delivered>>
vars == <<procs, waiters, objects, count, owner, mail, history, hung>>

-----------------------------------------------------------------------------
(* The wait queue.                                                         *)

\* p may take a turn of a call that waits on q.
Turn(p, q) == ~hung /\ run[p] = "ready" /\ waiting[p] \in {NoQueue, q}
Fresh(p) == ~hung /\ run[p] = "ready" /\ waiting[p] = NoQueue

\* waiter_count once the wait that p may come from has returned
\* (mutated form: the decrement is forgotten)
LeftUncounted(p, q) == waiters[q]
Left(p, q) ==
  IF waiting[p] = q /\ waiters[q] # 0 THEN waiters[q] - 1 ELSE waiters[q]

\* The call is over.
Leave(p, q) ==
  /\ waiters' = [waiters EXCEPT ![q] = Left(p, q)]
  /\ waiting' = [waiting EXCEPT ![p] = NoQueue]

\* kernel_wait_queue_wait; on a queue that was destroyed it returns at once,
\* and the while loop around it never ends.
WaitOn(p, q) ==
  \/ /\ q \in queueOk
     /\ waiters' = [waiters EXCEPT ![q] = Left(p, q) + 1]
     /\ waiting' = [waiting EXCEPT ![p] = q]
     /\ run' = [run EXCEPT ![p] = "blocked"]
     /\ hung' = FALSE
  \/ /\ q \notin queueOk
     /\ hung' = TRUE
     /\ UNCHANGED <<run, waiting, waiters>>

BlockedOn(q) == {r \in Proc : run[r] = "blocked" /\ waiting[r] = q}

\* process_wake_first_channel, called by p under the waiter_count check of
\* the objects (mutated form: it wakes nobody)
ScanDistance(p, r) == (r + NumProcs - p - 1) % NumProcs
WakesNobody(p, q) == {}
WakesOne(p, q) ==
  {r \in BlockedOn(q) :
     /\ q \in queueOk /\ waiters[q] # 0
     /\ \A s \in BlockedOn(q) : ScanDistance(p, r) <= ScanDistance(p, s)}

MakeReady(W) == run' = [r \in Proc |-> IF r \in W THEN "ready" ELSE run[r]]

-----------------------------------------------------------------------------
(* The objects.                                                            *)

\* One turn of kernel_semaphore_acquire
Acquire(p, o) ==
  /\ o \in objectOk
  /\ Turn(p, QueueOf(o))
  /\ \/ /\ count[o] # 0
        /\ count' = [count EXCEPT ![o] = @ - 1]
        /\ Leave(p, QueueOf(o))
        /\ UNCHANGED <<run, hung>>
     \/ count[o] = 0 /\ WaitOn(p, QueueOf(o)) /\ UNCHANGED count
  /\ UNCHANGED <<arg, objects, owner, mail, history>>

\* kernel_semaphore_release
Release(p, o) ==
  /\ o \in objectOk
  /\ Fresh(p)
  /\ count[o] # MaxCount
  /\ count' = [count EXCEPT ![o] = @ + 1]
  /\ MakeReady(WakesOne(p, QueueOf(o)))
  /\ UNCHANGED <<waiting, arg, waiters, objects, owner, mail, history, hung>>

\* One turn of kernel_mutex_lock (mutated form: kernel_mutex_try_lock does
\* not look at the owner)
LockAnyway(p, o) ==
  /\ o \in objectOk
  /\ Turn(p, QueueOf(o))
  /\ owner' = [owner EXCEPT ![o] = p]
  /\ holders' = holders \cup {<<p, o>>}
  /\ Leave(p, QueueOf(o))
  /\ UNCHANGED <<run, hung, arg, objects, count, mail, sent, delivered>>
Lock(p, o) ==
  /\ o \in objectOk
  /\ Turn(p, QueueOf(o))
  /\ \/ /\ owner[o] = NoProc
        /\ owner' = [owner EXCEPT ![o] = p]
        /\ holders' = holders \cup {<<p, o>>}
        /\ Leave(p, QueueOf(o))
        /\ UNCHANGED <<run, hung>>
     \/ owner[o] # NoProc /\ WaitOn(p, QueueOf(o)) /\ UNCHANGED <<owner, holders>>
  /\ UNCHANGED <<arg, objects, count, mail, sent, delivered>>

\* kernel_mutex_unlock
Unlock(p, o) ==
  /\ o \in objectOk
  /\ Fresh(p)
  /\ owner[o] = p
  /\ owner' = [owner EXCEPT ![o] = NoProc]
  /\ holders' = holders \ {<<p, o>>}
  /\ MakeReady(WakesOne(p, QueueOf(o)))
  /\ UNCHANGED <<waiting, arg, waiters, objects, count, mail, sent, delivered, hung>>

\* One turn of kernel_mailbox_send for the message msg
\* (mutated form: has_message is not checked)
SendOverwriting(p, b, msg) ==
  /\ mail' = [mail EXCEPT ![b] = msg]
  /\ Leave(p, Senders(b))
  /\ arg' = [arg EXCEPT ![p] = NoMessage]
  /\ MakeReady(WakesOne(p, Receivers(b)))
  /\ UNCHANGED hung
SendTurn(p, b, msg) ==
  \/ /\ mail[b] = NoMessage
     /\ mail' = [mail EXCEPT ![b] = msg]
     /\ Leave(p, Senders(b))
     /\ arg' = [arg EXCEPT ![p] = NoMessage]
     /\ MakeReady(WakesOne(p, Receivers(b)))
     /\ UNCHANGED hung
  \/ /\ mail[b] # NoMessage
     /\ WaitOn(p, Senders(b))
     /\ arg' = [arg EXCEPT ![p] = msg]
     /\ UNCHANGED mail

CallSend(p, b) ==
  /\ b \in objectOk
  /\ Fresh(p)
  /\ sent < MaxMessages
  /\ sent' = sent + 1
  /\ SendTurn(p, b, sent + 1)
  /\ UNCHANGED <<objects, count, owner, holders, delivered>>

ResumeSend(p, b) ==
  /\ ~Fresh(p) /\ Turn(p, Senders(b))
  /\ SendTurn(p, b, arg[p])
  /\ UNCHANGED <<objects, count, owner, history>>

\* One turn of kernel_mailbox_receive
Receive(p, b) ==
  /\ b \in objectOk
  /\ Turn(p, Receivers(b))
  /\ \/ /\ mail[b] # NoMessage
        /\ mail' = [mail EXCEPT ![b] = NoMessage]
        /\ delivered' = delivered \cup {mail[b]}
        /\ Leave(p, Receivers(b))
        /\ MakeReady(WakesOne(p, Senders(b)))
        /\ UNCHANGED hung
     \/ mail[b] = NoMessage /\ WaitOn(p, Receivers(b)) /\ UNCHANGED <<mail, delivered>>
  /\ UNCHANGED <<arg, objects, count, owner, holders, sent>>

\* kernel_event_wait, and its return
CallEventWait(p, o) ==
  /\ o \in objectOk
  /\ Fresh(p)
  /\ WaitOn(p, QueueOf(o))
  /\ UNCHANGED <<arg, objects, count, owner, mail, history>>

EventWaitReturns(p, o) ==
  /\ ~Fresh(p) /\ Turn(p, QueueOf(o))
  /\ Leave(p, QueueOf(o))
  /\ UNCHANGED <<run, arg, objects, count, owner, mail, history, hung>>

\* kernel_event_signal
Signal(p, o) ==
  /\ o \in objectOk
  /\ Fresh(p)
  /\ MakeReady(BlockedOn(QueueOf(o)))
  /\ UNCHANGED <<waiting, arg, waiters, objects, count, owner, mail, history, hung>>

-----------------------------------------------------------------------------
(* Destruction, and interference from the management shell.                *)

\* kernel_wait_queue_destroy refuses (mutated form: it never does)
NeverInUse(q) == FALSE
InUse(q) == waiters[q] # 0

\* kernel_semaphore_destroy, kernel_event_destroy and kernel_mutex_destroy
Destroy(p, o) ==
  /\ Fresh(p)
  /\ o \in objectOk
  /\ o \in Mutexes => owner[o] = NoProc
  /\ ~InUse(QueueOf(o))
  /\ queueOk' = queueOk \ {QueueOf(o)}
  /\ objectOk' = objectOk \ {o}
  /\ UNCHANGED <<procs, waiters, count, owner, mail, history, hung>>

\* kernel_mailbox_destroy: the senders' queue goes first, and stays gone
\* when the receivers' queue then refuses.
DestroyMailbox(p, b) ==
  /\ Fresh(p)
  /\ b \in objectOk
  /\ mail[b] = NoMessage
  /\ Senders(b) \in queueOk /\ ~InUse(Senders(b))
  /\ IF InUse(Receivers(b))
     THEN queueOk' = queueOk \ {Senders(b)} /\ UNCHANGED objectOk
     ELSE /\ queueOk' = queueOk \ {Senders(b), Receivers(b)}
          /\ objectOk' = objectOk \ {b}
  /\ UNCHANGED <<procs, waiters, count, owner, mail, history, hung>>

\* process_kill of p by another process: nothing is unlocked or uncounted
Dead == {p \in Proc : run[p] \in {"dead", "lost"}}
Kill(p) ==
  /\ ~hung
  /\ Cardinality(Dead) < MaxKills
  /\ p \notin Dead
  /\ run' = [run EXCEPT ![p] = IF run[p] = "ready" /\ waiting[p] # NoQueue
                               THEN "lost" ELSE "dead"]
  /\ UNCHANGED <<waiting, arg, waiters, objects, count, owner, mail, history, hung>>

\* process_wake of a process that is blocked in a wait
Wake(p) ==
  /\ ~hung
  /\ run[p] = "blocked"
  /\ run' = [run EXCEPT ![p] = "ready"]
  /\ UNCHANGED <<waiting, arg, waiters, objects, count, owner, mail, history, hung>>

\* All objects have just been created.
Init ==
  /\ run = [p \in Proc |-> "ready"]
  /\ waiting = [p \in Proc |-> NoQueue]
  /\ arg = [p \in Proc |-> NoMessage]
  /\ waiters = [q \in Queues |-> 0]
  /\ queueOk = Queues /\ objectOk = Objects
  /\ count = [o \in Semaphores |-> InitialCount]
  /\ owner = [o \in Mutexes |-> NoProc]
  /\ mail = [b \in Mailboxes |-> NoMessage]
  /\ holders = {} /\ sent = 0 /\ delivered = {}
  /\ hung = FALSE

ProcStep(p) ==
  \/ \E o \in Semaphores : Acquire(p, o) \/ Release(p, o)
  \/ \E o \in Mutexes : Lock(p, o) \/ Unlock(p, o)
  \/ \E b \in Mailboxes : CallSend(p, b) \/ ResumeSend(p, b) \/ Receive(p, b)
  \/ \E o \in Events : CallEventWait(p, o) \/ EventWaitReturns(p, o) \/ Signal(p, o)
  \/ \E o \in Simple : Destroy(p, o)
  \/ \E b \in Mailboxes : DestroyMailbox(p, b)

Next ==
  \/ \E p \in Proc : ProcStep(p)
  \/ \E p \in Proc : Kill(p)
  \/ \E p \in Proc : Wake(p)

Spec == Init /\ [][Next]_vars

-----------------------------------------------------------------------------
(* Properties.                                                             *)

(* The fields of the objects and the state of their users stay in range;   *)
(* in particular a semaphore's count stays between 0 and max_count.        *)
TypeOK ==
  /\ run \in [Proc -> {"ready", "blocked", "dead", "lost"}]
  /\ waiting \in [Proc -> Queues \cup {NoQueue}]
  /\ arg \in [Proc -> Message \cup {NoMessage}]
  /\ waiters \in [Queues -> Nat]
  /\ queueOk \in SUBSET Queues /\ objectOk \in SUBSET Objects
  /\ count \in [Semaphores -> 0 .. MaxCount]
  /\ owner \in [Mutexes -> Proc \cup {NoProc}]
  /\ mail \in [Mailboxes -> Message \cup {NoMessage}]
  /\ holders \in SUBSET (Proc \X Mutexes)
  /\ sent \in 0 .. MaxMessages /\ delivered \in SUBSET Message
  /\ hung \in BOOLEAN

Inside(q) == {p \in Proc : waiting[p] = q}
Woken(q) == {p \in Inside(q) : run[p] \in {"ready", "lost"}}

(* waiter_count is the number of processes inside the wait, through wakes, *)
(* spurious wakes, and turns that wait again; a killed waiter is counted   *)
(* for ever, so that its queue is never destroyed under it.                *)
WaitersCounted == \A q \in Queues : waiters[q] = Cardinality(Inside(q))

(* No wake-up is lost: while something is to be had (a token, the lock, a  *)
(* free slot, a message), either nobody is blocked on it or enough of the  *)
(* waiters have been woken to take all of it.  Only the kill of a process  *)
(* that was woken and has not run yet ("lost") can eat a wake-up.          *)
NoLostWakeup ==
  /\ \A o \in Semaphores :
       BlockedOn(QueueOf(o)) # {} => Cardinality(Woken(QueueOf(o))) >= count[o]
  /\ \A o \in Mutexes :
       BlockedOn(QueueOf(o)) # {} /\ owner[o] = NoProc => Woken(QueueOf(o)) # {}
  /\ \A b \in Mailboxes :
       /\ BlockedOn(Senders(b)) # {} /\ mail[b] = NoMessage => Woken(Senders(b)) # {}
       /\ BlockedOn(Receivers(b)) # {} /\ mail[b] # NoMessage => Woken(Receivers(b)) # {}

(* Mutual exclusion: at most one process is between its kernel_mutex_lock  *)
(* and its kernel_mutex_unlock, and the mutex knows which.                 *)
MutexExclusive ==
  \A o \in Mutexes, p \in Proc : <<p, o>> \in holders <=> owner[o] = p

(* A message is in exactly one place: in the hands of its (blocked or      *)
(* retrying) sender, in a mailbox, or delivered; none is overwritten,      *)
(* duplicated by a retry, or received twice.                               *)
Places(msg) ==
  {<<"sender", p>> : p \in {r \in Proc : arg[r] = msg}}
    \cup {<<"mailbox", b>> : b \in {c \in Mailboxes : mail[c] = msg}}
    \cup {<<"delivered", d>> : d \in delivered \cap {msg}}
MessagesOnce == \A msg \in 1 .. sent : Cardinality(Places(msg)) = 1

(* No process returns from a wait into a freed wait queue.                 *)
NoWaitOnFreed == \A p \in Proc : waiting[p] # NoQueue => waiting[p] \in queueOk
=============================================================================
