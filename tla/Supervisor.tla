----------------------------- MODULE Supervisor -----------------------------
(***************************************************************************)
(* The system tasks of kernel/kernel.c over the objects of KernelSync: the *)
(* supervisor, which runs the management shell of kernel/runtime_manage.c  *)
(* and is the client of the service; the service server; and the mailbox   *)
(* receiver, which polls the same shell.                                   *)
(*                                                                         *)
(* Scheduling is cooperative: a task keeps the CPU until it blocks, yields *)
(* or sleeps.  A step is a call of KernelSync, a key that the shell reads, *)
(* or a step of a task's loop.  A command is whatever the operator means   *)
(* by the line; commands that leave these tasks and objects alone are one, *)
(* and so is the switch of the demo profile, which may have nothing to do  *)
(* at any time.                                                            *)
(***************************************************************************)
EXTENDS KernelSync

CONSTANTS
  LineCapacity,      (* RUNTIME_MANAGE_LINE_CAPACITY                       *)
  KeysPerPoll,       (* keys read in one poll of the UART                  *)
  Spawnable          (* roles of g_runtime_process_catalog that the        *)
                     (* operator spawns                                    *)

ASSUME SupervisorAssumption ==
  /\ LineCapacity \in Nat \ {0} /\ KeysPerPoll \in Nat
  /\ NumProcs >= 3
  /\ Spawnable \subseteq {"server", "receiver", "supervisor"}

\* g_service_request_mailbox, g_service_reply_mailbox, g_worker_mailbox,
\* g_service_request_event, g_service_reply_semaphore and
\* g_service_state_mutex
ASSUME ObjectsAssumption ==
  /\ Mailboxes = {"request", "reply", "worker"}
  /\ Events = {"requested"}
  /\ Semaphores = {"replied"} /\ InitialCount = 0 /\ MaxCount = 1
  /\ Mutexes = {"state"}

\* The slots of the tasks that kernel_main spawns
Supervisor0 == 0
Server0 == 1
Receiver0 == 2

VARIABLES
  role,        \* which task a process runs, "none" before it is spawned
  pc,          \* where its task is
  cpu,         \* who runs, NoProc at a switch
  servicePid,  \* g_service_pid
  keys,        \* keys a task has read in its poll
  line,        \* g_runtime_management_line_state.length
  taken,       \* the request that each server is working on
  reply,       \* the request that the message in the reply mailbox answers
  asking,      \* the request each client waits for, or NoMessage
  heard,       \* history: a server was waiting when the only client signalled
  answered     \* history: requests whose reply a client has received

shell == <<keys, line>>
service == <<taken, reply, asking, heard, answered>>
tasks == <<role, servicePid>>
sync == <<waiters, objects, count, owner, mail, history, hung>>
systemVars == <<vars, pc, cpu, shell, service, tasks>>

Alive(p) == role[p] # "none" /\ p \notin Dead
Servers == {p \in Proc : role[p] = "server" /\ Alive(p)}

\* A process runs only if it is ready and the CPU is free for it, and from
\* where its task is.
Runs(p) == run[p] = "ready" /\ cpu \in {p, NoProc}
At(p, r, where) == role[p] = r /\ pc[p] = where

\* p goes on at this place, or stays inside the call that made it wait; it
\* keeps the CPU unless it waits or yields.
GoOn(p, to, yields) ==
  LET waits == waiting'[p] # NoQueue
  IN  /\ pc' = [pc EXCEPT ![p] = IF waits THEN @ ELSE to]
      /\ cpu' = IF waits \/ yields THEN NoProc ELSE p

\* A step of p that makes no call
Idle(p, to, yields) ==
  /\ UNCHANGED <<procs, sync>>
  /\ GoOn(p, to, yields)

\* bound: a request leaves room for its reply, and a message to the worker
\* mailbox for a request as well
Room(b) == sent + (CASE b = "worker" -> 3 [] b = "request" -> 2 [] b = "reply" -> 1) <= MaxMessages
Send(p, b) ==
  \/ Room(b) /\ CallSend(p, b)
  \/ ResumeSend(p, b)
EventWait(p, o) == CallEventWait(p, o) \/ EventWaitReturns(p, o)

-----------------------------------------------------------------------------
(* process_service_server.                                                 *)

ServerWaits(p) ==
  /\ At(p, "server", "wait")
  /\ EventWait(p, "requested")
  /\ GoOn(p, "receive", FALSE)
  /\ UNCHANGED <<shell, service, tasks>>

\* kernel_mailbox_receive of the request (mutated form: it does not wait
\* for one)
TryTake(p) ==
  /\ At(p, "server", "receive")
  /\ IF mail["request"] # NoMessage THEN Receive(p, "request") ELSE UNCHANGED <<procs, sync>>
Take(p) ==
  /\ At(p, "server", "receive")
  /\ Receive(p, "request")

ServerReceives(p) ==
  /\ Take(p)
  /\ GoOn(p, "lock", FALSE)
  /\ taken' = IF mail["request"] # NoMessage
              THEN [taken EXCEPT ![p] = mail["request"]] ELSE taken
  /\ UNCHANGED <<shell, reply, asking, heard, answered, tasks>>

\* The request is added up under the mutex.
ServerLocks(p) ==
  /\ At(p, "server", "lock")
  /\ Lock(p, "state")
  /\ GoOn(p, "unlock", FALSE)
  /\ UNCHANGED <<shell, service, tasks>>

ServerUnlocks(p) ==
  /\ At(p, "server", "unlock")
  /\ Unlock(p, "state")
  /\ GoOn(p, "reply", FALSE)
  /\ UNCHANGED <<shell, service, tasks>>

ServerReplies(p) ==
  /\ At(p, "server", "reply")
  /\ Send(p, "reply")
  /\ GoOn(p, "release", FALSE)
  /\ IF waiting'[p] = NoQueue
     THEN reply' = taken[p] /\ taken' = [taken EXCEPT ![p] = NoMessage]
     ELSE UNCHANGED <<reply, taken>>
  /\ UNCHANGED <<shell, asking, heard, answered, tasks>>

\* kernel_semaphore_release, which a full semaphore refuses (mutated form:
\* it is forgotten)
NoPost(p) == UNCHANGED <<procs, sync>>
Post(p) ==
  \/ Release(p, "replied")
  \/ count["replied"] = MaxCount /\ UNCHANGED <<procs, sync>>

ServerReleases(p) ==
  /\ At(p, "server", "release")
  /\ Post(p)
  /\ GoOn(p, "wait", TRUE)
  /\ UNCHANGED <<shell, service, tasks>>

Server(p) ==
  \/ ServerWaits(p) \/ ServerReceives(p) \/ ServerLocks(p) \/ ServerUnlocks(p)
  \/ ServerReplies(p) \/ ServerReleases(p)

-----------------------------------------------------------------------------
(* The management shell.                                                   *)

Shells == {"supervisor", "receiver"}
\* Where a task goes on when its poll ends
Polled(p) == IF role[p] = "supervisor" THEN "demo" ELSE "recv"

\* The line has no room for a character and the end of the string.
Full == line >= LineCapacity - 1

\* runtime_manage_line_push_char of a character that is not the newline
Push(p, ch) ==
  /\ line' = CASE ch = "erase"            -> IF line # 0 THEN line - 1 ELSE 0
               [] ch = "char" /\ Full     -> 0
               [] ch = "char" /\ ~Full    -> line + 1
  /\ Idle(p, "poll", FALSE)
  /\ UNCHANGED tasks

\* runtime_management_spawn_named_process by p: the new task is at the head
\* of its loop.
Spawn(p, q, r) ==
  /\ role[q] = "none"
  /\ role' = [role EXCEPT ![q] = r]
  /\ servicePid' = IF r = "server" THEN q ELSE servicePid
  /\ pc' = [pc EXCEPT ![p] = "poll", ![q] = IF r = "server" THEN "wait" ELSE "poll"]
  /\ cpu' = p
  /\ UNCHANGED <<procs, sync>>

\* runtime_manage_execute of a command that does not wait
Command(p) ==
  \/ /\ \/ UNCHANGED <<procs, sync>>
        \/ \E q \in Proc \ {p} : Alive(q) /\ Kill(q)
        \/ \E q \in Proc : Wake(q)
     /\ GoOn(p, "poll", FALSE)
     /\ UNCHANGED tasks
  \/ \E q \in Proc, r \in Spawnable : Spawn(p, q, r)

\* process_kill of the caller is process_exit, which never returns: the line
\* that asked for it stays where it is.
KillSelf(p) == Kill(p) /\ cpu' = NoProc /\ UNCHANGED pc

\* The newline: an empty line is no command; the others are executed, and
\* only then is the line emptied.
Enter(p) ==
  \/ line = 0 /\ Idle(p, "poll", FALSE) /\ UNCHANGED <<line, tasks>>
  \/ line # 0 /\ Command(p) /\ line' = 0
  \/ line # 0 /\ KillSelf(p) /\ UNCHANGED <<line, tasks>>
  \/ line # 0 /\ Room("worker") /\ Idle(p, "cmdsend", FALSE) /\ UNCHANGED <<line, tasks>>
  \/ line # 0 /\ Idle(p, "cmdrecv", FALSE) /\ UNCHANGED <<line, tasks>>

\* One key of runtime_management_poll_uart_commands
Key(p) ==
  /\ \E r \in Shells : At(p, r, "poll")
  /\ keys[p] < KeysPerPoll
  /\ keys' = [keys EXCEPT ![p] = @ + 1]
  /\ \/ Enter(p)
     \/ \E ch \in {"char", "erase"} : Push(p, ch)
  /\ UNCHANGED service

PollEnds(p) ==
  /\ \E r \in Shells : At(p, r, "poll")
  /\ keys' = [keys EXCEPT ![p] = 0]
  /\ Idle(p, Polled(p), FALSE)
  /\ UNCHANGED <<line, service, tasks>>

\* "mailbox send" and "mailbox recv", which wait inside
\* runtime_manage_execute
MailCommand(p) ==
  /\ \/ (\E r \in Shells : At(p, r, "cmdsend")) /\ Send(p, "worker")
     \/ (\E r \in Shells : At(p, r, "cmdrecv")) /\ Receive(p, "worker")
  /\ GoOn(p, "poll", FALSE)
  /\ line' = IF waiting'[p] = NoQueue THEN 0 ELSE line
  /\ UNCHANGED <<keys, service, tasks>>

\* process_mailbox_receiver, after its poll
Receiver(p) ==
  /\ At(p, "receiver", "recv")
  /\ Receive(p, "worker")
  /\ GoOn(p, "poll", TRUE)
  /\ UNCHANGED <<shell, service, tasks>>

-----------------------------------------------------------------------------
(* The supervisor after its poll: runtime_management_run_demo_profile, and *)
(* the process_sleep at the end of its loop.                               *)

\* The profile is off or has nothing to send, or a "mailbox send" is due.
\* The tasks it wakes are not among these.
DemoSends(p) ==
  /\ At(p, "supervisor", "demo")
  /\ \/ Send(p, "worker") /\ GoOn(p, "service", FALSE)
     \/ Fresh(p) /\ Idle(p, "service", FALSE)
  /\ UNCHANGED <<shell, service, tasks>>

\* runtime_management_service_round_trip, which may be due whenever
\* g_service_pid is set, up to the signal: with a provider that is alive,
\* runtime_service_request_sync sends the request.
ProviderAlive == servicePid # NoProc /\ Alive(servicePid)

ClientSends(p) ==
  /\ At(p, "supervisor", "service")
  /\ ProviderAlive \/ ~Fresh(p)
  /\ Send(p, "request")
  /\ GoOn(p, "signal", FALSE)
  /\ asking' = IF waiting'[p] = NoQueue
               THEN [asking EXCEPT ![p] = mail'["request"]] ELSE asking
  /\ UNCHANGED <<shell, taken, reply, heard, answered, tasks>>

\* None is due, or there is only the ONESHOT child to wait for, which is one
\* more sleep.
NoRoundTrip(p) ==
  /\ At(p, "supervisor", "service") /\ Fresh(p)
  /\ Idle(p, "poll", TRUE)
  /\ UNCHANGED <<shell, service, tasks>>

\* No supervisor but the first was ever spawned.  Requests, replies and the
\* semaphore's tokens do not name the client they belong to, so that two
\* clients take each other's.
OnlyClient == \A p \in Proc : role[p] = "supervisor" => p = Supervisor0

Listening(s) == (pc[s] = "wait" /\ waiting[s] # NoQueue) \/ pc[s] = "receive"

ClientSignals(p) ==
  /\ At(p, "supervisor", "signal")
  /\ Signal(p, "requested")
  /\ GoOn(p, "acquire", FALSE)
  /\ heard' = (OnlyClient /\ \E s \in Servers : Listening(s))
  /\ UNCHANGED <<shell, taken, reply, asking, answered, tasks>>

ClientAcquires(p) ==
  /\ At(p, "supervisor", "acquire")
  /\ Acquire(p, "replied")
  /\ GoOn(p, "response", FALSE)
  /\ UNCHANGED <<shell, service, tasks>>

\* The response, after which nothing is left but the sleep
ClientReceives(p) ==
  /\ At(p, "supervisor", "response")
  /\ Receive(p, "reply")
  /\ LET got == waiting'[p] = NoQueue
     IN  /\ pc' = [pc EXCEPT ![p] = IF got THEN "poll" ELSE @]
         /\ cpu' = NoProc
         /\ asking' = IF got THEN [asking EXCEPT ![p] = NoMessage] ELSE asking
         /\ heard' = (heard /\ ~got)
         /\ reply' = IF got THEN NoMessage ELSE reply
         /\ answered' = IF got THEN answered \cup {reply} ELSE answered
  /\ UNCHANGED <<shell, taken, tasks>>

Supervise(p) ==
  \/ DemoSends(p) \/ ClientSends(p) \/ NoRoundTrip(p) \/ ClientSignals(p)
  \/ ClientAcquires(p) \/ ClientReceives(p)

-----------------------------------------------------------------------------
\* kernel_main and kernel_spawn_single_foreground_demo
SystemInit ==
  /\ Init
  /\ role = [p \in Proc |-> CASE p = Supervisor0 -> "supervisor" [] p = Server0 -> "server"
                              [] p = Receiver0 -> "receiver" [] OTHER -> "none"]
  /\ pc = [p \in Proc |-> IF p \in {Supervisor0, Receiver0} THEN "poll" ELSE "wait"]
  /\ cpu = NoProc
  /\ servicePid = Server0
  /\ keys = [p \in Proc |-> 0] /\ line = 0
  /\ taken = [p \in Proc |-> NoMessage] /\ reply = NoMessage
  /\ asking = [p \in Proc |-> NoMessage] /\ heard = FALSE /\ answered = {}

TaskStep(p) ==
  /\ Runs(p)
  /\ \/ PollEnds(p) \/ Key(p) \/ MailCommand(p)
     \/ Server(p) \/ Receiver(p) \/ Supervise(p)

SystemNext == \E p \in Proc : TaskStep(p)

\* A task that is ready again and again is picked at last: the scheduler
\* takes the least vruntime, a yield raises it, and a task that blocks
\* instead, which is not charged, is out of the way until a tick or one of
\* these tasks wakes it.  The rest of the system only takes CPU time.
SystemSpec ==
  /\ SystemInit /\ [][SystemNext]_systemVars
  /\ \A p \in Proc : SF_systemVars(TaskStep(p))

-----------------------------------------------------------------------------
(* Properties.                                                             *)

(* A response answers a request that a client made and that no response    *)
(* has answered before, and as long as only the first supervisor was ever  *)
(* spawned it answers the request the client waits for, whatever servers   *)
(* were woken, killed or spawned in the meantime                           *)
(* (runtime_service_request_sync returns what is in the reply mailbox).    *)
RepliesMatch ==
  [][\A p \in Proc : asking[p] # NoMessage /\ asking'[p] = NoMessage =>
       /\ reply \in delivered \ answered
       /\ OnlyClient => reply = asking[p]]_systemVars

(* The request of the only client, signalled to a waiting server, is       *)
(* answered in the end, unless a task is killed or a second client spawned *)
(* (kernel_semaphore_acquire in runtime_service_request_sync has no        *)
(* timeout).                                                               *)
HeardIsAnswered ==
  (asking[Supervisor0] # NoMessage /\ heard /\ Dead = {} /\ OnlyClient)
    ~> (asking[Supervisor0] = NoMessage \/ Dead # {} \/ ~OnlyClient)
=============================================================================
