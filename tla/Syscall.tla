------------------------------- MODULE Syscall -------------------------------
(***************************************************************************)
(* The handle table of kernel/runtime_syscall.c, the service sessions of   *)
(* kernel/runtime_service.c and the operations of kernel/kernel.c behind   *)
(* them: processes hold typed handles on processes, events, mailboxes,     *)
(* open files and service sessions, duplicate and close them, and the last *)
(* alias to go takes the object with it.                                   *)
(*                                                                         *)
(* A call of runtime_syscall_dispatch that changes state is one action of  *)
(* its caller; the calls that only look something up, and a call that is   *)
(* refused and changes nothing, are no step.  What a file holds is in      *)
(* RuntimeFs, how a request is served in Supervisor.                       *)
(***************************************************************************)
EXTENDS Naturals, FiniteSetsExt

CONSTANTS
  MaxHandles,        (* RUNTIME_SYSCALL_MAX_HANDLES                        *)
  SessionCapacity,   (* RUNTIME_SERVICE_SESSION_CAPACITY                   *)
  FileCapacity,      (* RUNTIME_FS_MAX_OPEN_FILES                          *)
  Addresses,         (* where the heap can put an event or a mailbox       *)
  Callers,           (* bound: the pids that make calls; a caller that is  *)
                     (* killed is one that makes no more                   *)
  MaxPid             (* bound: the last pid that is given out              *)

ASSUME SyscallAssumption ==
  /\ MaxHandles \in Nat /\ SessionCapacity \in Nat /\ FileCapacity \in Nat
  /\ MaxPid \in Nat /\ Callers \subseteq 1 .. MaxPid

Handle == 1 .. MaxHandles
Session == 1 .. SessionCapacity
File == 1 .. FileCapacity
Pid == 1 .. MaxPid
Free == [owner |-> 0, type |-> "none", object |-> 0]
Closed == [owner |-> 0, provider |-> 0]

VARIABLES
  handles,      \* runtime_syscall_table
  kind,         \* what is at an address: "none", "event" or "mailbox"
  busy,         \* the addresses that kernel_event_destroy or kernel_mailbox_destroy refuses
  files,        \* the open files
  sessions,     \* g_runtime_service_sessions
  alive,        \* the live processes
  nextPid,
  servicePid,   \* g_service_pid
  caller,       \* history: who made the last call
  lost          \* history: objects made when no handle was left for them

objects == <<kind, busy, files, sessions, lost>>
processes == <<alive, nextPid, servicePid>>
vars == <<handles, objects, processes, caller>>

Used == {h \in Handle : handles[h] # Free}

-----------------------------------------------------------------------------
(* The table.                                                              *)

\* runtime_syscall_alloc_handle
Allocate(p, t, o) ==
  handles' = IF Used = Handle THEN handles
             ELSE [handles EXCEPT ![Min(Handle \ Used)] =
                                    [owner |-> p, type |-> t, object |-> o]]

\* runtime_syscall_check_handle_access (mutated form: any process may)
AnyAccess(p, h) == handles[h] # Free
Access(p, h) == handles[h] # Free /\ handles[h].owner \in {0, p}

\* runtime_syscall_lookup_handle and the checks that every call on a handle
\* of this type starts with
Names(p, h, t) == handles[h].type = t /\ Access(p, h)

\* The handles that runtime_syscall_handle_alias_count counts (mutated
\* form: a handle has no other)
OnlyItself(h) == {h}
Aliases(h) == {g \in Used : handles[g] = handles[h]}

\* The close operation of the object refuses
Refuses(h) ==
  CASE handles[h].type \in {"event", "mailbox"} -> handles[h].object \in busy
    [] handles[h].type = "file"                 -> handles[h].object \notin files
    [] handles[h].type = "service"              -> sessions[handles[h].object] = Closed
    [] OTHER                                    -> FALSE

\* runtime_syscall_close_handle of each of these handles, lowest first: a
\* handle that is the last of its aliases closes the object, and stays if
\* the object refuses.
CloseHandles(closing) ==
  LET lastOnes == {h \in closing : Aliases(h) \ {g \in closing : g < h} = {h}}
      refused  == {h \in lastOnes : Refuses(h)}
      gone(types) == {handles[h].object : h \in
                        {g \in lastOnes \ refused : handles[g].type \in types}}
  IN  /\ handles' = [h \in Handle |->
           IF h \in closing \ refused THEN Free ELSE handles[h]]
      /\ kind' = [a \in Addresses |-> IF a \in gone({"event", "mailbox"}) THEN "none" ELSE kind[a]]
      /\ files' = files \ gone({"file"})
      /\ sessions' = [s \in Session |-> IF s \in gone({"service"}) THEN Closed ELSE sessions[s]]
      /\ UNCHANGED <<busy, lost, processes>>

\* RUNTIME_SYSCALL_HANDLE_CLOSE
HandleClose(p, h) ==
  /\ Access(p, h)
  /\ CloseHandles({h})

\* The handles that runtime_syscall_release_owner_handles closes
Owned(p) == {h \in Used : handles[h].owner = p}

\* runtime_syscall_release_owner_handles, by whoever tears down process p
ReleaseOwner(p) ==
  /\ Owned(p) # {}
  /\ CloseHandles(Owned(p))

\* RUNTIME_SYSCALL_HANDLE_DUP
HandleDup(p, h) ==
  /\ Access(p, h)
  /\ Used # Handle
  /\ Allocate(handles[h].owner, handles[h].type, handles[h].object)
  /\ UNCHANGED <<objects, processes>>

-----------------------------------------------------------------------------
(* Processes.                                                              *)

\* RUNTIME_SYSCALL_PROCESS_SELF
ProcessSelf(p) ==
  /\ Used # Handle
  /\ Allocate(p, "process", p)
  /\ UNCHANGED <<objects, processes>>

\* A process is spawned.
Spawned ==
  /\ nextPid <= MaxPid
  /\ alive' = alive \cup {nextPid}
  /\ nextPid' = nextPid + 1
  /\ UNCHANGED objects

\* RUNTIME_SYSCALL_PROCESS_SPAWN and RUNTIME_SYSCALL_APP_LAUNCH: the
\* process is there even when no handle is left for it.
ProcessSpawn(p) ==
  /\ Spawned
  /\ Allocate(p, "process", nextPid)
  /\ UNCHANGED servicePid

\* runtime_management_spawn_named_process of the service task, from the
\* management shell
ServiceSpawn ==
  /\ Spawned
  /\ servicePid' = nextPid
  /\ UNCHANGED handles

\* process_kill
Kill(victim) ==
  /\ victim \in alive
  /\ alive' = alive \ {victim}
  /\ UNCHANGED <<handles, objects, nextPid, servicePid>>

\* RUNTIME_SYSCALL_PROCESS_TERMINATE
ProcessTerminate(p, h) ==
  /\ Names(p, h, "process")
  /\ handles[h].object \notin Callers
  /\ Kill(handles[h].object)

-----------------------------------------------------------------------------
(* Events, mailboxes and files.                                            *)

\* RUNTIME_SYSCALL_EVENT_CREATE and RUNTIME_SYSCALL_MAILBOX_CREATE: the
\* object comes first, and stays when the table is full.
ObjectCreate(p, t) ==
  \E a \in Addresses :
    /\ kind[a] = "none"
    /\ kind' = [kind EXCEPT ![a] = t]
    /\ Allocate(p, t, a)
    /\ lost' = IF Used = Handle THEN lost \cup {a} ELSE lost
    /\ UNCHANGED <<busy, files, sessions, processes>>

\* RUNTIME_SYSCALL_MAILBOX_SEND to an empty mailbox
MailboxSend(p, h) ==
  /\ Names(p, h, "mailbox")
  /\ handles[h].object \notin busy
  /\ busy' = busy \cup {handles[h].object}
  /\ UNCHANGED <<handles, kind, files, sessions, lost, processes>>

\* RUNTIME_SYSCALL_MAILBOX_RECEIVE from a full one
MailboxReceive(p, h) ==
  /\ Names(p, h, "mailbox")
  /\ handles[h].object \in busy
  /\ busy' = busy \ {handles[h].object}
  /\ UNCHANGED <<handles, kind, files, sessions, lost, processes>>

\* A kernel task begins or ends kernel_event_wait on an event.
EventWaiters(a) ==
  /\ kind[a] = "event"
  /\ busy' = IF a \in busy THEN busy \ {a} ELSE busy \cup {a}
  /\ UNCHANGED <<handles, kind, files, sessions, lost, processes>>

\* RUNTIME_SYSCALL_EVENT_SIGNAL wakes them all
EventSignal(p, h) ==
  /\ Names(p, h, "event")
  /\ handles[h].object \in busy
  /\ busy' = busy \ {handles[h].object}
  /\ UNCHANGED <<handles, kind, files, sessions, lost, processes>>

\* What a call that found no handle for its new file or session does with
\* it (mutated form: it forgets to close it)
KeptOpen == TRUE
OpenedFor == Used # Handle

\* RUNTIME_SYSCALL_FILE_OPEN, where runtime_fs_open succeeds
FileOpen(p) ==
  /\ files # File
  /\ LET f == Min(File \ files)
     IN  /\ files' = IF OpenedFor THEN files \cup {f} ELSE files
         /\ Allocate(p, "file", f)
  /\ UNCHANGED <<kind, busy, sessions, lost, processes>>

-----------------------------------------------------------------------------
(* Services.                                                               *)

\* runtime_service_provider_pid
Provider == IF servicePid \in alive THEN servicePid ELSE 0

IdleSessions == {s \in Session : sessions[s] = Closed}

\* The sessions after runtime_service_session_open
SessionOpen(p) ==
  [sessions EXCEPT ![Min(IdleSessions)] = [owner |-> p, provider |-> Provider]]

\* The sessions after runtime_service_session_invalidate_provider
InvalidateProvider(pid) ==
  [s \in Session |-> IF sessions[s].provider = pid THEN Closed ELSE sessions[s]]

\* RUNTIME_SYSCALL_SERVICE_OPEN, with runtime_syscall_service_open
ServiceOpen(p) ==
  /\ Provider # 0
  /\ IdleSessions # {}
  /\ sessions' = IF OpenedFor THEN SessionOpen(p) ELSE sessions
  /\ Allocate(p, "service", Min(IdleSessions))
  /\ UNCHANGED <<kind, busy, files, lost, processes>>

\* RUNTIME_SYSCALL_SERVICE_REQUEST that finds its provider gone closes all
\* the provider's sessions
ServiceRequest(p, h) ==
  /\ Names(p, h, "service")
  /\ LET session == sessions[handles[h].object]
     IN  /\ session # Closed
         /\ session.provider # Provider
         /\ sessions' = InvalidateProvider(session.provider)
  /\ UNCHANGED <<handles, kind, busy, files, lost, processes>>

-----------------------------------------------------------------------------
\* runtime_syscall_table_init and runtime_service_session_table_init; the
\* callers run and no service has been started
Init ==
  /\ handles = [h \in Handle |-> Free]
  /\ kind = [a \in Addresses |-> "none"]
  /\ busy = {} /\ files = {} /\ lost = {}
  /\ sessions = [s \in Session |-> Closed]
  /\ alive = Callers
  /\ nextPid = Max(Callers \cup {0}) + 1
  /\ servicePid = 0
  /\ caller = 0

\* runtime_syscall_dispatch, called by process p
Dispatch(p) ==
  \/ ProcessSelf(p)
  \/ ProcessSpawn(p)
  \/ \E t \in {"event", "mailbox"} : ObjectCreate(p, t)
  \/ FileOpen(p)
  \/ ServiceOpen(p)
  \/ \E victim \in Pid \ Callers : Kill(victim)
  \/ \E h \in Handle :
       \/ HandleClose(p, h)
       \/ HandleDup(p, h)
       \/ ProcessTerminate(p, h)
       \/ MailboxSend(p, h)
       \/ MailboxReceive(p, h)
       \/ EventSignal(p, h)
       \/ ServiceRequest(p, h)

Next ==
  \/ \E p \in Callers : Dispatch(p) /\ caller' = p
  \/ \E p \in Callers : ReleaseOwner(p) /\ caller' = p
  \/ ServiceSpawn /\ UNCHANGED caller
  \/ \E a \in Addresses : EventWaiters(a) /\ UNCHANGED caller

Spec == Init /\ [][Next]_vars

-----------------------------------------------------------------------------
(* Properties.                                                             *)

(* A handle on an event, a mailbox or a file names an object that is still *)
(* there and is of its type, whatever was duplicated, closed, released and *)
(* created at the same address in between, and its aliases all belong to   *)
(* one process: runtime_syscall_handle_alias_count does not count another  *)
(* owner's, and the object would be destroyed under that one               *)
(* (runtime_syscall_close_handle destroys with the last alias).            *)
NoDangling ==
  /\ \A h \in Used :
       /\ handles[h].type \in {"event", "mailbox"} => kind[handles[h].object] = handles[h].type
       /\ handles[h].type = "file" => handles[h].object \in files
  /\ \A g, h \in Used :
       /\ handles[g].type = handles[h].type /\ handles[g].object = handles[h].object
       /\ handles[g].type \in {"event", "mailbox", "file"}
       => handles[g].owner = handles[h].owner

(* Nothing open is out of reach: an open file and an active session have a *)
(* handle, also after calls that failed for want of one, and so do an      *)
(* event and a mailbox, except those that were created when the table was  *)
(* full (runtime_syscall_dispatch, FILE_OPEN, SERVICE_OPEN, EVENT_CREATE   *)
(* and MAILBOX_CREATE).                                                    *)
Reachable(t, o) == \E h \in Handle : handles[h].type = t /\ handles[h].object = o
NothingLeaks ==
  /\ \A f \in files : Reachable("file", f)
  /\ \A s \in Session : sessions[s] # Closed => Reachable("service", s)
  /\ \A a \in Addresses \ lost : kind[a] # "none" => Reachable(kind[a], a)

(* A call neither changes a handle of another process nor takes away the   *)
(* event, mailbox or file that one names.                                  *)
OthersUntouched ==
  [][\A h \in Used : handles[h].owner # caller' =>
       /\ handles'[h] = handles[h]
       /\ handles[h].type \in {"event", "mailbox"} => kind'[handles[h].object] # "none"
       /\ handles[h].type = "file" => handles[h].object \in files']_<<handles, kind, files, sessions>>

(* A session can be used and closed through handles of the process that    *)
(* opened it alone.  Handles outlive the sessions that a request closes    *)
(* when another server, or none, is the provider by then, and the next     *)
(* open reuses the number.                                                 *)
SessionsOwned ==
  \A h \in Used :
    handles[h].type = "service" /\ sessions[handles[h].object] # Closed =>
      handles[h].owner = sessions[handles[h].object].owner
=============================================================================
