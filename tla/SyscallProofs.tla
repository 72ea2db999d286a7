---------------------------- MODULE SyscallProofs ----------------------------
(***************************************************************************)
(* Proofs about Syscall, for tables, pools and address sets of any size.   *)
(*                                                                         *)
(* The table's own record is what close decides by: it counts the handles  *)
(* that are equal to the one it closes.  So the proofs rest on one fact,   *)
(* that handles on one event, mailbox or file are equal (NoDangling), and  *)
(* on one lemma about the close of several handles, lowest first.          *)
(***************************************************************************)
EXTENDS Syscall, NatLemmas

HandleTypes == {"process", "event", "mailbox", "file", "service"}

(* The table, the objects and the pids stay in range; a handle that is in  *)
(* use has a caller for its owner and names something of its type's kind.  *)
HandlesTyped ==
  /\ handles \in [Handle -> [owner : Callers \cup {0}, type : HandleTypes \cup {"none"},
                             object : Nat \cup Addresses]]
  /\ \A h \in Used :
       /\ handles[h].owner \in Callers /\ handles[h].type \in HandleTypes
       /\ handles[h].type \in {"event", "mailbox"} => handles[h].object \in Addresses
       /\ handles[h].type = "file" => handles[h].object \in File
       /\ handles[h].type = "service" => handles[h].object \in Session
ObjectsTyped ==
  /\ kind \in [Addresses -> {"none", "event", "mailbox"}]
  /\ busy \in SUBSET Addresses
  /\ lost \in SUBSET Addresses
  /\ files \in SUBSET File
  /\ sessions \in [Session -> [owner : Callers \cup {0}, provider : Pid \cup {0}]]
ProcessesTyped ==
  /\ alive \in SUBSET Pid
  /\ nextPid \in 1 .. MaxPid + 1
  /\ servicePid \in Pid \cup {0}
Typed == HandlesTyped /\ ObjectsTyped /\ ProcessesTyped
TypeOK == Typed /\ caller \in Callers \cup {0}

(* The parts of the state have the shapes that the proofs use.             *)
LEMMA TableFacts ==
  /\ Handle \subseteq Nat /\ Session \subseteq Nat /\ File \subseteq Nat
  /\ 0 \notin Callers /\ Callers \subseteq Nat
BY SyscallAssumption DEF Handle, Session, File

(* Min is a least element of a set of numbers.                             *)
LEMMA MinIsLeast ==
  ASSUME NEW S \in SUBSET Nat, S # {}
  PROVE  Min(S) \in S
<1>1. \E n \in S : \A m \in S : n <= m
  BY NatMin
<1> QED
  BY <1>1 DEF Min

(* A free handle is found if there is one.                                 *)
LEMMA FreeHandle ==
  ASSUME Used # Handle
  PROVE  Min(Handle \ Used) \in Handle \ Used
<1>1. Handle \ Used \in SUBSET Nat /\ Handle \ Used # {}
  BY TableFacts DEF Used
<1> QED
  BY <1>1, MinIsLeast

-----------------------------------------------------------------------------
(* Allocation.                                                             *)

(* What allocating does to the table: one free entry is filled, or nothing *)
(* is changed because there is none.                                       *)
LEMMA AllocateFills ==
  ASSUME HandlesTyped, NEW p \in Callers, NEW t \in HandleTypes, NEW o \in Nat \cup Addresses,
         Allocate(p, t, o), Used # Handle
  PROVE  \E n \in Handle \ Used :
           /\ handles' = [handles EXCEPT ![n] = [owner |-> p, type |-> t, object |-> o]]
           /\ handles'[n] = [owner |-> p, type |-> t, object |-> o]
           /\ handles'[n] # Free
           /\ \A h \in Handle \ {n} : handles'[h] = handles[h]
           /\ Used' = Used \cup {n}
<1> DEFINE n == Min(Handle \ Used)
           new == [owner |-> p, type |-> t, object |-> o]
<1>1. n \in Handle \ Used
  BY FreeHandle
<1>2. handles' = [handles EXCEPT ![n] = new]
  BY DEF Allocate
<1>3. new # Free
  BY DEF Free, HandleTypes
<1> HIDE DEF n, new
<1>4. handles'[n] = new /\ \A h \in Handle \ {n} : handles'[h] = handles[h]
  BY <1>1, <1>2 DEF HandlesTyped
<1>5. Used' = Used \cup {n}
  BY <1>1, <1>3, <1>4 DEF Used
<1> QED
  BY <1>1, <1>2, <1>3, <1>4, <1>5 DEF new

(* Allocation keeps the table typed.                                       *)
LEMMA AllocateTyped ==
  ASSUME HandlesTyped, NEW p \in Callers, NEW t \in HandleTypes, NEW o \in Nat \cup Addresses,
         Allocate(p, t, o),
         t \in {"event", "mailbox"} => o \in Addresses,
         t = "file" => o \in File,
         t = "service" => o \in Session
  PROVE  HandlesTyped'
<1>1. CASE Used = Handle
  BY <1>1 DEF Allocate, HandlesTyped, Used
<1>2. CASE Used # Handle
  <2>1. PICK n \in Handle \ Used :
          /\ handles' = [handles EXCEPT ![n] = [owner |-> p, type |-> t, object |-> o]]
          /\ handles'[n] = [owner |-> p, type |-> t, object |-> o]
          /\ \A h \in Handle \ {n} : handles'[h] = handles[h]
          /\ Used' = Used \cup {n}
    BY <1>2, AllocateFills
  <2>2. handles' \in [Handle -> [owner : Callers \cup {0}, type : HandleTypes \cup {"none"},
                                 object : Nat \cup Addresses]]
    BY <2>1 DEF HandlesTyped
  <2>3. ASSUME NEW h \in Used'
        PROVE  /\ handles'[h].owner \in Callers /\ handles'[h].type \in HandleTypes
               /\ handles'[h].type \in {"event", "mailbox"} => handles'[h].object \in Addresses
               /\ handles'[h].type = "file" => handles'[h].object \in File
               /\ handles'[h].type = "service" => handles'[h].object \in Session
    <3>1. CASE h = n
      BY <2>1, <3>1
    <3>2. CASE h # n
      BY <2>1, <2>3, <3>2 DEF HandlesTyped, Used
    <3> QED
      BY <3>1, <3>2
  <2> QED
    BY <2>2, <2>3 DEF HandlesTyped
<1> QED
  BY <1>1, <1>2

-----------------------------------------------------------------------------
(* The close of several handles.                                           *)

\* What CloseHandles(closing) goes by
LastOnes(closing) == {h \in closing : Aliases(h) \ {g \in closing : g < h} = {h}}
Destroying(closing) == {h \in LastOnes(closing) : ~Refuses(h)}
Gone(closing, types) ==
  {handles[h].object : h \in {g \in Destroying(closing) : handles[g].type \in types}}
Freed(closing) == {h \in closing : h \in LastOnes(closing) => h \in Destroying(closing)}

(* The close, in these terms.                                              *)
LEMMA CloseMeans ==
  ASSUME NEW closing, CloseHandles(closing)
  PROVE  /\ handles' = [h \in Handle |-> IF h \in Freed(closing) THEN Free ELSE handles[h]]
         /\ kind' = [a \in Addresses |->
              IF a \in Gone(closing, {"event", "mailbox"}) THEN "none" ELSE kind[a]]
         /\ files' = files \ Gone(closing, {"file"})
         /\ sessions' = [s \in Session |->
              IF s \in Gone(closing, {"service"}) THEN Closed ELSE sessions[s]]
         /\ UNCHANGED <<busy, lost, processes>>
<1>1. LastOnes(closing) \ {h \in LastOnes(closing) : Refuses(h)} = Destroying(closing)
  BY DEF Destroying
<1>2. closing \ {h \in LastOnes(closing) : Refuses(h)} = Freed(closing)
  BY DEF Destroying, Freed
<1> QED
  BY <1>1, <1>2 DEF CloseHandles, LastOnes, Gone

(* No alias of a handle whose object is destroyed is left.                 *)
LEMMA DestroyedIsFreed ==
  ASSUME HandlesTyped, NEW closing \in SUBSET Used, NEW h \in Destroying(closing),
         NEW g \in Used, handles[g] = handles[h]
  PROVE  g \in Freed(closing)
<1>1. h \in closing /\ Aliases(h) \ {k \in closing : k < h} = {h}
  BY DEF Destroying, LastOnes
<1>2. g \in Aliases(h)
  BY DEF Aliases
<1>3. CASE g = h
  BY <1>1, <1>3 DEF Freed
<1>4. CASE g # h
  <2> DEFINE below == {k \in closing : k < h}
  <2>0. g \in below
    <3> HIDE DEF below
    <3>1. Aliases(h) \ below = {h}
      BY <1>1 DEF below
    <3> QED
      BY <1>2, <1>4, <3>1
  <2>1. g \in closing /\ g < h
    BY <2>0
  <2>2. h \in Aliases(g)
    BY <1>1 DEF Aliases
  <2>3. ~(h < g)
    BY <1>1, <2>1, TableFacts DEF Used
  <2>4. g \notin LastOnes(closing)
    BY <1>4, <2>2, <2>3 DEF LastOnes
  <2> QED
    BY <2>1, <2>4 DEF Freed
<1> QED
  BY <1>3, <1>4

(* Of the aliases of a handle one is left, or one destroys the object.     *)
LEMMA LeftOrDestroyed ==
  ASSUME HandlesTyped, NEW closing \in SUBSET Used, NEW h \in Used
  PROVE  \E g \in Used : handles[g] = handles[h]
                         /\ (g \notin Freed(closing) \/ g \in Destroying(closing))
<1> DEFINE A == Aliases(h)
<1>1. A \in SUBSET Nat /\ h \in A /\ A \subseteq Used /\ \A g \in A : handles[g] = handles[h]
  BY TableFacts DEF Aliases, Used
<1>2. CASE A \ closing # {}
  BY <1>1, <1>2 DEF Freed
<1>3. CASE A \subseteq closing
  <2>1. \A g \in A : g <= MaxHandles
    BY <1>1, SyscallAssumption DEF Used, Handle
  <2>2. PICK m \in A : \A g \in A : g <= m
    BY <1>1, <2>1, NatMax, SyscallAssumption
  <2>3. Aliases(m) = A
    BY <1>1, <2>2 DEF Aliases
  <2>4. Aliases(m) \ {g \in closing : g < m} = {m}
    <3>1. \A g \in A : g \in closing /\ (g < m \/ g = m)
      BY <1>1, <1>3, <2>2
    <3>2. ~(m < m)
      BY <1>1, <2>2
    <3> QED
      BY <2>2, <2>3, <3>1, <3>2
  <2>5. m \in LastOnes(closing)
    BY <1>3, <2>2, <2>4 DEF LastOnes
  <2> QED
    BY <1>1, <2>2, <2>5 DEF Freed
<1> QED
  BY <1>2, <1>3

(* The handles that are left are those that were not freed.                *)
LEMMA UsedAfterClose ==
  ASSUME HandlesTyped, NEW closing \in SUBSET Used, CloseHandles(closing)
  PROVE  /\ Used' = Used \ Freed(closing)
         /\ \A h \in Used' : handles'[h] = handles[h]
<1>1. handles' = [h \in Handle |-> IF h \in Freed(closing) THEN Free ELSE handles[h]]
  BY CloseMeans
<1> QED
  BY <1>1 DEF Used

(* Closing keeps the types.                                                *)
LEMMA CloseTyped ==
  ASSUME Typed, NEW closing \in SUBSET Used, CloseHandles(closing)
  PROVE  Typed'
<1>1. /\ handles' = [h \in Handle |-> IF h \in Freed(closing) THEN Free ELSE handles[h]]
      /\ kind' = [a \in Addresses |->
           IF a \in Gone(closing, {"event", "mailbox"}) THEN "none" ELSE kind[a]]
      /\ files' = files \ Gone(closing, {"file"})
      /\ sessions' = [s \in Session |->
           IF s \in Gone(closing, {"service"}) THEN Closed ELSE sessions[s]]
      /\ UNCHANGED <<busy, lost, alive, servicePid, nextPid>>
  BY CloseMeans DEF processes
<1>2. ObjectsTyped' /\ ProcessesTyped'
  BY <1>1 DEF Typed, ObjectsTyped, ProcessesTyped, Closed
<1>3. HandlesTyped
  BY DEF Typed
<1>4. handles' \in [Handle -> [owner : Callers \cup {0}, type : HandleTypes \cup {"none"},
                               object : Nat \cup Addresses]]
  <2>1. Free \in [owner : Callers \cup {0}, type : HandleTypes \cup {"none"},
                  object : Nat \cup Addresses]
    BY DEF Free
  <2> QED
    BY <1>1, <1>3, <2>1 DEF HandlesTyped
<1>5. \A h \in Used' : h \in Used /\ handles'[h] = handles[h]
  BY <1>3, UsedAfterClose
<1>6. HandlesTyped'
  BY <1>3, <1>4, <1>5 DEF HandlesTyped
<1> QED
  BY <1>2, <1>6 DEF Typed

-----------------------------------------------------------------------------
(* The steps.  Every step of a call is of one of seven kinds: it closes    *)
(* handles of its caller, it leaves the table and the objects alone except *)
(* that it may close sessions, or it makes a handle, for a process, for an *)
(* alias, for a new event or mailbox, for a new file or for a new session. *)

Closes == \E closing \in SUBSET Used :
  /\ CloseHandles(closing)
  /\ \A h \in closing : handles[h].owner = caller'
Keeps ==
  /\ UNCHANGED <<handles, kind, files, lost>>
  /\ sessions' \in [Session -> [owner : Callers \cup {0}, provider : Pid \cup {0}]]
  /\ \A s \in Session : sessions'[s] \in {sessions[s], Closed}
NewProcess == \E p \in Callers, o \in Pid :
  /\ Allocate(p, "process", o)
  /\ UNCHANGED <<kind, files, sessions, lost>>
NewAlias == \E h \in Used :
  /\ Used # Handle
  /\ Allocate(handles[h].owner, handles[h].type, handles[h].object)
  /\ UNCHANGED <<kind, files, sessions, lost>>
NewObject == \E p \in Callers, t \in {"event", "mailbox"} : ObjectCreate(p, t)
NewFile == \E p \in Callers : FileOpen(p)
NewSession == \E p \in Callers : ServiceOpen(p)

(* The closed session and the sessions that a request closes are typed.    *)
LEMMA InvalidateTyped ==
  ASSUME Typed, NEW pid
  PROVE  /\ InvalidateProvider(pid) \in [Session -> [owner : Callers \cup {0}, provider : Pid \cup {0}]]
         /\ \A s \in Session : InvalidateProvider(pid)[s] \in {sessions[s], Closed}
BY DEF Typed, ObjectsTyped, InvalidateProvider, Closed

(* What a process of Callers may call in one step.                         *)
LEMMA DispatchKinds ==
  ASSUME Typed, NEW p \in Callers, Dispatch(p), caller' = p
  PROVE  Closes \/ Keeps \/ NewProcess \/ NewAlias \/ NewObject \/ NewFile \/ NewSession
<1>0. p \in Pid /\ HandlesTyped
  BY SyscallAssumption DEF Pid, Typed
<1>1. CASE ProcessSelf(p)
  BY <1>0, <1>1 DEF ProcessSelf, NewProcess, objects
<1>2. CASE ProcessSpawn(p)
  <2>1. nextPid \in Pid
    BY <1>2, SyscallAssumption DEF ProcessSpawn, Spawned, Pid, Typed, ProcessesTyped
  <2> QED
    BY <1>2, <2>1 DEF ProcessSpawn, Spawned, NewProcess, objects
<1>3. CASE \E t \in {"event", "mailbox"} : ObjectCreate(p, t)
  BY <1>3 DEF NewObject
<1>4. CASE FileOpen(p)
  BY <1>4 DEF NewFile
<1>5. CASE ServiceOpen(p)
  BY <1>5 DEF NewSession
<1>6. ASSUME UNCHANGED <<handles, kind, files, sessions, lost>> PROVE Keeps
  BY <1>6 DEF Keeps, Typed, ObjectsTyped
<1>7. CASE \E victim \in Pid \ Callers : Kill(victim)
  BY <1>6, <1>7 DEF Kill, objects
<1>8. ASSUME NEW h \in Handle,
             \/ HandleClose(p, h)
             \/ HandleDup(p, h)
             \/ ProcessTerminate(p, h)
             \/ MailboxSend(p, h)
             \/ MailboxReceive(p, h)
             \/ EventSignal(p, h)
             \/ ServiceRequest(p, h)
      PROVE  Closes \/ Keeps \/ NewAlias
  <2>1. CASE HandleClose(p, h)
    <3>1. h \in Used /\ handles[h].owner \in {0, p}
      BY <2>1 DEF HandleClose, Access, Used
    <3>2. handles[h].owner = p
      BY <1>0, <3>1, TableFacts DEF HandlesTyped
    <3>3. {h} \in SUBSET Used /\ \A g \in {h} : handles[g].owner = caller'
      BY <3>1, <3>2
    <3>4. CloseHandles({h})
      BY <2>1 DEF HandleClose
    <3> QED
      BY <3>3, <3>4 DEF Closes
  <2>2. CASE HandleDup(p, h)
    BY <2>2 DEF HandleDup, NewAlias, Access, Used, objects
  <2>3. CASE ProcessTerminate(p, h)
    BY <1>6, <2>3 DEF ProcessTerminate, Kill, objects
  <2>4. CASE MailboxSend(p, h)
    BY <1>6, <2>4 DEF MailboxSend
  <2>5. CASE MailboxReceive(p, h)
    BY <1>6, <2>5 DEF MailboxReceive
  <2>6. CASE EventSignal(p, h)
    BY <1>6, <2>6 DEF EventSignal
  <2>7. CASE ServiceRequest(p, h)
    BY <2>7, InvalidateTyped DEF ServiceRequest, Keeps
  <2> QED
    BY <1>8, <2>1, <2>2, <2>3, <2>4, <2>5, <2>6, <2>7
<1> QED
  BY <1>1, <1>2, <1>3, <1>4, <1>5, <1>7, <1>8 DEF Dispatch

(* Every step is of one of the seven kinds.                                *)
LEMMA StepKinds ==
  ASSUME Typed, [Next]_vars
  PROVE  Closes \/ Keeps \/ NewProcess \/ NewAlias \/ NewObject \/ NewFile \/ NewSession
<1>1. ASSUME UNCHANGED <<handles, kind, files, sessions, lost>> PROVE Keeps
  BY <1>1 DEF Keeps, Typed, ObjectsTyped
<1>2. CASE \E p \in Callers : Dispatch(p) /\ caller' = p
  BY <1>2, DispatchKinds
<1>3. CASE \E p \in Callers : ReleaseOwner(p) /\ caller' = p
  <2>1. PICK p \in Callers : ReleaseOwner(p) /\ caller' = p
    BY <1>3
  <2>2. Owned(p) \in SUBSET Used /\ \A h \in Owned(p) : handles[h].owner = caller'
    BY <2>1 DEF Owned
  <2>3. CloseHandles(Owned(p))
    BY <2>1 DEF ReleaseOwner
  <2> QED
    BY <2>2, <2>3 DEF Closes
<1>4. CASE ServiceSpawn /\ UNCHANGED caller
  BY <1>1, <1>4 DEF ServiceSpawn, Spawned, objects
<1>5. CASE \E a \in Addresses : EventWaiters(a) /\ UNCHANGED caller
  BY <1>1, <1>5 DEF EventWaiters
<1>6. CASE UNCHANGED vars
  BY <1>1, <1>6 DEF vars, objects
<1> QED
  BY <1>2, <1>3, <1>4, <1>5, <1>6 DEF Next

(* A step leaves the set of busy objects and the pids in range.            *)
LEMMA RestTyped ==
  ASSUME Typed, [Next]_vars
  PROVE  busy' \in SUBSET Addresses /\ ProcessesTyped'
<1> USE SyscallAssumption
<1>0. HandlesTyped /\ busy \in SUBSET Addresses /\ ProcessesTyped
  BY DEF Typed, ObjectsTyped
<1>1. ASSUME UNCHANGED <<busy, alive, nextPid, servicePid>>
      PROVE  busy' \in SUBSET Addresses /\ ProcessesTyped'
  BY <1>0, <1>1 DEF ProcessesTyped
<1>2. ASSUME Spawned PROVE nextPid \in Pid /\ nextPid' \in 1 .. MaxPid + 1 /\ alive' \in SUBSET Pid
  BY <1>0, <1>2 DEF Spawned, ProcessesTyped, Pid
<1>3. ASSUME NEW closing, CloseHandles(closing) PROVE busy' \in SUBSET Addresses /\ ProcessesTyped'
  BY <1>1, <1>3 DEF CloseHandles, processes
<1>4. ASSUME NEW p \in Callers, Dispatch(p)
      PROVE  busy' \in SUBSET Addresses /\ ProcessesTyped'
  <2>1. CASE ProcessSelf(p)
    BY <1>1, <2>1 DEF ProcessSelf, objects, processes
  <2>2. CASE ProcessSpawn(p)
    BY <1>0, <1>2, <2>2 DEF ProcessSpawn, Spawned, ProcessesTyped, objects
  <2>3. CASE \E t \in {"event", "mailbox"} : ObjectCreate(p, t)
    BY <1>1, <2>3 DEF ObjectCreate, processes
  <2>4. CASE FileOpen(p)
    BY <1>1, <2>4 DEF FileOpen, processes
  <2>5. CASE ServiceOpen(p)
    BY <1>1, <2>5 DEF ServiceOpen, processes
  <2>6. ASSUME NEW victim, Kill(victim) PROVE busy' \in SUBSET Addresses /\ ProcessesTyped'
    BY <1>0, <2>6 DEF Kill, objects, ProcessesTyped
  <2>7. ASSUME NEW h \in Handle,
               \/ HandleClose(p, h)
               \/ HandleDup(p, h)
               \/ ProcessTerminate(p, h)
               \/ MailboxSend(p, h)
               \/ MailboxReceive(p, h)
               \/ EventSignal(p, h)
               \/ ServiceRequest(p, h)
        PROVE  busy' \in SUBSET Addresses /\ ProcessesTyped'
    <3>1. CASE HandleClose(p, h)
      BY <1>3, <3>1 DEF HandleClose
    <3>2. CASE HandleDup(p, h)
      BY <1>1, <3>2 DEF HandleDup, objects, processes
    <3>3. CASE ProcessTerminate(p, h)
      BY <2>6, <3>3 DEF ProcessTerminate
    <3>4. CASE MailboxSend(p, h)
      <4>1. handles[h].object \in Addresses
        BY <1>0, <3>4 DEF MailboxSend, Names, Access, Used, HandlesTyped
      <4> QED
        BY <1>0, <3>4, <4>1 DEF MailboxSend, processes, ProcessesTyped
    <3>5. CASE MailboxReceive(p, h)
      BY <1>0, <3>5 DEF MailboxReceive, processes, ProcessesTyped
    <3>6. CASE EventSignal(p, h)
      BY <1>0, <3>6 DEF EventSignal, processes, ProcessesTyped
    <3>7. CASE ServiceRequest(p, h)
      BY <1>1, <3>7 DEF ServiceRequest, processes
    <3> QED
      BY <2>7, <3>1, <3>2, <3>3, <3>4, <3>5, <3>6, <3>7
  <2> QED
    BY <1>4, <2>1, <2>2, <2>3, <2>4, <2>5, <2>6, <2>7 DEF Dispatch
<1>5. CASE \E p \in Callers : ReleaseOwner(p) /\ caller' = p
  BY <1>3, <1>5 DEF ReleaseOwner
<1>6. CASE ServiceSpawn /\ UNCHANGED caller
  BY <1>0, <1>2, <1>6 DEF ServiceSpawn, Spawned, ProcessesTyped, objects
<1>7. CASE \E a \in Addresses : EventWaiters(a) /\ UNCHANGED caller
  BY <1>0, <1>7 DEF EventWaiters, processes, ProcessesTyped
<1>8. CASE UNCHANGED vars
  BY <1>1, <1>8 DEF vars, objects, processes
<1> QED
  BY <1>4, <1>5, <1>6, <1>7, <1>8 DEF Next

(* The number of the file or the session that an open takes is one of      *)
(* those that are not in use.                                              *)
LEMMA NumberIsFree ==
  ASSUME Typed
  PROVE  /\ files # File => Min(File \ files) \in File \ files
         /\ IdleSessions # {} => Min(IdleSessions) \in IdleSessions
<1>1. File \ files \in SUBSET Nat /\ IdleSessions \in SUBSET Nat
  BY TableFacts DEF IdleSessions
<1>2. files # File => File \ files # {}
  BY DEF Typed, ObjectsTyped
<1> QED
  BY <1>1, <1>2, MinIsLeast

(* Every step keeps the types.                                             *)
LEMMA TypedNext ==
  ASSUME Typed, [Next]_vars
  PROVE  Typed'
<1> USE TableFacts
<1>0. HandlesTyped /\ ObjectsTyped /\ ProcessesTyped
  BY DEF Typed
<1>r. busy' \in SUBSET Addresses /\ ProcessesTyped'
  BY RestTyped
<1>1. CASE Closes
  BY <1>1, CloseTyped DEF Closes
<1>2. CASE Keeps
  BY <1>0, <1>r, <1>2 DEF Keeps, Typed, HandlesTyped, ObjectsTyped, Used
<1>3. CASE NewProcess
  <2>1. PICK p \in Callers, o \in Pid :
          Allocate(p, "process", o) /\ UNCHANGED <<kind, files, sessions, lost>>
    BY <1>3 DEF NewProcess
  <2>2. HandlesTyped'
    BY <1>0, <2>1, AllocateTyped DEF HandleTypes, Pid
  <2> QED
    BY <1>0, <1>r, <2>1, <2>2 DEF Typed, ObjectsTyped
<1>4. CASE NewAlias
  <2>1. PICK h \in Used :
          /\ Allocate(handles[h].owner, handles[h].type, handles[h].object)
          /\ UNCHANGED <<kind, files, sessions, lost>>
    BY <1>4 DEF NewAlias
  <2>2. HandlesTyped'
    <3> DEFINE p == handles[h].owner
               t == handles[h].type
               o == handles[h].object
    <3>1. /\ p \in Callers /\ t \in HandleTypes /\ o \in Nat \cup Addresses
          /\ t \in {"event", "mailbox"} => o \in Addresses
          /\ t = "file" => o \in File
          /\ t = "service" => o \in Session
      BY <1>0 DEF HandlesTyped, Used
    <3>2. Allocate(p, t, o)
      BY <2>1
    <3> HIDE DEF p, t, o
    <3> QED
      BY <1>0, <3>1, <3>2, AllocateTyped
  <2> QED
    BY <1>0, <1>r, <2>1, <2>2 DEF Typed, ObjectsTyped
<1>5. CASE NewObject
  <2>1. PICK p \in Callers, t \in {"event", "mailbox"}, a \in Addresses :
          /\ kind' = [kind EXCEPT ![a] = t]
          /\ Allocate(p, t, a)
          /\ lost' \in {lost, lost \cup {a}}
          /\ UNCHANGED <<files, sessions>>
    BY <1>5 DEF NewObject, ObjectCreate
  <2>2. HandlesTyped'
    BY <1>0, <2>1, AllocateTyped DEF HandleTypes
  <2> QED
    BY <1>0, <1>r, <2>1, <2>2 DEF Typed, ObjectsTyped
<1>6. CASE NewFile
  <2>1. PICK p \in Callers : FileOpen(p)
    BY <1>6 DEF NewFile
  <2> DEFINE f == Min(File \ files)
  <2>2. f \in File
    BY <2>1, NumberIsFree DEF FileOpen
  <2>3. Allocate(p, "file", f) /\ files' \in {files, files \cup {f}} /\ UNCHANGED <<kind, sessions, lost>>
    BY <2>1 DEF FileOpen
  <2> HIDE DEF f
  <2>4. HandlesTyped'
    BY <1>0, <2>2, <2>3, AllocateTyped DEF HandleTypes
  <2> QED
    BY <1>0, <1>r, <2>2, <2>3, <2>4 DEF Typed, ObjectsTyped
<1>7. CASE NewSession
  <2>1. PICK p \in Callers : ServiceOpen(p)
    BY <1>7 DEF NewSession
  <2> DEFINE s == Min(IdleSessions)
  <2>2. s \in Session
    BY <2>1, NumberIsFree DEF ServiceOpen, IdleSessions
  <2>3. /\ Allocate(p, "service", s)
        /\ sessions' \in {sessions, [sessions EXCEPT ![s] = [owner |-> p, provider |-> Provider]]}
        /\ UNCHANGED <<kind, files, lost>>
    BY <2>1 DEF ServiceOpen, SessionOpen
  <2> HIDE DEF s
  <2>4. HandlesTyped'
    BY <1>0, <2>2, <2>3, AllocateTyped DEF HandleTypes
  <2>5. Provider \in Pid \cup {0}
    BY <1>0 DEF Provider, ProcessesTyped
  <2> QED
    BY <1>0, <1>r, <2>2, <2>3, <2>4, <2>5 DEF Typed, ObjectsTyped
<1> QED
  BY <1>1, <1>2, <1>3, <1>4, <1>5, <1>6, <1>7, StepKinds

(* The tables start empty.                                                 *)
LEMMA InitTyped == Init => Typed
<1> SUFFICES ASSUME Init PROVE Typed
  OBVIOUS
<1>1. HandlesTyped
  BY DEF Init, HandlesTyped, Used, Free
<1>2. ObjectsTyped
  BY DEF Init, ObjectsTyped, Closed
<1>3. Max(Callers \cup {0}) \in Callers \cup {0}
  <2> DEFINE S == Callers \cup {0}
  <2>1. S \in SUBSET Nat /\ S # {} /\ \A n \in S : n <= MaxPid
    BY SyscallAssumption
  <2> HIDE DEF S
  <2>2. \E n \in S : \A m \in S : n >= m
    <3>1. \E n \in S : \A m \in S : m <= n
      BY <2>1, NatMax, SyscallAssumption
    <3> QED
      BY <2>1, <3>1
  <2>3. Max(S) \in S
    BY <2>2 DEF Max
  <2> QED
    BY <2>3 DEF S
<1>4. PICK m \in Callers \cup {0} : nextPid = m + 1
  BY <1>3 DEF Init
<1>5. ProcessesTyped
  BY <1>4, SyscallAssumption DEF Init, ProcessesTyped, Pid
<1> QED
  BY <1>1, <1>2, <1>5 DEF Typed

(* The handle table, the objects, the sessions and the pids stay in range  *)
(* (runtime_syscall_alloc_handle fills a free entry within the table, and  *)
(* a handle in use always has an owner that is a process).                 *)
THEOREM SyscallTypeCorrect == Spec => []TypeOK
<1>1. Init => TypeOK
  BY InitTyped DEF Init, TypeOK
<1>2. TypeOK /\ [Next]_vars => TypeOK'
  <2> SUFFICES ASSUME TypeOK, [Next]_vars PROVE TypeOK'
    OBVIOUS
  <2>1. Typed'
    BY TypedNext DEF TypeOK
  <2>2. caller' \in Callers \cup {0}
    BY DEF TypeOK, Next, vars
  <2> QED
    BY <2>1, <2>2 DEF TypeOK
<1> QED
  BY <1>1, <1>2, PTL DEF Spec

-----------------------------------------------------------------------------
(* No handle dangles.                                                      *)

(* Two handles with the same contents are equal.                           *)
LEMMA SameHandle ==
  ASSUME HandlesTyped, NEW g \in Used, NEW h \in Used,
         handles[g].owner = handles[h].owner, handles[g].type = handles[h].type,
         handles[g].object = handles[h].object
  PROVE  handles[g] = handles[h]
<1> DEFINE R == [owner : Callers \cup {0}, type : HandleTypes \cup {"none"}, object : Nat \cup Addresses]
<1>1. handles[g] \in R /\ handles[h] \in R
  BY DEF HandlesTyped, Used
<1> QED
  BY <1>1

(* An object that one of the handles left over names is not destroyed.     *)
LEMMA NamedIsKept ==
  ASSUME HandlesTyped, NoDangling, NEW closing \in SUBSET Used, NEW g \in Used, g \notin Freed(closing)
  PROVE  /\ handles[g].type \in {"event", "mailbox"} =>
              handles[g].object \notin Gone(closing, {"event", "mailbox"})
         /\ handles[g].type = "file" => handles[g].object \notin Gone(closing, {"file"})
<1>1. ASSUME NEW types \in SUBSET {"event", "mailbox", "file"}, handles[g].type \in types,
             types \in {{"event", "mailbox"}, {"file"}}, handles[g].object \in Gone(closing, types)
      PROVE  FALSE
  <2>1. PICK d \in Destroying(closing) :
          handles[d].type \in types /\ handles[d].object = handles[g].object
    BY <1>1 DEF Gone
  <2>2. d \in Used
    BY DEF Destroying, LastOnes
  <2>3. handles[d].type = handles[g].type
    <3>1. CASE types = {"file"}
      BY <1>1, <2>1, <3>1
    <3>2. CASE types = {"event", "mailbox"}
      <4>1. kind[handles[d].object] = handles[d].type /\ kind[handles[g].object] = handles[g].type
        BY <1>1, <2>1, <2>2, <3>2 DEF NoDangling
      <4> QED
        BY <2>1, <4>1
    <3> QED
      BY <1>1, <3>1, <3>2
  <2>4. handles[d].owner = handles[g].owner
    BY <1>1, <2>1, <2>2, <2>3 DEF NoDangling
  <2>5. handles[g] = handles[d]
    BY <2>1, <2>2, <2>3, <2>4, SameHandle
  <2> QED
    BY <2>5, DestroyedIsFreed
<1>2. ASSUME handles[g].type \in {"event", "mailbox"},
             handles[g].object \in Gone(closing, {"event", "mailbox"})
      PROVE  FALSE
  BY <1>1, <1>2
<1>3. ASSUME handles[g].type = "file", handles[g].object \in Gone(closing, {"file"}) PROVE FALSE
  BY <1>1, <1>3
<1> QED
  BY <1>2, <1>3

(* The handles that close leaves do not dangle.                            *)
LEMMA CloseKeepsNamed ==
  ASSUME Typed, NoDangling, NEW closing \in SUBSET Used, CloseHandles(closing)
  PROVE  \A g \in Used : g \notin Freed(closing) =>
           /\ handles[g].type \in {"event", "mailbox"} => kind'[handles[g].object] = handles[g].type
           /\ handles[g].type = "file" => handles[g].object \in files'
<1>0. HandlesTyped
  BY DEF Typed
<1>1. /\ kind' = [a \in Addresses |->
           IF a \in Gone(closing, {"event", "mailbox"}) THEN "none" ELSE kind[a]]
      /\ files' = files \ Gone(closing, {"file"})
  BY CloseMeans
<1>2. SUFFICES ASSUME NEW g \in Used, g \notin Freed(closing)
      PROVE  /\ handles[g].type \in {"event", "mailbox"} => kind'[handles[g].object] = handles[g].type
             /\ handles[g].type = "file" => handles[g].object \in files'
  OBVIOUS
<1>3. /\ handles[g].type \in {"event", "mailbox"} =>
           /\ handles[g].object \notin Gone(closing, {"event", "mailbox"})
           /\ handles[g].object \in Addresses
           /\ kind[handles[g].object] = handles[g].type
      /\ handles[g].type = "file" =>
           /\ handles[g].object \notin Gone(closing, {"file"})
           /\ handles[g].object \in files
  BY <1>0, <1>2, NamedIsKept DEF NoDangling, HandlesTyped
<1> QED
  BY <1>1, <1>3

(* A new handle does not dangle if it names an object of its type that is  *)
(* there, and is not an alias of another process's handle.                 *)
LEMMA NewNamed ==
  ASSUME HandlesTyped, NoDangling, NEW p \in Callers, NEW t \in HandleTypes, NEW o \in Nat \cup Addresses,
         Allocate(p, t, o), Used # Handle,
         \A h \in Used : handles[h].type \in {"event", "mailbox"} =>
           kind'[handles[h].object] = kind[handles[h].object],
         files \subseteq files',
         t \in {"event", "mailbox"} => kind'[o] = t,
         t = "file" => o \in files',
         \A h \in Used : handles[h].type = t /\ handles[h].object = o
                         /\ t \in {"event", "mailbox", "file"} => handles[h].owner = p
  PROVE  NoDangling'
<1>1. PICK n \in Handle \ Used :
        /\ handles'[n] = [owner |-> p, type |-> t, object |-> o]
        /\ \A h \in Handle \ {n} : handles'[h] = handles[h]
        /\ Used' = Used \cup {n}
  BY AllocateFills
<1>2. \A h \in Used : handles'[h] = handles[h]
  BY <1>1 DEF Used
<1>3. handles'[n].owner = p /\ handles'[n].type = t /\ handles'[n].object = o
  BY <1>1
<1>4. ASSUME NEW h \in Used'
      PROVE  /\ handles'[h].type \in {"event", "mailbox"} => kind'[handles'[h].object] = handles'[h].type
             /\ handles'[h].type = "file" => handles'[h].object \in files'
  <2>1. CASE h = n
    BY <1>3, <2>1
  <2>2. CASE h \in Used
    BY <1>2, <2>2 DEF NoDangling
  <2> QED
    BY <1>1, <2>1, <2>2
<1>5. ASSUME NEW g \in Used', NEW h \in Used',
             handles'[g].type = handles'[h].type, handles'[g].object = handles'[h].object,
             handles'[g].type \in {"event", "mailbox", "file"}
      PROVE  handles'[g].owner = handles'[h].owner
  <2>1. CASE g = n /\ h = n
    BY <2>1
  <2>2. CASE g = n /\ h \in Used
    BY <1>2, <1>3, <1>5, <2>2
  <2>3. CASE g \in Used /\ h = n
    BY <1>2, <1>3, <1>5, <2>3
  <2>4. CASE g \in Used /\ h \in Used
    BY <1>2, <1>5, <2>4 DEF NoDangling
  <2> QED
    BY <1>1, <2>1, <2>2, <2>3, <2>4
<1> QED
  BY <1>4, <1>5 DEF NoDangling

(* Where the table and the objects that handles name are as they were, no  *)
(* handle dangles that did not before.                                     *)
LEMMA NoneDangles ==
  ASSUME NoDangling, handles' = handles, files \subseteq files',
         \A h \in Used : handles[h].type \in {"event", "mailbox"} =>
           kind'[handles[h].object] = kind[handles[h].object]
  PROVE  NoDangling'
BY DEF NoDangling, Used

(* Every step keeps handles from dangling.                                 *)
LEMMA NoDanglingNext ==
  ASSUME Typed, NoDangling, [Next]_vars
  PROVE  NoDangling'
<1> USE TableFacts
<1>0. HandlesTyped
  BY DEF Typed
<1>1. CASE Closes
  <2>1. PICK closing \in SUBSET Used : CloseHandles(closing)
    BY <1>1 DEF Closes
  <2>2. Used' = Used \ Freed(closing) /\ \A h \in Used' : handles'[h] = handles[h]
    BY <1>0, <2>1, UsedAfterClose
  <2> QED
    BY <2>1, <2>2, CloseKeepsNamed DEF NoDangling
<1>2. CASE Keeps
  BY <1>2, NoneDangles DEF Keeps
<1>3. CASE NewProcess
  <2>1. PICK p \in Callers, o \in Pid :
          Allocate(p, "process", o) /\ UNCHANGED <<kind, files>>
    BY <1>3 DEF NewProcess
  <2>2. CASE Used = Handle
    BY <2>1, <2>2, NoneDangles DEF Allocate
  <2>3. CASE Used # Handle
    BY <1>0, <2>1, <2>3, NewNamed DEF HandleTypes, Pid
  <2> QED
    BY <2>2, <2>3
<1>4. CASE NewAlias
  <2>1. PICK h \in Used :
          /\ Used # Handle
          /\ Allocate(handles[h].owner, handles[h].type, handles[h].object)
          /\ UNCHANGED <<kind, files>>
    BY <1>4 DEF NewAlias
  <2> DEFINE p == handles[h].owner
             t == handles[h].type
             o == handles[h].object
  <2>2. /\ p \in Callers /\ t \in HandleTypes /\ o \in Nat \cup Addresses
        /\ t \in {"event", "mailbox"} => kind[o] = t
        /\ t = "file" => o \in files
    BY <1>0 DEF HandlesTyped, NoDangling, Used
  <2>3. \A g \in Used : handles[g].type = t /\ handles[g].object = o
                        /\ t \in {"event", "mailbox", "file"} => handles[g].owner = p
    BY DEF NoDangling
  <2>4. Allocate(p, t, o)
    BY <2>1
  <2> HIDE DEF p, t, o
  <2> QED
    BY <1>0, <2>1, <2>2, <2>3, <2>4, NewNamed
<1>5. CASE NewObject
  <2>1. PICK p \in Callers, t \in {"event", "mailbox"}, a \in Addresses :
          /\ kind[a] = "none"
          /\ kind' = [kind EXCEPT ![a] = t]
          /\ Allocate(p, t, a)
          /\ UNCHANGED files
    BY <1>5 DEF NewObject, ObjectCreate
  <2>2. \A h \in Used : handles[h].type \in {"event", "mailbox"} =>
          handles[h].object # a /\ kind'[handles[h].object] = kind[handles[h].object]
    BY <1>0, <2>1 DEF NoDangling, HandlesTyped, Typed, ObjectsTyped
  <2>3. kind'[a] = t
    BY <2>1 DEF Typed, ObjectsTyped
  <2>4. CASE Used = Handle
    BY <2>1, <2>2, <2>4, NoneDangles DEF Allocate
  <2>5. CASE Used # Handle
    <3>1. t \in HandleTypes /\ a \in Nat \cup Addresses /\ t # "file" /\ files \subseteq files'
      BY <2>1 DEF HandleTypes
    <3>2. \A h \in Used : handles[h].type \in {"event", "mailbox"} =>
            kind'[handles[h].object] = kind[handles[h].object]
      BY <2>2
    <3>3. \A h \in Used : handles[h].type = t /\ handles[h].object = a
                          /\ t \in {"event", "mailbox", "file"} => handles[h].owner = p
      BY <2>2
    <3>4. Allocate(p, t, a)
      BY <2>1
    <3> QED
      BY <1>0, <2>3, <2>5, <3>1, <3>2, <3>3, <3>4, NewNamed
  <2> QED
    BY <2>4, <2>5
<1>6. CASE NewFile
  <2>1. PICK p \in Callers : FileOpen(p)
    BY <1>6 DEF NewFile
  <2> DEFINE f == Min(File \ files)
  <2>2. f \in File /\ f \notin files
    BY <2>1, NumberIsFree DEF FileOpen
  <2>3. /\ Allocate(p, "file", f)
        /\ files' = IF Used # Handle THEN files \cup {f} ELSE files
        /\ UNCHANGED kind
    BY <2>1 DEF FileOpen, OpenedFor
  <2> HIDE DEF f
  <2>4. \A h \in Used : handles[h].type = "file" => handles[h].object # f
    BY <2>2 DEF NoDangling
  <2>5. CASE Used = Handle
    BY <2>3, <2>5, NoneDangles DEF Allocate
  <2>6. CASE Used # Handle
    <3>0. PICK t \in HandleTypes : t = "file"
      BY DEF HandleTypes
    <3>1. /\ t \in HandleTypes /\ f \in Nat \cup Addresses /\ t \notin {"event", "mailbox"}
          /\ files \subseteq files' /\ f \in files' /\ Allocate(p, t, f)
      BY <2>2, <2>3, <2>6, <3>0
    <3>2. \A h \in Used : handles[h].type \in {"event", "mailbox"} =>
            kind'[handles[h].object] = kind[handles[h].object]
      BY <2>3
    <3>3. \A h \in Used : handles[h].type = t /\ handles[h].object = f
                          /\ t \in {"event", "mailbox", "file"} => handles[h].owner = p
      BY <2>4, <3>0
    <3> QED
      BY <1>0, <2>6, <3>1, <3>2, <3>3, NewNamed
  <2> QED
    BY <2>5, <2>6
<1>7. CASE NewSession
  <2>1. PICK p \in Callers : ServiceOpen(p)
    BY <1>7 DEF NewSession
  <2> DEFINE s == Min(IdleSessions)
  <2>2. s \in Session
    BY <2>1, NumberIsFree DEF ServiceOpen, IdleSessions
  <2>3. Allocate(p, "service", s) /\ UNCHANGED <<kind, files>>
    BY <2>1 DEF ServiceOpen
  <2> HIDE DEF s
  <2>4. CASE Used = Handle
    BY <2>3, <2>4, NoneDangles DEF Allocate
  <2>5. CASE Used # Handle
    BY <1>0, <2>2, <2>3, <2>5, NewNamed DEF HandleTypes
  <2> QED
    BY <2>4, <2>5
<1> QED
  BY <1>1, <1>2, <1>3, <1>4, <1>5, <1>6, <1>7, StepKinds

(* A handle on an event, a mailbox or a file always names a live object of *)
(* its type, and the aliases of one object have one owner, in a table of   *)
(* any size (runtime_syscall_close_handle, runtime_syscall_alloc_handle).  *)
THEOREM HandlesNeverDangle == Spec => []NoDangling
<1>1. Init => Typed /\ NoDangling
  BY InitTyped DEF Init, NoDangling, Used
<1>2. (Typed /\ NoDangling) /\ [Next]_vars => (Typed /\ NoDangling)'
  BY TypedNext, NoDanglingNext
<1> QED
  BY <1>1, <1>2, PTL DEF Spec

-----------------------------------------------------------------------------
(* Nothing is out of reach.                                                *)

(* Allocation changes no handle that is in use.                            *)
LEMMA AllocateKeeps ==
  ASSUME HandlesTyped, NEW p \in Callers, NEW t \in HandleTypes, NEW o \in Nat \cup Addresses,
         Allocate(p, t, o)
  PROVE  \A h \in Used : handles'[h] = handles[h]
<1>1. CASE Used = Handle
  BY <1>1 DEF Allocate
<1>2. CASE Used # Handle
  BY <1>2, AllocateFills DEF Used
<1> QED
  BY <1>1, <1>2

(* A handle that reaches an object is one in use.                          *)
LEMMA ReachedByUsed ==
  ASSUME NEW t \in HandleTypes, NEW o, Reachable(t, o)
  PROVE  \E h \in Used : handles[h].type = t /\ handles[h].object = o
<1>1. PICK h \in Handle : handles[h].type = t /\ handles[h].object = o
  BY DEF Reachable
<1>2. Free.type = "none" /\ t # "none"
  BY DEF Free, HandleTypes
<1> QED
  BY <1>1, <1>2 DEF Used

(* What can be reached stays in reach while handles in use do not change.  *)
LEMMA ReachKept ==
  ASSUME \A h \in Used : handles'[h] = handles[h], NEW t \in HandleTypes, NEW o, Reachable(t, o)
  PROVE  Reachable(t, o)'
<1>1. PICK h \in Used : handles[h].type = t /\ handles[h].object = o
  BY ReachedByUsed
<1>2. h \in Handle /\ handles'[h].type = t /\ handles'[h].object = o
  BY <1>1 DEF Used
<1> QED
  BY <1>2 DEF Reachable

(* The handle that is filled reaches what it was allocated for.            *)
LEMMA AllocateReaches ==
  ASSUME HandlesTyped, NEW p \in Callers, NEW t \in HandleTypes, NEW o \in Nat \cup Addresses,
         Allocate(p, t, o), Used # Handle
  PROVE  Reachable(t, o)'
<1>1. PICK n \in Handle \ Used : handles'[n] = [owner |-> p, type |-> t, object |-> o]
  BY AllocateFills
<1>2. handles'[n].type = t /\ handles'[n].object = o
  BY <1>1
<1> QED
  BY <1>2 DEF Reachable

(* What close does not destroy stays in reach.                             *)
LEMMA CloseReach ==
  ASSUME HandlesTyped, NEW closing \in SUBSET Used, CloseHandles(closing),
         NEW t \in HandleTypes, NEW o, NEW types, t \in types,
         Reachable(t, o), o \notin Gone(closing, types)
  PROVE  Reachable(t, o)'
<1>1. PICK h \in Used : handles[h].type = t /\ handles[h].object = o
  BY ReachedByUsed
<1>2. PICK g \in Used : /\ handles[g] = handles[h]
                        /\ g \notin Freed(closing) \/ g \in Destroying(closing)
  BY LeftOrDestroyed
<1>3. g \notin Destroying(closing)
  <2> SUFFICES ASSUME g \in Destroying(closing) PROVE FALSE
    OBVIOUS
  <2>1. handles[g].object \in Gone(closing, types)
    BY <1>1, <1>2 DEF Gone
  <2> QED
    BY <1>1, <1>2, <2>1
<1>4. g \in Used' /\ handles'[g] = handles[g]
  BY <1>2, <1>3, UsedAfterClose
<1>5. g \in Handle /\ handles'[g].type = t /\ handles'[g].object = o
  BY <1>1, <1>2, <1>4 DEF Used
<1> QED
  BY <1>5 DEF Reachable

(* The kinds of objects are types of handles.                              *)
LEMMA KindsAreTypes ==
  ASSUME ObjectsTyped, NEW a \in Addresses, kind[a] # "none"
  PROVE  kind[a] \in HandleTypes /\ kind[a] \in {"event", "mailbox"}
BY DEF ObjectsTyped, HandleTypes

(* Nothing gets out of reach where handles in use do not change and        *)
(* nothing is made but an object with a handle, or one that is recorded.   *)
LEMMA NothingNewLeaks ==
  ASSUME Typed, NothingLeaks, \A h \in Used : handles'[h] = handles[h], lost \subseteq lost',
         \A f \in files' : f \in files \/ Reachable("file", f)',
         \A s \in Session : sessions'[s] = Closed \/ sessions[s] # Closed \/ Reachable("service", s)',
         \A a \in Addresses : kind'[a] = kind[a] \/ a \in lost' \/ Reachable(kind[a], a)'
  PROVE  NothingLeaks'
<1>0. {"file", "service"} \subseteq HandleTypes /\ ObjectsTyped
  BY DEF HandleTypes, Typed
<1>1. ASSUME NEW f \in files' PROVE Reachable("file", f)'
  BY <1>0, <1>1, ReachKept DEF NothingLeaks
<1>2. ASSUME NEW s \in Session, sessions'[s] # Closed PROVE Reachable("service", s)'
  BY <1>0, <1>2, ReachKept DEF NothingLeaks
<1>3. ASSUME NEW a \in Addresses, a \notin lost', kind'[a] # "none" PROVE Reachable(kind[a], a)'
  <2>1. CASE kind'[a] # kind[a]
    BY <1>3, <2>1
  <2>2. CASE kind'[a] = kind[a]
    <3> PICK t \in HandleTypes : t = kind[a]
      BY <1>0, <1>3, <2>2, KindsAreTypes
    <3>1. Reachable(t, a)
      BY <1>3, <2>2 DEF NothingLeaks
    <3>2. Reachable(t, a)'
      BY <3>1, ReachKept
    <3> QED
      BY <2>2, <3>2 DEF Reachable
  <2> QED
    BY <2>1, <2>2
<1> QED
  BY <1>1, <1>2, <1>3 DEF NothingLeaks

(* Every step leaves all that is open in reach.                            *)
LEMMA NothingLeaksNext ==
  ASSUME Typed, NothingLeaks, [Next]_vars
  PROVE  NothingLeaks'
<1> USE TableFacts
<1>0. HandlesTyped /\ ObjectsTyped
  BY DEF Typed
<1>1. CASE Closes
  <2>1. PICK closing \in SUBSET Used : CloseHandles(closing)
    BY <1>1 DEF Closes
  <2>2. /\ kind' = [a \in Addresses |->
             IF a \in Gone(closing, {"event", "mailbox"}) THEN "none" ELSE kind[a]]
        /\ files' = files \ Gone(closing, {"file"})
        /\ sessions' = [s \in Session |->
             IF s \in Gone(closing, {"service"}) THEN Closed ELSE sessions[s]]
        /\ lost' = lost
    BY <2>1, CloseMeans
  <2>3. {"file", "service"} \subseteq HandleTypes
    BY DEF HandleTypes
  <2>4. ASSUME NEW f \in files' PROVE Reachable("file", f)'
    BY <1>0, <2>1, <2>2, <2>3, CloseReach DEF NothingLeaks
  <2>5. ASSUME NEW s \in Session, sessions'[s] # Closed PROVE Reachable("service", s)'
    <3>1. s \notin Gone(closing, {"service"}) /\ sessions[s] # Closed
      BY <2>2, <2>5
    <3> QED
      BY <1>0, <2>1, <2>3, <3>1, CloseReach DEF NothingLeaks
  <2>6. ASSUME NEW a \in Addresses, a \notin lost', kind'[a] # "none" PROVE Reachable(kind[a], a)'
    <3>1. a \notin Gone(closing, {"event", "mailbox"}) /\ kind'[a] = kind[a]
      BY <2>2, <2>6
    <3>2. PICK t \in HandleTypes : t = kind[a] /\ t \in {"event", "mailbox"}
      BY <1>0, <2>6, <3>1, KindsAreTypes
    <3>3. Reachable(t, a)
      BY <2>2, <2>6, <3>1, <3>2 DEF NothingLeaks
    <3>4. Reachable(t, a)'
      BY <1>0, <2>1, <3>1, <3>2, <3>3, CloseReach
    <3> QED
      BY <3>1, <3>2, <3>4 DEF Reachable
  <2> QED
    BY <2>4, <2>5, <2>6 DEF NothingLeaks
<1>2. CASE Keeps
  <2>1. /\ \A h \in Used : handles'[h] = handles[h]
        /\ lost \subseteq lost'
        /\ files' = files /\ kind' = kind
        /\ \A s \in Session : sessions'[s] = Closed \/ sessions'[s] = sessions[s]
    BY <1>2 DEF Keeps
  <2> QED
    BY <2>1, NothingNewLeaks
<1>3. CASE NewProcess
  <2>1. PICK p \in Callers, o \in Pid :
          Allocate(p, "process", o) /\ UNCHANGED <<kind, files, sessions, lost>>
    BY <1>3 DEF NewProcess
  <2>2. "process" \in HandleTypes /\ o \in Nat \cup Addresses
    BY DEF HandleTypes, Pid
  <2>3. \A h \in Used : handles'[h] = handles[h]
    BY <1>0, <2>1, <2>2, AllocateKeeps
  <2> QED
    BY <2>1, <2>3, NothingNewLeaks
<1>4. CASE NewAlias
  <2>1. PICK h \in Used :
          /\ Allocate(handles[h].owner, handles[h].type, handles[h].object)
          /\ UNCHANGED <<kind, files, sessions, lost>>
    BY <1>4 DEF NewAlias
  <2>2. \A g \in Used : handles'[g] = handles[g]
    <3>1. /\ handles[h].owner \in Callers /\ handles[h].type \in HandleTypes
          /\ handles[h].object \in Nat \cup Addresses
      BY <1>0 DEF HandlesTyped, Used
    <3> QED
      BY <1>0, <2>1, <3>1, AllocateKeeps
  <2> QED
    BY <2>1, <2>2, NothingNewLeaks
<1>5. CASE NewObject
  <2>1. PICK p \in Callers, t \in {"event", "mailbox"}, a \in Addresses :
          /\ kind' = [kind EXCEPT ![a] = t]
          /\ Allocate(p, t, a)
          /\ lost' = IF Used = Handle THEN lost \cup {a} ELSE lost
          /\ UNCHANGED <<files, sessions>>
    BY <1>5 DEF NewObject, ObjectCreate
  <2>2. t \in HandleTypes
    BY DEF HandleTypes
  <2>3. \A h \in Used : handles'[h] = handles[h]
    BY <1>0, <2>1, <2>2, AllocateKeeps
  <2>4. kind'[a] = t /\ \A b \in Addresses \ {a} : kind'[b] = kind[b]
    BY <1>0, <2>1 DEF ObjectsTyped
  <2>5. a \in lost' \/ Reachable(kind[a], a)'
    <3>1. CASE Used = Handle
      BY <2>1, <3>1
    <3>2. CASE Used # Handle
      <4>1. Reachable(t, a)'
        BY <1>0, <2>1, <2>2, <3>2, AllocateReaches
      <4> QED
        BY <2>4, <4>1 DEF Reachable
    <3> QED
      BY <3>1, <3>2
  <2>6. \A b \in Addresses : kind'[b] = kind[b] \/ b \in lost' \/ Reachable(kind[b], b)'
    BY <2>4, <2>5
  <2>7. lost \subseteq lost' /\ files' = files /\ sessions' = sessions
    BY <2>1
  <2> QED
    BY <2>3, <2>6, <2>7, NothingNewLeaks
<1>6. CASE NewFile
  <2>1. PICK p \in Callers : FileOpen(p)
    BY <1>6 DEF NewFile
  <2>2. PICK f \in File : f = Min(File \ files)
    BY <2>1, NumberIsFree DEF FileOpen
  <2>3. /\ Allocate(p, "file", f)
        /\ files' = IF Used # Handle THEN files \cup {f} ELSE files
        /\ UNCHANGED <<kind, sessions, lost>>
    BY <2>1, <2>2 DEF FileOpen, OpenedFor
  <2>4. PICK t \in HandleTypes : t = "file"
    BY DEF HandleTypes
  <2>5. \A h \in Used : handles'[h] = handles[h]
    BY <1>0, <2>2, <2>3, <2>4, AllocateKeeps
  <2>6. Used # Handle => Reachable("file", f)'
    BY <1>0, <2>2, <2>3, <2>4, AllocateReaches
  <2>7. \A g \in files' : g \in files \/ Reachable("file", g)'
    BY <2>3, <2>6
  <2> QED
    BY <2>3, <2>5, <2>7, NothingNewLeaks
<1>7. CASE NewSession
  <2>1. PICK p \in Callers : ServiceOpen(p)
    BY <1>7 DEF NewSession
  <2>2. PICK s \in Session : s = Min(IdleSessions)
    BY <2>1, NumberIsFree DEF ServiceOpen, IdleSessions
  <2>3. /\ Allocate(p, "service", s)
        /\ sessions' = IF Used # Handle THEN [sessions EXCEPT ![s] = [owner |-> p, provider |-> Provider]]
                       ELSE sessions
        /\ UNCHANGED <<kind, files, lost>>
    BY <2>1, <2>2 DEF ServiceOpen, SessionOpen, OpenedFor
  <2>4. PICK t \in HandleTypes : t = "service"
    BY DEF HandleTypes
  <2>5. \A h \in Used : handles'[h] = handles[h]
    BY <1>0, <2>2, <2>3, <2>4, AllocateKeeps
  <2>6. Used # Handle => Reachable("service", s)'
    BY <1>0, <2>2, <2>3, <2>4, AllocateReaches
  <2>7. \A r \in Session : sessions'[r] = Closed \/ sessions[r] # Closed \/ Reachable("service", r)'
    <3>1. \A r \in Session \ {s} : sessions'[r] = sessions[r]
      BY <1>0, <2>3 DEF ObjectsTyped
    <3> QED
      BY <2>3, <2>6, <3>1
  <2> QED
    BY <2>3, <2>5, <2>7, NothingNewLeaks
<1> QED
  BY <1>1, <1>2, <1>3, <1>4, <1>5, <1>6, <1>7, StepKinds

(* Whatever calls fail for want of a handle, every open file, every active *)
(* session and every event or mailbox has a handle, except for the events  *)
(* and mailboxes that were made when the table was full                    *)
(* (runtime_syscall_dispatch).                                             *)
THEOREM OpenIsReachable == Spec => []NothingLeaks
<1>1. Init => Typed /\ NothingLeaks
  BY InitTyped DEF Init, NothingLeaks
<1>2. (Typed /\ NothingLeaks) /\ [Next]_vars => (Typed /\ NothingLeaks)'
  BY TypedNext, NothingLeaksNext
<1> QED
  BY <1>1, <1>2, PTL DEF Spec

-----------------------------------------------------------------------------
(* What a call may not do to others.                                       *)

(* A step that changes no handle in use, and takes away nothing that a     *)
(* handle names, leaves the others alone.                                  *)
Untouched ==
  \A h \in Used : handles[h].owner # caller' =>
    /\ handles'[h] = handles[h]
    /\ handles[h].type \in {"event", "mailbox"} => kind'[handles[h].object] # "none"
    /\ handles[h].type = "file" => handles[h].object \in files'

(* Every step is of that sort.                                             *)
LEMMA UntouchedNext ==
  ASSUME Typed, NoDangling, [Next]_vars
  PROVE  Untouched
<1> USE TableFacts
<1>0. HandlesTyped /\ ObjectsTyped
  BY DEF Typed
<1>a. ASSUME \A h \in Used : handles'[h] = handles[h], files \subseteq files',
             \A a \in Addresses : kind'[a] = kind[a] \/ kind'[a] # "none"
      PROVE  Untouched
  <2>1. SUFFICES ASSUME NEW h \in Used
        PROVE  /\ handles'[h] = handles[h]
               /\ handles[h].type \in {"event", "mailbox"} => kind'[handles[h].object] # "none"
               /\ handles[h].type = "file" => handles[h].object \in files'
    BY DEF Untouched
  <2>2. handles[h].type \in {"event", "mailbox"} =>
          handles[h].object \in Addresses /\ kind[handles[h].object] = handles[h].type
    BY <1>0 DEF HandlesTyped, NoDangling
  <2> QED
    BY <1>a, <2>2 DEF NoDangling
<1>1. CASE Closes
  <2>1. PICK closing \in SUBSET Used : CloseHandles(closing) /\ \A h \in closing : handles[h].owner = caller'
    BY <1>1 DEF Closes
  <2>2. Used' = Used \ Freed(closing) /\ \A h \in Used' : handles'[h] = handles[h]
    BY <1>0, <2>1, UsedAfterClose
  <2>3. \A h \in Used : handles[h].owner # caller' => h \notin Freed(closing)
    BY <2>1 DEF Freed
  <2> QED
    BY <2>1, <2>2, <2>3, CloseKeepsNamed DEF Untouched
<1>2. CASE Keeps
  BY <1>2, <1>a DEF Keeps
<1>3. CASE NewProcess
  BY <1>0, <1>3, <1>a, AllocateKeeps DEF NewProcess, HandleTypes, Pid
<1>4. CASE NewAlias
  <2>1. PICK h \in Used :
          /\ Allocate(handles[h].owner, handles[h].type, handles[h].object)
          /\ UNCHANGED <<kind, files, sessions, lost>>
    BY <1>4 DEF NewAlias
  <2>2. /\ handles[h].owner \in Callers /\ handles[h].type \in HandleTypes
        /\ handles[h].object \in Nat \cup Addresses
    BY <1>0 DEF HandlesTyped, Used
  <2> QED
    BY <1>0, <1>a, <2>1, <2>2, AllocateKeeps
<1>5. CASE NewObject
  <2>1. PICK p \in Callers, t \in {"event", "mailbox"}, a \in Addresses :
          kind' = [kind EXCEPT ![a] = t] /\ Allocate(p, t, a) /\ UNCHANGED files
    BY <1>5 DEF NewObject, ObjectCreate
  <2>2. \A h \in Used : handles'[h] = handles[h]
    BY <1>0, <2>1, AllocateKeeps DEF HandleTypes
  <2>3. \A b \in Addresses : kind'[b] = kind[b] \/ kind'[b] # "none"
    BY <1>0, <2>1 DEF ObjectsTyped
  <2> QED
    BY <1>a, <2>1, <2>2, <2>3
<1>6. CASE NewFile
  <2>1. PICK p \in Callers : FileOpen(p)
    BY <1>6 DEF NewFile
  <2> DEFINE f == Min(File \ files)
  <2>2. f \in File
    BY <2>1, NumberIsFree DEF FileOpen
  <2>3. Allocate(p, "file", f) /\ files \subseteq files' /\ UNCHANGED kind
    BY <2>1 DEF FileOpen
  <2> HIDE DEF f
  <2> QED
    BY <1>0, <1>a, <2>2, <2>3, AllocateKeeps DEF HandleTypes
<1>7. CASE NewSession
  <2>1. PICK p \in Callers : ServiceOpen(p)
    BY <1>7 DEF NewSession
  <2> DEFINE s == Min(IdleSessions)
  <2>2. s \in Session
    BY <2>1, NumberIsFree DEF ServiceOpen, IdleSessions
  <2>3. Allocate(p, "service", s) /\ UNCHANGED <<kind, files>>
    BY <2>1 DEF ServiceOpen
  <2> HIDE DEF s
  <2> QED
    BY <1>0, <1>a, <2>2, <2>3, AllocateKeeps DEF HandleTypes
<1> QED
  BY <1>1, <1>2, <1>3, <1>4, <1>5, <1>6, <1>7, StepKinds

(* No call changes a handle of another process or destroys what that one   *)
(* names (runtime_syscall_check_handle_access, and the alias count of      *)
(* runtime_syscall_close_handle), for any number of processes.             *)
THEOREM CallsLeaveOthersAlone == Spec => OthersUntouched
<1>1. Init => Typed /\ NoDangling
  BY InitTyped DEF Init, NoDangling, Used
<1>2. (Typed /\ NoDangling) /\ [Next]_vars => (Typed /\ NoDangling)'
  BY TypedNext, NoDanglingNext
<1>3. (Typed /\ NoDangling) /\ [Next]_vars =>
        [\A h \in Used : handles[h].owner # caller' =>
           /\ handles'[h] = handles[h]
           /\ handles[h].type \in {"event", "mailbox"} => kind'[handles[h].object] # "none"
           /\ handles[h].type = "file" => handles[h].object \in files']_<<handles, kind, files, sessions>>
  BY UntouchedNext DEF Untouched
<1> QED
  BY <1>1, <1>2, <1>3, PTL DEF Spec, OthersUntouched
=============================================================================
