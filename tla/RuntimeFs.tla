------------------------------ MODULE RuntimeFs ------------------------------
(***************************************************************************)
(* The in-memory file system of kernel/runtime_fs.c: a table of nodes that *)
(* form a directory tree, and a table of open files.                       *)
(*                                                                         *)
(* A call runs to its end before the next (the kernel is cooperative and   *)
(* none of them blocks), so each operation is one action.  A call that is  *)
(* refused changes nothing, and is no step, but for runtime_fs_open, which *)
(* creates and truncates before its last checks.                           *)
(*                                                                         *)
(* A path is the sequence of its pieces between slashes: "/" is <<>>,      *)
(* "/a/b" is <<a, b>> and "//" is <<Empty>>, fs_token_next skipping empty  *)
(* pieces.  Paths that are not absolute, or with a piece too long for a    *)
(* node name, are refused by every call.                                   *)
(***************************************************************************)
EXTENDS Naturals, Sequences, FiniteSets

CONSTANTS
  MaxNodes,   (* RUNTIME_FS_MAX_NODES                                      *)
  MaxOpen,    (* RUNTIME_FS_MAX_OPEN_FILES                                 *)
  Capacity,   (* RUNTIME_FS_FILE_CAPACITY                                  *)
  Names,      (* pieces of paths                                           *)
  Empty,      (* the empty piece, which may be in Names; no node but the   *)
              (* root, whose name is "/", is called so                     *)
  Path,       (* the paths that the calls are made with                    *)
  Pids,       (* callers                                                   *)
  FlagSets,   (* the flags that runtime_fs_open is called with             *)
  Modes       (* the modes that runtime_fs_mkdir is called with, as the    *)
              (* subsets of {"read", "write"} that they permit to someone  *)

NoOwner == 0                        \* owner_pid of the root and of free nodes

ASSUME RuntimeFsAssumption ==
  /\ MaxNodes \in Nat \ {0}
  /\ MaxOpen \in Nat
  /\ Capacity \in Nat
  /\ Path \subseteq Seq(Names)
  /\ NoOwner \notin Pids
  /\ FlagSets \subseteq SUBSET {"read", "write", "create", "truncate"}
  /\ Modes \subseteq SUBSET {"read", "write"}

Node == 0 .. (MaxNodes - 1)
Root == 0
None == MaxNodes                    \* -1
File == 1 .. MaxOpen                \* file objects

VARIABLES
  kind,    \* "free", "dir" or "reg": used and type
  parent,  \* parent_index
  name, owner, mode,
  size, data,  \* a byte is 0, or 1 once it was written
  files    \* the open files

tree == <<kind, parent, name, owner, mode>>
contents == <<size, data>>
vars == <<tree, contents, files>>

Zeros == [i \in 0 .. (Capacity - 1) |-> 0]
Closed == [node |-> None, flags |-> {}, owner |-> NoOwner, offset |-> 0, cursor |-> 0]
Opened == {f \in File : files[f] # Closed}

Least(S) == IF S = {} THEN None ELSE CHOOSE n \in S : \A m \in S : n <= m

-----------------------------------------------------------------------------
(* Paths.                                                                  *)

\* fs_token_next, all the way
Tokens(path) ==
  LET upTo[k \in 0 .. Len(path)] ==
        IF k = 0 THEN <<>>
        ELSE IF path[k] = Empty THEN upTo[k - 1] ELSE Append(upTo[k - 1], path[k])
  IN  upTo[Len(path)]
Leaf(path) == Tokens(path)[Len(Tokens(path))]

\* fs_find_child
Child(d, piece) ==
  Least({n \in Node : kind[n] # "free" /\ parent[n] = d /\ name[n] = piece})

\* The nodes along a path of these pieces, from the root on
Steps(pieces) ==
  LET at[k \in 0 .. Len(pieces)] ==
        IF k = 0 THEN Root
        ELSE LET d == at[k - 1] IN IF d = None THEN None ELSE Child(d, pieces[k])
  IN  at

\* fs_resolve_path
Resolve(path) == LET pieces == Tokens(path) IN Steps(pieces)[Len(pieces)]

\* fs_resolve_parent_path, None for each of its errors
Parent(path) ==
  LET pieces == Tokens(path)
      at == Steps(pieces)
      last == Len(pieces) - 1
  IN  IF pieces = <<>> THEN None
      ELSE IF \A k \in 1 .. last : at[k] # None /\ kind[at[k]] = "dir"
           THEN at[last] ELSE None

\* fs_path_is_root looks at the spelling.
IsRoot(path) == path = <<>>

-----------------------------------------------------------------------------
(* Nodes.                                                                  *)

\* fs_node_owner_allows
Allows(n, p) == owner[n] \in {NoOwner, p}

\* fs_alloc_node's choice
FreeNode == Least({n \in Node \ {Root} : kind[n] = "free"})

\* Each column after node n was (re)written
Fill(n, k, d, piece, p, m) ==
  /\ kind' = [kind EXCEPT ![n] = k]
  /\ parent' = [parent EXCEPT ![n] = d]
  /\ name' = [name EXCEPT ![n] = piece]
  /\ owner' = [owner EXCEPT ![n] = p]
  /\ mode' = [mode EXCEPT ![n] = m]

\* fs_alloc_node, or truncation: size 0 and a data area of zeros (mutated
\* form: the old bytes stay)
EmptiedKeepingBytes(n) == size' = [size EXCEPT ![n] = 0] /\ UNCHANGED data
Emptied(n) ==
  /\ size' = [size EXCEPT ![n] = 0]
  /\ data' = [data EXCEPT ![n] = Zeros]

\* fs_node_has_open_writer, and fs_node_is_open (mutated form: the former)
HasWriter(n) == \E f \in Opened : files[f].node = n /\ "write" \in files[f].flags
IsOpen(n) == \E f \in Opened : files[f].node = n

HasChildren(n) == \E m \in Node \ {n} : kind[m] # "free" /\ parent[m] = n

\* The nodes fs_parent_chain_contains meets, from d up to the root
Chain(d) ==
  LET at[k \in Node] ==
        IF k = 0 THEN d
        ELSE LET n == at[k - 1] IN IF n = Root THEN Root ELSE parent[n]
  IN  {at[k] : k \in Node} \ {Root}

\* runtime_fs_mkdir
Mkdir(p, path, m) ==
  LET d == Parent(path)
      n == FreeNode
  IN  /\ ~IsRoot(path)
      /\ Resolve(path) = None
      /\ d # None /\ Allows(d, p)
      /\ n # None
      /\ Fill(n, "dir", d, Leaf(path), p, m)
      /\ Emptied(n)
      /\ UNCHANGED files

\* runtime_fs_remove
Remove(p, path) ==
  LET n == Resolve(path)
  IN  /\ ~IsRoot(path)
      /\ n # None
      /\ Allows(n, p) /\ Allows(parent[n], p)
      /\ ~IsOpen(n)
      /\ ~(kind[n] = "dir" /\ HasChildren(n))
      /\ Fill(n, "free", Root, Empty, NoOwner, {})
      /\ Emptied(n)
      /\ UNCHANGED files

\* Whether the node n may go under d (mutated form: even when d is below n)
MovesAnywhere(n, d) == TRUE
MayMove(n, d) == ~(kind[n] = "dir" /\ n \in Chain(d))

\* runtime_fs_rename
Rename(p, old, new) ==
  LET n == Resolve(old)
      d == Parent(new)
  IN  /\ old # new
      /\ ~IsRoot(old) /\ ~IsRoot(new)
      /\ n # None
      /\ Resolve(new) = None
      /\ d # None
      /\ Allows(n, p) /\ Allows(parent[n], p) /\ Allows(d, p)
      /\ MayMove(n, d)
      /\ parent' = [parent EXCEPT ![n] = d]
      /\ name' = [name EXCEPT ![n] = Leaf(new)]
      /\ UNCHANGED <<kind, owner, mode, contents, files>>

-----------------------------------------------------------------------------
(* Open files.                                                             *)

\* Where runtime_fs_open is refused once it has a node, before and after it
\* truncates (mutated form: only one of the two later checks)
RefusedEarly(n, flags) ==
  \/ kind[n] = "free"
  \/ kind[n] = "dir" /\ "write" \in flags
  \/ (flags \cap {"read", "write"}) \ mode[n] # {}
RefusedIfBusy(n, p, flags) == "write" \in flags /\ HasWriter(n)
RefusedIfForeign(n, p, flags) ==
  flags \cap {"write", "truncate"} # {} /\ ~Allows(n, p)
RefusedLate(n, p, flags) ==
  \/ RefusedIfBusy(n, p, flags)
  \/ RefusedIfForeign(n, p, flags)

\* fs_open_slot_alloc, which may find no slot
Slotted(n, p, flags) ==
  IF Opened = File THEN UNCHANGED files
  ELSE LET f == CHOOSE g \in File \ Opened : \A h \in File \ Opened : g <= h
       IN  files' = [files EXCEPT ![f] = [node |-> n, flags |-> flags \cap {"read", "write"},
                                          owner |-> p, offset |-> 0, cursor |-> 0]]

\* runtime_fs_open of a node that exists
OpenExisting(p, path, flags) ==
  LET n == Resolve(path)
  IN  /\ n # None
      /\ ~RefusedEarly(n, flags)
      /\ IF "truncate" \in flags /\ kind[n] = "reg" THEN Emptied(n)
         ELSE UNCHANGED contents
      /\ IF RefusedLate(n, p, flags) THEN UNCHANGED files ELSE Slotted(n, p, flags)
      /\ UNCHANGED tree

\* runtime_fs_open that creates its file: the caller owns it and mode 0644
\* refuses nothing
OpenCreating(p, path, flags) ==
  LET d == Parent(path)
      n == FreeNode
  IN  /\ "create" \in flags
      /\ Resolve(path) = None
      /\ d # None /\ Allows(d, p)
      /\ n # None
      /\ Fill(n, "reg", d, Leaf(path), p, {"read", "write"})
      /\ Emptied(n)
      /\ Slotted(n, p, flags)

OpenRegular(f, flag) ==
  /\ f \in Opened
  /\ flag \in files[f].flags
  /\ kind[files[f].node] = "reg"

\* runtime_fs_read of up to count bytes
Read(f, count) ==
  LET n == files[f].node
      left == size[n] - files[f].offset
  IN  /\ OpenRegular(f, "read")
      /\ files[f].offset < size[n]
      /\ files' = [files EXCEPT ![f].offset = @ + (IF count < left THEN count ELSE left)]
      /\ UNCHANGED <<tree, contents>>

\* runtime_fs_write of count bytes, after the gap up to the offset was
\* zeroed
Fits(end) == end <= Capacity
Write(f, count) ==
  LET n == files[f].node
      from == files[f].offset
      end == from + count
  IN  /\ OpenRegular(f, "write")
      /\ Fits(end)
      /\ data' = [data EXCEPT ![n] =
                   [i \in DOMAIN @ |-> IF i \in from .. (end - 1) THEN 1
                                       ELSE IF i \in size[n] .. (from - 1) THEN 0 ELSE @[i]]]
      /\ size' = [size EXCEPT ![n] = IF end > @ THEN end ELSE @]
      /\ files' = [files EXCEPT ![f].offset = end]
      /\ UNCHANGED tree

\* runtime_fs_seek, from any base
Seek(f, offset) ==
  /\ f \in Opened
  /\ kind[files[f].node] = "reg"
  /\ files' = [files EXCEPT ![f].offset = offset]
  /\ UNCHANGED <<tree, contents>>

\* runtime_fs_readdir, when it returns an entry
Readdir(f) ==
  LET entry == Least({n \in Node : /\ n >= files[f].cursor
                                   /\ kind[n] # "free" /\ parent[n] = files[f].node})
  IN  /\ f \in Opened
      /\ "read" \in files[f].flags
      /\ kind[files[f].node] = "dir"
      /\ entry # None
      /\ files' = [files EXCEPT ![f].cursor = entry + 1]
      /\ UNCHANGED <<tree, contents>>

\* runtime_fs_close
Close(f) ==
  /\ f \in Opened
  /\ files' = [files EXCEPT ![f] = Closed]
  /\ UNCHANGED <<tree, contents>>

\* runtime_fs_init
Init ==
  /\ kind = [n \in Node |-> IF n = Root THEN "dir" ELSE "free"]
  /\ parent = [n \in Node |-> Root]
  /\ name = [n \in Node |-> Empty]
  /\ owner = [n \in Node |-> NoOwner]
  /\ mode = [n \in Node |-> IF n = Root THEN {"read", "write"} ELSE {}]
  /\ size = [n \in Node |-> 0]
  /\ data = [n \in Node |-> Zeros]
  /\ files = [f \in File |-> Closed]

Next ==
  \/ \E p \in Pids, path \in Path, m \in Modes : Mkdir(p, path, m)
  \/ \E p \in Pids, path \in Path : Remove(p, path)
  \/ \E p \in Pids, old \in Path, new \in Path : Rename(p, old, new)
  \/ \E p \in Pids, path \in Path, flags \in FlagSets : OpenExisting(p, path, flags)
  \/ \E p \in Pids, path \in Path, flags \in FlagSets : OpenCreating(p, path, flags)
  \/ \E f \in File, count \in 1 .. Capacity : Read(f, count)
  \/ \E f \in File, count \in 1 .. Capacity : Write(f, count)
  \/ \E f \in File, offset \in 0 .. Capacity : Seek(f, offset)
  \/ \E f \in File : Readdir(f)
  \/ \E f \in File : Close(f)

Spec == Init /\ [][Next]_vars

-----------------------------------------------------------------------------
(* Properties.                                                             *)

Used == {n \in Node : kind[n] # "free"}

(* The root is the directory that runtime_fs_init made: a remove and a     *)
(* rename of it are refused (fs_path_is_root).                             *)
RootStays == kind[Root] = "dir" /\ parent[Root] = Root /\ name[Root] = Empty

(* The nodes below the root's slot are always a tree, whatever is made,    *)
(* removed and moved: every used one is named, has that slot or a used     *)
(* directory as its parent and leads up to that slot without coming back   *)
(* to itself, and no directory holds a name twice (the checks of nodes of  *)
(* runtime_fs_validate but for those of the root, which are RootStays).    *)
DirectoryTree ==
  /\ \A n \in Used \ {Root} :
       /\ name[n] # Empty
       /\ parent[n] # Root => kind[parent[n]] = "dir"
       /\ n \notin Chain(parent[n])
  /\ \A n, m \in Used \ {Root} : parent[n] = parent[m] /\ name[n] = name[m] => n = m

(* An open file stays the file it was opened as: its node is not freed or  *)
(* given to another file under it, renamed though it may be                *)
(* (fs_node_is_open).                                                      *)
OpenKeepsNode ==
  [][\A f \in File :
       f \in Opened /\ files'[f] # Closed =>
         LET n == files[f].node
         IN  files'[f].node = n /\ kind'[n] = kind[n] /\ owner'[n] = owner[n]]_vars

(* A file has at most one writer, and the writer owns it: no sequence of  *)
(* opens, renames, removals and reuses of node slots leaves a foreign or a *)
(* second one (fs_node_has_open_writer, fs_node_owner_allows).             *)
WritersOwn ==
  \A f \in Opened : "write" \in files[f].flags =>
    /\ kind[files[f].node] = "reg" /\ Allows(files[f].node, files[f].owner)
    /\ \A g \in Opened \ {f} : files[g].node = files[f].node => "write" \notin files[g].flags

(* What lies beyond the size of a file is zero, so that a gap left by a    *)
(* seek past the end reads as zeros and no byte of a removed or truncated  *)
(* file comes back (fs_zero_range, fs_alloc_node, fs_clear_node).          *)
NoStaleBytes == \A n \in Node : \A i \in size[n] .. (Capacity - 1) : data[n][i] = 0
=============================================================================
