------------------------------ MODULE FsImage ------------------------------
(***************************************************************************)
(* Images of the file system: runtime_fs_image_export, _validate and       *)
(* _import of kernel/runtime_fs_image.c, and runtime_fs_validate.          *)
(*                                                                         *)
(* An image is its header, its records in the order of their nodes, the    *)
(* hashes of the Merkle tree over them, and the payload, which holds the   *)
(* bytes of the files one after the other.  A hash is the value that was   *)
(* hashed: FNV-1a tells any two inputs apart that have the same length and *)
(* differ in one byte, which are the ones the properties compare.          *)
(*                                                                         *)
(* The name in a record is 16 bytes: text is the name up to its NUL, or    *)
(* its first 15 characters if none of the 16 bytes is a NUL, which ends    *)
(* tells.  No check of the code tells apart what lies behind the NUL, nor  *)
(* which 16th character there is, other than by the hash.                  *)
(***************************************************************************)
EXTENDS RuntimeFs, FiniteSetsExt

CONSTANTS
  MaxLeaves   (* RUNTIME_FS_IMAGE_MAX_TREE_LEAVES                          *)

HeaderBytes == 40                   \* RUNTIME_FS_IMAGE_HEADER_BYTES
RecordBytes == 56                   \* RUNTIME_FS_IMAGE_RECORD_BYTES

\* runtime_fs_image_next_pow2, up to 16
NextPow2(n) == Min({k \in {1, 2, 4, 8, 16} : k >= n})

\* RUNTIME_FS_MAX_NODES is 16 leaves' worth, so every tree fits.
ASSUME FsImageAssumption ==
  /\ MaxNodes \in 1 .. 16
  /\ MaxLeaves \in Nat /\ NextPow2(MaxNodes) <= MaxLeaves

\* The nodes as one value: what an import writes
Columns == [kind |-> kind, parent |-> parent, name |-> name, owner |-> owner,
            mode |-> mode, size |-> size, data |-> data]

\* current after depth steps of a walk along the parents
Walk(from, up, depth) ==
  LET at[k \in 0 .. depth] == IF k = 0 THEN from
                              ELSE IF at[k - 1] = Root THEN Root ELSE up[at[k - 1]]
  IN  at[depth]

-----------------------------------------------------------------------------
(* runtime_fs_validate of the nodes t and of the open files.               *)

ValidNode(t, n) ==
  /\ t.name[n] # Empty
  /\ t.parent[n] \in Node
  /\ t.kind[t.parent[n]] = "dir"
  /\ t.size[n] <= Capacity
  /\ Walk(n, t.parent, MaxNodes) = Root
  /\ \A depth \in 1 .. MaxNodes : t.kind[Walk(n, t.parent, depth)] # "free"
  /\ \A peer \in (n + 1) .. (MaxNodes - 1) :
       t.kind[peer] # "free" /\ t.parent[peer] = t.parent[n] => t.name[peer] # t.name[n]

ValidNodes(t) ==
  /\ t.kind[Root] = "dir" /\ t.parent[Root] = Root /\ t.name[Root] = Empty
  /\ \A n \in Node \ {Root} : t.kind[n] # "free" => ValidNode(t, n)

ValidFiles ==
  \A f \in Opened :
    /\ files[f].node \in Node /\ kind[files[f].node] # "free"
    /\ kind[files[f].node] = "reg" => files[f].offset <= Capacity
    /\ kind[files[f].node] = "dir" => "write" \notin files[f].flags

-----------------------------------------------------------------------------
(* Hashes.                                                                 *)

EmptyHash == <<>>
ObjectHash(r) ==
  <<r.node, r.type, r.parent, r.owner, r.mode, r.size, r.offset, r.bytes, r.dataHash, r.name>>

\* The hashes of the tree with these leaves, the root first
TreeHashes(leaf, leaves) ==
  LET hash[i \in 0 .. (2 * leaves - 2)] ==
        IF i >= leaves - 1
        THEN LET k == i - (leaves - 1) + 1
             IN  IF k <= Len(leaf) THEN leaf[k] ELSE EmptyHash
        ELSE <<hash[2 * i + 1], hash[2 * i + 2]>>
  IN  hash

-----------------------------------------------------------------------------
(* runtime_fs_image_export.                                                *)

Exportable == ValidNodes(Columns) /\ ValidFiles /\ Opened = {}

\* data_size of a node, and payload_cursor in front of it (mutated form:
\* the cursor is moved before it is stored)
DataSize(n) == IF kind[n] = "reg" THEN size[n] ELSE 0
PayloadCursor ==
  LET at[n \in 0 .. MaxNodes] == IF n = 0 THEN 0 ELSE at[n - 1] + DataSize(n - 1)
  IN  at
OffsetAfter(n) == PayloadCursor[n + 1]
OffsetOf(n) == PayloadCursor[n]

\* runtime_fs_image_copy_name of the name of a node, which always has a NUL
Ended(text) == [text |-> text, ends |-> TRUE]

Bytes(n) == [i \in 1 .. DataSize(n) |-> data[n][i - 1]]

RecordOf(n) ==
  LET r == [node |-> n, type |-> kind[n], parent |-> parent[n], owner |-> owner[n],
            mode |-> mode[n], size |-> size[n], offset |-> OffsetOf(n), bytes |-> DataSize(n),
            dataHash |-> Bytes(n), name |-> Ended(name[n]), objectHash |-> EmptyHash]
  IN  [r EXCEPT !.objectHash = ObjectHash(r)]

\* image_bytes
ImageBytes(h) == HeaderBytes + h.count * RecordBytes + h.hashes * 4 + h.data

\* The image of these records and this payload, with all its hashes
Sealed(records, payload) ==
  LET leaves == NextPow2(Len(records))
      hash == TreeHashes([k \in DOMAIN records |-> records[k].objectHash], leaves)
      h == [count |-> Len(records), leaves |-> leaves, hashes |-> 2 * leaves - 1,
            data |-> Len(payload), root |-> hash[0], bytes |-> 0]
  IN  [header |-> [h EXCEPT !.bytes = ImageBytes(h)],
       records |-> records, hash |-> hash, payload |-> payload]

\* The used nodes below n, in the order of the table
NodesBelow ==
  LET below[n \in 0 .. MaxNodes] ==
        IF n = 0 THEN <<>>
        ELSE IF kind[n - 1] = "free" THEN below[n - 1] ELSE Append(below[n - 1], n - 1)
  IN  below

Export ==
  LET nodes == NodesBelow[MaxNodes]
      upTo[k \in 0 .. Len(nodes)] == IF k = 0 THEN <<>> ELSE upTo[k - 1] \o Bytes(nodes[k])
  IN  Sealed([k \in DOMAIN nodes |-> RecordOf(nodes[k])], upTo[Len(nodes)])

-----------------------------------------------------------------------------
(* runtime_fs_image_validate of an image in a buffer of bufferBytes.       *)

\* runtime_fs_image_parse_header
HeaderOk(h, bufferBytes) ==
  /\ h.count \in 1 .. MaxNodes
  /\ h.leaves \in 1 .. MaxLeaves
  /\ h.hashes = 2 * h.leaves - 1
  /\ h.leaves >= h.count
  /\ NextPow2(h.leaves) = h.leaves
  /\ h.bytes = ImageBytes(h)
  /\ h.bytes = bufferBytes

\* expected_payload_offset after each record
ExpectedOffset(records) ==
  LET at[k \in 0 .. Len(records)] == IF k = 0 THEN 0 ELSE at[k - 1] + records[k].bytes
  IN  at

\* The checks of one record
RecordOk(image, k) ==
  LET r == image.records[k]
  IN  /\ r.node \in Node
      /\ k = 1 => r.node = Root /\ r.parent = Root /\ r.type = "dir" /\ r.name.text = Empty
      /\ k # 1 => r.node > image.records[k - 1].node /\ r.name.text # Empty
      /\ r.type \in {"dir", "reg"}
      /\ r.bytes = IF r.type = "dir" THEN 0 ELSE r.size
      /\ r.size <= Capacity
      /\ r.offset = ExpectedOffset(image.records)[k - 1]
      /\ r.offset + r.bytes <= image.header.data
      /\ r.dataHash = SubSeq(image.payload, r.offset + 1, r.offset + r.bytes)
      /\ r.objectHash = ObjectHash(r)

\* The parents of the records: directories that lead to the root (mutated
\* form: only the parent itself is looked at)
ParentIsDirectory(records, k) ==
  \E j \in DOMAIN records : records[j].node = records[k].parent /\ records[j].type = "dir"
ParentOk(records, k) ==
  LET at(n) == CHOOSE j \in DOMAIN records : records[j].node = n
      nodes == {records[j].node : j \in DOMAIN records}
      up == [n \in nodes |-> records[at(n)].parent]
  IN  /\ ParentIsDirectory(records, k)
      /\ \A j \in DOMAIN records : records[j].parent \in nodes
      /\ Walk(records[k].node, up, MaxNodes) = Root

\* runtime_fs_image_name_equals_bounded: a name without a NUL equals none,
\* not even itself
NameEquals(left, right) == left.ends /\ right.ends /\ left.text = right.text

SiblingsDiffer(records) ==
  \A j, k \in DOMAIN records :
    j < k /\ records[j].parent = records[k].parent =>
      ~NameEquals(records[j].name, records[k].name)

\* The Merkle tree (mutated form: the root of the header is not compared)
TreeOkBelowRoot(image) ==
  image.hash = TreeHashes([k \in DOMAIN image.records |-> image.records[k].objectHash],
                          image.header.leaves)
TreeOk(image) == TreeOkBelowRoot(image) /\ image.hash[0] = image.header.root

Validate(image, bufferBytes) ==
  /\ HeaderOk(image.header, bufferBytes)
  /\ \A k \in DOMAIN image.records : RecordOk(image, k)
  /\ ExpectedOffset(image.records)[Len(image.records)] = image.header.data
  /\ \A k \in DOMAIN image.records : ParentOk(image.records, k)
  /\ SiblingsDiffer(image.records)
  /\ TreeOk(image)

-----------------------------------------------------------------------------
(* runtime_fs_image_import of a valid image: runtime_fs_init, then every   *)
(* node and open file is cleared, then the records are copied, their names *)
(* cut to 15 characters.                                                   *)

Imported(image) ==
  LET records == image.records
      in(n) == \E k \in DOMAIN records : records[k].node = n
      of(n) == records[CHOOSE k \in DOMAIN records : records[k].node = n]
      byte(r, i) == IF i < r.bytes THEN image.payload[r.offset + i + 1] ELSE 0
  IN  [kind |-> [n \in Node |-> IF in(n) THEN of(n).type ELSE "free"],
       parent |-> [n \in Node |-> IF in(n) THEN of(n).parent ELSE Root],
       name |-> [n \in Node |-> IF in(n) THEN of(n).name.text ELSE Empty],
       owner |-> [n \in Node |-> IF in(n) THEN of(n).owner ELSE NoOwner],
       mode |-> [n \in Node |-> IF in(n) THEN of(n).mode ELSE {}],
       size |-> [n \in Node |-> IF in(n) THEN of(n).size ELSE 0],
       data |-> [n \in Node |-> [i \in 0 .. (Capacity - 1) |->
                                   IF in(n) THEN byte(of(n), i) ELSE 0]]]

\* runtime_fs_stress_checkpoint_roundtrip of the kernel
Checkpoint ==
  LET image == Export
      t == Imported(image)
  IN  /\ Exportable
      /\ Validate(image, image.header.bytes)
      /\ kind' = t.kind /\ parent' = t.parent /\ name' = t.name
      /\ owner' = t.owner /\ mode' = t.mode /\ size' = t.size /\ data' = t.data
      /\ files' = [f \in File |-> Closed]

ImageNext == Next \/ Checkpoint
ImageSpec == Init /\ [][ImageNext]_vars

-----------------------------------------------------------------------------
(* Properties, of every file system that the operations can build.         *)

(* What is exported is valid, and its import is the file system again:     *)
(* slots, owners, modes and bytes, with no gap in the payload for holes in *)
(* the node table (runtime_fs_image_export and _import).  An export is     *)
(* refused only while a file is open, or once the root is gone.            *)
RoundTripRestores ==
  Opened = {} /\ RootStays =>
    /\ Exportable
    /\ Validate(Export, Export.header.bytes)
    /\ Imported(Export) = Columns

\* The values an edit may give to the fields of a record
FieldValues ==
  [node |-> 0 .. MaxNodes, type |-> {"dir", "reg"}, parent |-> 0 .. MaxNodes,
   owner |-> Pids \cup {NoOwner}, mode |-> SUBSET {"read", "write"},
   size |-> 0 .. (Capacity + 1), offset |-> 0 .. (Capacity + 1),
   bytes |-> 0 .. (Capacity + 1), dataHash |-> {<<2>>},
   name |-> {Ended(Empty)} \cup [text : Names \ {Empty}, ends : BOOLEAN],
   objectHash |-> {<<2>>}]

\* The records of an image with one field edited
Edited(image) ==
  (UNION {UNION {{[image.records EXCEPT ![k][field] = v] : v \in FieldValues[field]} :
                   field \in DOMAIN FieldValues} : k \in DOMAIN image.records})
    \ {image.records}

(* A damaged image is refused: whichever single field of a record, number  *)
(* of the header, hash or byte of the payload differs from what was        *)
(* exported, runtime_fs_image_validate says so.                            *)
DamageDetected ==
  Exportable =>
    LET image == Export
        size0 == image.header.bytes
    IN  /\ \A records \in Edited(image) :
             ~Validate([image EXCEPT !.records = records], size0)
        /\ \A i \in DOMAIN image.hash :
             ~Validate([image EXCEPT !.hash[i] = <<2>>], size0)
        /\ \A i \in DOMAIN image.payload :
             ~Validate([image EXCEPT !.payload[i] = 1 - @], size0)
        /\ \A part \in {"count", "leaves", "hashes", "data", "bytes"} :
             ~Validate([image EXCEPT !.header[part] = @ + 1], size0)
        /\ ~Validate([image EXCEPT !.header.root = <<2>>], size0)

\* Two records of one directory whose names an import makes the same
NamesCollide(records) ==
  \E j, k \in DOMAIN records :
    /\ j # k
    /\ records[j].parent = records[k].parent
    /\ records[j].name.text = records[k].name.text

(* An image whose hashes fit but whose tree was edited is either refused   *)
(* before anything is cleared, or imports as a file system that            *)
(* runtime_fs_validate accepts: no import ends with an error after it has  *)
(* replaced the file system.  There is exactly one exception: the two      *)
(* validations disagree on siblings whose names are the same but for a     *)
(* 16th character, which the image's one tells apart and the import cuts.  *)
AcceptedIsValid ==
  Exportable =>
    \A records \in Edited(Export) :
      LET resealed == [k \in DOMAIN records |->
                         [records[k] EXCEPT !.objectHash = ObjectHash(records[k])]]
          image == Sealed(resealed, Export.payload)
      IN  Validate(image, image.header.bytes) =>
            (ValidNodes(Imported(image)) <=> ~NamesCollide(image.records))
=============================================================================
