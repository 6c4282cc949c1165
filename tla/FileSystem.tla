----------------------------- MODULE FileSystem -----------------------------
(***************************************************************************)
(* What ramfs promises its callers, without inodes, blocks or dirents: a   *)
(* tree of files and directories named by paths, and descriptors that read *)
(* and write at an offset of a file.  Storage shows only through NO_SPACE  *)
(* and short writes, which the device may answer where the code can.       *)
(* RamFS implements this specification (RamFS!Refinement).                 *)
(***************************************************************************)
EXTENDS RamFSApi

CONSTANT MaxFile   \* what the whole device can hold, in bytes
ASSUME MaxFileAssumption == MaxFile \in Nat

VARIABLES
  tree,     \* path -> [type, data]
  handles,  \* descriptor -> [open, path, offset, flags]
  call,     \* the last call
  ret       \* its result

vars == <<tree, handles, call, ret>>

Root == <<>>
Node(type) == [type |-> type, data |-> <<>>]
Closed == [open |-> FALSE, path |-> Root, offset |-> 0, flags |-> {}]
Children(dir) == {p \in DOMAIN tree : p # Root /\ Parent(p) = dir}

Init ==
  /\ tree = [p \in {Root} |-> Node("DIR")]
  /\ handles = [fd \in Fds |-> Closed]
  /\ call = "init" /\ ret = Done

(***************************************************************************)
(* Paths                                                                   *)
(***************************************************************************)
(* The components of path at which a walk from "/" leaves the tree. *)
Missing(path) == {i \in 1..Len(path) : SubSeq(path, 1, i) \notin DOMAIN tree}

LookupError(path) ==
  IF path = BadPath THEN "BAD_PATH"
  ELSE IF Missing(path) = {} THEN "OK"
  ELSE LET i == MinOf(Missing(path))
       IN  IF path[i] \in LongNames THEN "NAME_LONG"
           ELSE IF tree[SubSeq(path, 1, i - 1)].type # "DIR" THEN "NOT_DIR"
           ELSE "NOT_FOUND"

(* Errors of adding an entry, NO_SPACE excepted. *)
AddError(path) ==
  IF SplitError(path) # "OK" THEN SplitError(path)
  ELSE IF LookupError(Parent(path)) # "OK" THEN LookupError(Parent(path))
  ELSE IF path \in DOMAIN tree THEN "EXISTS"
  ELSE IF Cardinality(DOMAIN tree) = NInodes THEN "NO_INODES"
  ELSE IF tree[Parent(path)].type # "DIR" THEN "NOT_DIR"
  ELSE "OK"

Grown_untyped(path, type) ==
  [p \in DOMAIN tree \cup {path} |-> IF p = path THEN Node("FREE") ELSE tree[p]]

Grown(path, type) ==
  [p \in DOMAIN tree \cup {path} |-> IF p = path THEN Node(type) ELSE tree[p]]
Pruned(path) == [p \in DOMAIN tree \ {path} |-> tree[p]]

(***************************************************************************)
(* Namespace operations                                                    *)
(***************************************************************************)
Add(path, type) ==
  /\ UNCHANGED handles
  /\ \/ /\ AddError(path) # "OK"
        /\ UNCHANGED tree
        /\ ret' = Failure(AddError(path))
     \/ /\ AddError(path) = "OK"
        /\ UNCHANGED tree
        /\ ret' = Failure("NO_SPACE")
     \/ /\ AddError(path) = "OK"
        /\ tree' = Grown(path, type)
        /\ ret' = Done

Mkdir(path) == Add(path, "DIR")
Create(path) == Add(path, "FILE")

RmdirError_unchecked(path) ==
  IF SplitError(path) # "OK" THEN SplitError(path)
  ELSE IF LookupError(path) # "OK" THEN LookupError(path)
  ELSE IF tree[path].type # "DIR" THEN "NOT_DIR" ELSE "OK"

RmdirError(path) ==
  IF SplitError(path) # "OK" THEN SplitError(path)
  ELSE IF LookupError(path) # "OK" THEN LookupError(path)
  ELSE IF tree[path].type # "DIR" THEN "NOT_DIR"
  ELSE IF Children(path) # {} THEN "NOT_EMPTY"
  ELSE "OK"

UnlinkError_unchecked(path) ==
  IF SplitError(path) # "OK" THEN SplitError(path)
  ELSE IF LookupError(path) # "OK" THEN LookupError(path)
  ELSE IF tree[path].type = "DIR" THEN "IS_DIR" ELSE "OK"

UnlinkError(path) ==
  IF SplitError(path) # "OK" THEN SplitError(path)
  ELSE IF LookupError(path) # "OK" THEN LookupError(path)
  ELSE IF tree[path].type = "DIR" THEN "IS_DIR"
  ELSE IF \E fd \in Fds : handles[fd].open /\ handles[fd].path = path THEN "IO"
  ELSE "OK"

Remove(path, err) ==
  /\ ret' = Failure(err)
  /\ tree' = IF err = "OK" THEN Pruned(path) ELSE tree
  /\ UNCHANGED handles

Rmdir(path) == Remove(path, RmdirError(path))
Unlink(path) == Remove(path, UnlinkError(path))

(***************************************************************************)
(* Queries.  A directory's size is only bounded: it counts holes.          *)
(***************************************************************************)
EntrySizes(path) ==
  IF tree[path].type = "FILE" THEN {Len(tree[path].data)}
  ELSE Cardinality(Children(path))..(NInodes - 1)

Stat(path) ==
  /\ UNCHANGED <<tree, handles>>
  /\ \/ /\ LookupError(path) # "OK"
        /\ ret' = Failure(LookupError(path))
     \/ /\ LookupError(path) = "OK"
        /\ \E size \in EntrySizes(path) :
             ret' = Success(0, <<StatEntry(IF path = Root THEN "/" ELSE Leaf(path),
                                           tree[path].type, size)>>)

List(path, max) ==
  /\ UNCHANGED <<tree, handles>>
  /\ \/ /\ LookupError(path) # "OK"
        /\ ret' = Failure(LookupError(path))
     \/ /\ LookupError(path) = "OK" /\ tree[path].type # "DIR"
        /\ ret' = Failure("NOT_DIR")
     \/ /\ LookupError(path) = "OK" /\ tree[path].type = "DIR"
        /\ LET n == Smaller(max, Cardinality(Children(path)))
           IN \E order \in [1..n -> Children(path)] :
                /\ \A i, j \in 1..n : order[i] = order[j] => i = j
                /\ \E size \in [1..n -> 0..MaxFile] :
                     /\ \A i \in 1..n : size[i] \in EntrySizes(order[i])
                     /\ ret' = Success(n, [i \in 1..n |->
                          StatEntry(Leaf(order[i]), tree[order[i]].type, size[i])])

(***************************************************************************)
(* Descriptors                                                             *)
(***************************************************************************)
FreeFds == {fd \in Fds : ~handles[fd].open}

(* open on a tree t: t is tree, or tree with the file that CREATE added. *)
Attach(t, path, flags) ==
  IF t[path].type = "DIR"
  THEN tree' = t /\ UNCHANGED handles /\ ret' = Failure("IS_DIR")
  ELSE IF FreeFds = {}
  THEN tree' = t /\ UNCHANGED handles /\ ret' = Failure("NO_FDS")
  ELSE LET fd == MinOf(FreeFds)
           node == IF "TRUNC" \in flags THEN Node("FILE") ELSE t[path]
       IN /\ tree' = [t EXCEPT ![path] = node]
          /\ handles' = [handles EXCEPT ![fd] =
               [open |-> TRUE, path |-> path, flags |-> flags,
                offset |-> IF "APPEND" \in flags THEN Len(node.data) ELSE 0]]
          /\ ret' = Success(fd, <<>>)

Open(path, flags) ==
  LET creates == LookupError(path) = "NOT_FOUND" /\ "CREATE" \in flags
  IN  \/ /\ LookupError(path) = "OK"
         /\ Attach(tree, path, flags)
      \/ /\ LookupError(path) # "OK" /\ ~creates
         /\ UNCHANGED <<tree, handles>>
         /\ ret' = Failure(LookupError(path))
      \/ /\ creates /\ AddError(path) = "OK"
         /\ Attach(Grown(path, "FILE"), path, flags)
      \/ /\ creates
         /\ UNCHANGED <<tree, handles>>
         /\ ret' = Failure(IF AddError(path) = "OK" THEN "NO_SPACE" ELSE AddError(path))

Usable(fd, flag) == fd \in Fds /\ handles[fd].open /\ flag \in handles[fd].flags
Refused == /\ UNCHANGED <<tree, handles>>
           /\ ret' = Failure("BAD_FD")

Read(fd, count) ==
  \/ ~Usable(fd, "READ") /\ Refused
  \/ /\ Usable(fd, "READ")
     /\ LET h == handles[fd]
            file == tree[h.path].data
            n == Smaller(count, Larger(0, Len(file) - h.offset))
        IN /\ handles' = [handles EXCEPT ![fd].offset = @ + n]
           /\ ret' = Success(n, SubSeq(file, h.offset + 1, h.offset + n))
           /\ UNCHANGED tree

(* file with the first n bytes of buf at offset off; a gap reads as zeros. *)
Overwritten(file, off, buf, n) ==
  [i \in 1..Larger(Len(file), off + n) |->
     IF i > off /\ i <= off + n THEN buf[i - off]
     ELSE IF i <= Len(file) THEN file[i] ELSE Zero]

(* A write takes a prefix of its buffer; only one that starts beyond the end
   of the file can be refused for want of space. *)
Write(fd, buf) ==
  \/ ~Usable(fd, "WRITE") /\ Refused
  \/ /\ Usable(fd, "WRITE")
     /\ LET h == handles[fd]
            file == tree[h.path].data
            off == IF "APPEND" \in h.flags THEN Len(file) ELSE h.offset
        IN \/ \E n \in 0..Len(buf) :
                /\ off + n <= MaxFile
                /\ tree' = [tree EXCEPT ![h.path].data = Overwritten(file, off, buf, n)]
                /\ handles' = [handles EXCEPT ![fd].offset = off + n]
                /\ ret' = Success(n, <<>>)
           \/ /\ off > Len(file)
              /\ UNCHANGED <<tree, handles>>
              /\ ret' = Failure("NO_SPACE")

Seek(fd, offset) ==
  \/ ~(fd \in Fds /\ handles[fd].open) /\ Refused
  \/ /\ fd \in Fds /\ handles[fd].open
     /\ handles' = [handles EXCEPT ![fd].offset = offset]
     /\ ret' = Done
     /\ UNCHANGED tree

Close(fd) ==
  \/ ~(fd \in Fds /\ handles[fd].open) /\ Refused
  \/ /\ fd \in Fds /\ handles[fd].open
     /\ handles' = [handles EXCEPT ![fd] = Closed]
     /\ ret' = Done
     /\ UNCHANGED tree

Called(name) == call' = name

Next ==
  \/ \E path \in Paths :
       \/ Called("mkdir") /\ Mkdir(path)
       \/ Called("create") /\ Create(path)
       \/ Called("rmdir") /\ Rmdir(path)
       \/ Called("unlink") /\ Unlink(path)
       \/ Called("stat") /\ Stat(path)
       \/ \E max \in ListMaxes : Called("list") /\ List(path, max)
       \/ \E flags \in FlagSets : Called("open") /\ Open(path, flags)
  \/ \E fd \in -1..NFds :
       \/ \E count \in ReadCounts : Called("read") /\ Read(fd, count)
       \/ \E buf \in Buffers : Called("write") /\ Write(fd, buf)
       \/ \E offset \in SeekOffsets : Called("seek") /\ Seek(fd, offset)
       \/ Called("close") /\ Close(fd)

Spec == Init /\ [][Next]_vars

(***************************************************************************)
(* Properties                                                              *)
(***************************************************************************)
(* The tree maps paths to nodes, handles hold a path, an offset and flags, and
   a call returns a code of ramfs.h. *)
TypeOK ==
  /\ DOMAIN tree \subseteq AbsolutePaths
  /\ tree \in [DOMAIN tree -> [type : {"FILE", "DIR"}, data : Seq(Cells)]]
  /\ handles \in [Fds -> [open : BOOLEAN, path : AbsolutePaths, offset : Nat,
                          flags : SUBSET {"READ", "WRITE", "CREATE", "TRUNC", "APPEND"}]]
  /\ call \in Calls /\ ret.err \in Errors

(* "/" is a directory and every other node lies in one: removing a directory
   never strands what is below it, and nothing is added below a file.  There
   are never more nodes than inodes. *)
TreeClosed ==
  /\ Root \in DOMAIN tree
  /\ tree[Root].type = "DIR"
  /\ \A p \in DOMAIN tree : p # Root => /\ Parent(p) \in DOMAIN tree
                                        /\ tree[Parent(p)].type = "DIR"
                                        /\ Leaf(p) \notin LongNames
  /\ Cardinality(DOMAIN tree) <= NInodes

(* An open handle is on a file that is still in the tree. *)
HandlesLive ==
  \A fd \in Fds : handles[fd].open => /\ handles[fd].path \in DOMAIN tree
                                      /\ tree[handles[fd].path].type = "FILE"
=============================================================================
