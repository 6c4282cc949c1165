-------------------------- MODULE FileSystemProof --------------------------
(***************************************************************************)
(* Proofs about FileSystem, for any names, depth, number of inodes and     *)
(* descriptors, buffers and device size.                                   *)
(***************************************************************************)
EXTENDS FileSystem, FiniteSetTheorems, SequenceTheorems, TLAPS

(* The parent of a path other than "/" is a path. *)
LEMMA ParentIsPath ==
  ASSUME NEW path \in AbsolutePaths, path # Root
  PROVE  /\ path \in Seq(Names) /\ Len(path) \in Nat \ {0}
         /\ Parent(path) \in AbsolutePaths
<1>1. PICK d \in 0..Depth : path \in [1..d -> Names]
  BY DEF AbsolutePaths
<1>2. path \in Seq(Names) /\ Len(path) = d
  BY <1>1, ApiAssumption DEF ApiAssumption
<1>3. d # 0
  BY <1>1, <1>2, EmptySeq DEF Root
<1>4. Parent(path) \in [1..(d - 1) -> Names]
  <2>1. /\ Parent(path) \in Seq(Names)
        /\ Len(Parent(path)) = d - 1
    BY <1>2, <1>3, ApiAssumption, SubSeqProperties DEF Parent, ApiAssumption
  <2>. QED
    BY <2>1, LenProperties
<1>5. d - 1 \in 0..Depth
  BY <1>3, ApiAssumption DEF ApiAssumption
<1>. QED
  BY <1>2, <1>3, <1>4, <1>5 DEF AbsolutePaths

(* A lookup that succeeds ends on a node of the tree. *)
LEMMA LookupFinds ==
  ASSUME NEW path \in AbsolutePaths, LookupError(path) = "OK", Root \in DOMAIN tree
  PROVE  path \in DOMAIN tree
<1>1. CASE path = Root
  BY <1>1
<1>2. CASE path # Root
  <2>1. path \in Seq(Names) /\ Len(path) \in Nat \ {0}
    BY <1>2, ParentIsPath
  <2>2. SubSeq(path, 1, Len(path)) = path
    BY <2>1, SubSeqFull
  <2>3. Missing(path) = {}
    BY DEF LookupError
  <2>4. Len(path) \in 1..Len(path)
    BY <2>1
  <2>5. SubSeq(path, 1, Len(path)) \in DOMAIN tree
    BY <2>3, <2>4, Zenon DEF Missing
  <2>. QED
    BY <2>2, <2>5, Zenon
<1>. QED
  BY <1>1, <1>2

(***************************************************************************)
(* The inductive invariant: the checked invariants, split into what they   *)
(* say of a tree and of the handles on it, so that the lemmas can speak of *)
(* the tree an operation is about to store.  A tree must also be finite    *)
(* for its cardinality to mean anything.                                   *)
(***************************************************************************)
Nodes == [type : {"FILE", "DIR"}, data : Seq(Cells)]
Flags == {"READ", "WRITE", "CREATE", "TRUNC", "APPEND"}

TreeOK(t) ==
  /\ DOMAIN t \subseteq AbsolutePaths
  /\ t \in [DOMAIN t -> Nodes]
  /\ Root \in DOMAIN t
  /\ t[Root].type = "DIR"
  /\ \A p \in DOMAIN t : p # Root => /\ Parent(p) \in DOMAIN t
                                     /\ t[Parent(p)].type = "DIR"
                                     /\ Leaf(p) \notin LongNames
  /\ IsFiniteSet(DOMAIN t)
  /\ Cardinality(DOMAIN t) <= NInodes

HandlesTyped(h) ==
  h \in [Fds -> [open : BOOLEAN, path : AbsolutePaths, offset : Nat, flags : SUBSET Flags]]
HandlesOn(t, h) ==
  \A fd \in Fds : h[fd].open => h[fd].path \in DOMAIN t /\ t[h[fd].path].type = "FILE"

Inv == /\ TreeOK(tree)
       /\ HandlesTyped(handles)
       /\ HandlesOn(tree, handles)
       /\ ret.err \in Errors

(* What AddError checks before an entry is added. *)
LEMMA AddErrorChecks ==
  ASSUME NEW path \in Paths, AddError(path) = "OK", TreeOK(tree)
  PROVE  /\ path \in AbsolutePaths \ DOMAIN tree
         /\ path # Root
         /\ Parent(path) \in DOMAIN tree
         /\ tree[Parent(path)].type = "DIR"
         /\ Leaf(path) \notin LongNames
         /\ Cardinality(DOMAIN tree) # NInodes
<1>1. /\ SplitError(path) = "OK"
      /\ LookupError(Parent(path)) = "OK"
      /\ path \notin DOMAIN tree
      /\ Cardinality(DOMAIN tree) # NInodes
      /\ tree[Parent(path)].type = "DIR"
  BY DEF AddError
<1>2. /\ path # BadPath
      /\ path # Root
      /\ Leaf(path) \notin LongNames
  BY <1>1 DEF SplitError, Root
<1>3. path \in AbsolutePaths
  BY <1>2 DEF Paths
<1>4. Parent(path) \in AbsolutePaths
  BY <1>2, <1>3, ParentIsPath
<1>5. Parent(path) \in DOMAIN tree
  BY <1>1, <1>4, LookupFinds DEF TreeOK
<1>. QED
  BY <1>1, <1>2, <1>3, <1>5

(* Adding an entry that passes the checks keeps a tree a tree. *)
LEMMA GrownOK ==
  ASSUME NEW path \in Paths, NEW type \in {"FILE", "DIR"}, AddError(path) = "OK",
         TreeOK(tree)
  PROVE  /\ TreeOK(Grown(path, type))
         /\ DOMAIN Grown(path, type) = DOMAIN tree \cup {path}
         /\ Grown(path, type)[path] = Node(type)
         /\ \A p \in DOMAIN tree : Grown(path, type)[p] = tree[p]
<1>. DEFINE t == Grown(path, type)
<1>1. /\ path \in AbsolutePaths \ DOMAIN tree
      /\ path # Root
      /\ Parent(path) \in DOMAIN tree
      /\ tree[Parent(path)].type = "DIR"
      /\ Leaf(path) \notin LongNames
      /\ Cardinality(DOMAIN tree) # NInodes
  BY AddErrorChecks
<1>2. /\ DOMAIN t = DOMAIN tree \cup {path}
      /\ t[path] = Node(type)
      /\ \A p \in DOMAIN tree : t[p] = tree[p]
  BY <1>1 DEF Grown
<1>3. Node(type) \in Nodes
  BY EmptySeq DEF Node, Nodes
<1>4. t \in [DOMAIN t -> Nodes]
  BY <1>2, <1>3 DEF TreeOK, Grown
<1>5. IsFiniteSet(DOMAIN t) /\ Cardinality(DOMAIN t) = Cardinality(DOMAIN tree) + 1
  BY <1>1, <1>2, FS_AddElement DEF TreeOK
<1>6. Cardinality(DOMAIN tree) \in Nat
  BY FS_CardinalityType DEF TreeOK
<1>7. Cardinality(DOMAIN t) <= NInodes
  BY <1>1, <1>5, <1>6, ApiAssumption DEF TreeOK, ApiAssumption
<1>8. /\ DOMAIN t \subseteq AbsolutePaths
      /\ Root \in DOMAIN t
      /\ t[Root].type = "DIR"
  BY <1>1, <1>2 DEF TreeOK
<1>9. ASSUME NEW p \in DOMAIN t, p # Root
      PROVE  /\ Parent(p) \in DOMAIN t
             /\ t[Parent(p)].type = "DIR"
             /\ Leaf(p) \notin LongNames
  BY <1>1, <1>2, <1>9 DEF TreeOK
<1>10. TreeOK(t)
  BY <1>4, <1>5, <1>7, <1>8, <1>9 DEF TreeOK
<1>. QED
  BY <1>2, <1>10

(* Removing a node without children keeps a tree a tree. *)
LEMMA PrunedOK ==
  ASSUME NEW path \in DOMAIN tree, path # Root, TreeOK(tree),
         \A p \in DOMAIN tree : p # Root => Parent(p) # path
  PROVE  /\ TreeOK(Pruned(path))
         /\ DOMAIN Pruned(path) = DOMAIN tree \ {path}
         /\ \A p \in DOMAIN Pruned(path) : Pruned(path)[p] = tree[p]
<1>. DEFINE t == Pruned(path)
<1>1. /\ DOMAIN t = DOMAIN tree \ {path}
      /\ \A p \in DOMAIN t : t[p] = tree[p]
  BY DEF Pruned
<1>2. t \in [DOMAIN t -> Nodes]
  BY <1>1 DEF TreeOK, Pruned
<1>3. IsFiniteSet(DOMAIN t) /\ Cardinality(DOMAIN t) = Cardinality(DOMAIN tree) - 1
  BY <1>1, FS_RemoveElement DEF TreeOK
<1>4. Cardinality(DOMAIN tree) \in Nat
  BY FS_CardinalityType DEF TreeOK
<1>5. Cardinality(DOMAIN t) <= NInodes
  BY <1>3, <1>4, ApiAssumption DEF TreeOK, ApiAssumption
<1>6. /\ DOMAIN t \subseteq AbsolutePaths
      /\ Root \in DOMAIN t
      /\ t[Root].type = "DIR"
  BY <1>1 DEF TreeOK
<1>7. ASSUME NEW p \in DOMAIN t, p # Root
      PROVE  /\ Parent(p) \in DOMAIN t
             /\ t[Parent(p)].type = "DIR"
             /\ Leaf(p) \notin LongNames
  BY <1>1, <1>7 DEF TreeOK
<1>8. TreeOK(t)
  BY <1>2, <1>3, <1>5, <1>6, <1>7 DEF TreeOK
<1>. QED
  BY <1>1, <1>8

(* Replacing a file's node by another file keeps a tree a tree, and the
   handles on it live. *)
LEMMA RewrittenOK ==
  ASSUME NEW t, NEW path \in DOMAIN t, NEW node \in Nodes, NEW h,
         TreeOK(t), t[path].type = "FILE", node.type = "FILE", HandlesOn(t, h)
  PROVE  /\ TreeOK([t EXCEPT ![path] = node])
         /\ HandlesOn([t EXCEPT ![path] = node], h)
<1>. DEFINE u == [t EXCEPT ![path] = node]
<1>1. /\ DOMAIN u = DOMAIN t
      /\ \A p \in DOMAIN t : u[p].type = t[p].type
      /\ u \in [DOMAIN t -> Nodes]
  BY DEF TreeOK
<1>2. TreeOK(u)
  BY <1>1 DEF TreeOK
<1>3. HandlesOn(u, h)
  BY <1>1 DEF HandlesOn
<1>. QED
  BY <1>2, <1>3

(* Every error code an operation computes is one of ramfs.h. *)
LEMMA ErrorCodes ==
  ASSUME NEW path
  PROVE  /\ SplitError(path) \in Errors
         /\ LookupError(path) \in Errors
         /\ AddError(path) \in Errors
         /\ RmdirError(path) \in Errors
         /\ UnlinkError(path) \in Errors
<1>1. \A p : SplitError(p) \in Errors
  BY DEF SplitError, Errors
<1>2. \A p : LookupError(p) \in Errors
  <2>. SUFFICES ASSUME NEW p PROVE LookupError(p) \in Errors
    OBVIOUS
  <2>. QED
    BY DEF LookupError, Errors
<1>3. AddError(path) \in Errors
  BY <1>1, <1>2 DEF AddError, Errors
<1>4. RmdirError(path) \in Errors
  BY <1>1, <1>2 DEF RmdirError, Errors
<1>5. UnlinkError(path) \in Errors
  BY <1>1, <1>2 DEF UnlinkError, Errors
<1>. QED
  BY <1>1, <1>2, <1>3, <1>4, <1>5

LEMMA ResultCodes ==
  /\ \A err : Failure(err).err = err
  /\ \A n, data : Success(n, data).err = "OK"
  /\ Done.err = "OK"
  /\ {"OK", "NO_SPACE", "NO_FDS", "BAD_FD", "NOT_DIR", "IS_DIR"} \subseteq Errors
BY DEF Failure, Success, Done, Errors

(* What a write leaves in a file is a sequence of cells. *)
LEMMA OverwrittenTyped ==
  ASSUME NEW file \in Seq(Cells), NEW off \in Nat, NEW buf \in Buffers, NEW n \in 0..Len(buf)
  PROVE  Overwritten(file, off, buf, n) \in Seq(Cells)
<1>1. buf \in Seq(Bytes) /\ Len(buf) \in Nat
  BY ApiAssumption, LenProperties DEF ApiAssumption
<1>2. n \in Nat /\ n <= Len(buf) /\ Len(file) \in Nat
  BY <1>1, LenProperties
<1>. DEFINE m == Larger(Len(file), off + n)
<1>3. m \in Nat
  BY <1>2 DEF Larger
<1>4. ASSUME NEW i \in 1..m
      PROVE  (IF i > off /\ i <= off + n THEN buf[i - off]
              ELSE IF i <= Len(file) THEN file[i] ELSE Zero) \in Cells
  <2>1. CASE i > off /\ i <= off + n
    <3>1. i - off \in 1..Len(buf)
      BY <1>1, <1>2, <1>3, <2>1
    <3>2. buf[i - off] \in Bytes
      BY <1>1, <3>1, ElementOfSeq
    <3>. QED
      BY <2>1, <3>2 DEF Cells
  <2>2. CASE ~(i > off /\ i <= off + n) /\ i <= Len(file)
    <3>1. file[i] \in Cells
      BY <1>2, <1>3, <2>2, ElementOfSeq
    <3>. QED
      BY <2>2, <3>1
  <2>3. CASE ~(i > off /\ i <= off + n) /\ ~(i <= Len(file))
    BY <2>3 DEF Cells
  <2>. QED
    BY <2>1, <2>2, <2>3
<1>5. Overwritten(file, off, buf, n) \in [1..m -> Cells]
  BY <1>4 DEF Overwritten
<1>. QED
  BY <1>3, <1>5

(* The end of open keeps the invariant, whichever tree it starts from. *)
LEMMA AttachInv ==
  ASSUME NEW t, NEW path \in DOMAIN t, NEW flags \in FlagSets,
         TreeOK(t), HandlesTyped(handles), HandlesOn(t, handles), Attach(t, path, flags)
  PROVE  Inv'
<1>. DEFINE fd == MinOf(FreeFds)
            node == IF "TRUNC" \in flags THEN Node("FILE") ELSE t[path]
<1>1. CASE tree' = t /\ UNCHANGED handles /\ ret'.err \in Errors
  BY <1>1 DEF Inv, TreeOK, HandlesTyped, HandlesOn
<1>2. CASE /\ t[path].type # "DIR"
           /\ tree' = [t EXCEPT ![path] = node]
           /\ handles' = [handles EXCEPT ![fd] =
                [open |-> TRUE, path |-> path, flags |-> flags,
                 offset |-> IF "APPEND" \in flags THEN Len(node.data) ELSE 0]]
           /\ ret' = Success(fd, <<>>)
  <2>1. t[path] \in Nodes /\ t[path].type = "FILE"
    BY <1>2 DEF TreeOK, Nodes
  <2>2. node \in Nodes /\ node.type = "FILE"
    BY <2>1, EmptySeq DEF Node, Nodes
  <2>3. TreeOK(tree') /\ HandlesOn(tree', handles)
    BY <1>2, <2>1, <2>2, RewrittenOK
  <2>4. /\ DOMAIN tree' = DOMAIN t
        /\ tree'[path].type = "FILE"
    BY <1>2, <2>2 DEF TreeOK
  <2>5. (IF "APPEND" \in flags THEN Len(node.data) ELSE 0) \in Nat
    BY <2>2, LenProperties DEF Nodes
  <2>6. path \in AbsolutePaths
    BY DEF TreeOK
  <2>7. flags \in SUBSET Flags
    BY ApiAssumption DEF ApiAssumption, Flags
  <2>8. HandlesTyped(handles')
    BY <1>2, <2>5, <2>6, <2>7 DEF HandlesTyped
  <2>9. HandlesOn(tree', handles')
    BY <1>2, <2>3, <2>4 DEF HandlesOn, HandlesTyped
  <2>10. ret'.err \in Errors
    BY <1>2, ResultCodes
  <2>. QED
    BY <2>3, <2>8, <2>9, <2>10 DEF Inv, TreeOK
<1>. QED
  BY <1>1, <1>2, ResultCodes DEF Attach

(***************************************************************************)
(* Preservation, one lemma per kind of operation                           *)
(***************************************************************************)
LEMMA AddInv ==
  ASSUME NEW path \in Paths, NEW type \in {"FILE", "DIR"}, Inv, Add(path, type)
  PROVE  Inv'
<1>1. CASE UNCHANGED <<tree, handles>> /\ ret'.err \in Errors
  BY <1>1 DEF Inv, TreeOK, HandlesTyped, HandlesOn
<1>2. CASE /\ UNCHANGED handles
           /\ AddError(path) = "OK"
           /\ tree' = Grown(path, type)
           /\ ret' = Done
  <2>1. /\ TreeOK(Grown(path, type))
        /\ DOMAIN Grown(path, type) = DOMAIN tree \cup {path}
        /\ \A p \in DOMAIN tree : Grown(path, type)[p] = tree[p]
    BY <1>2, GrownOK DEF Inv
  <2>2. HandlesTyped(handles') /\ HandlesOn(tree', handles')
    BY <1>2, <2>1 DEF Inv, HandlesTyped, HandlesOn
  <2>3. TreeOK(tree')
    BY <1>2, <2>1, Zenon
  <2>4. ret'.err \in Errors
    BY <1>2, ResultCodes
  <2>. QED
    BY <2>2, <2>3, <2>4 DEF Inv, TreeOK
<1>. QED
  BY <1>1, <1>2, ResultCodes, ErrorCodes DEF Add

LEMMA RemoveInv ==
  ASSUME NEW path \in Paths, Inv, Rmdir(path) \/ Unlink(path)
  PROVE  Inv'
<1>1. CASE UNCHANGED <<tree, handles>> /\ ret'.err \in Errors
  BY <1>1 DEF Inv, TreeOK, HandlesTyped, HandlesOn
<1>2. CASE /\ path \in DOMAIN tree /\ path # Root
           /\ \A p \in DOMAIN tree : p # Root => Parent(p) # path
           /\ \A fd \in Fds : handles[fd].open => handles[fd].path # path
           /\ tree' = Pruned(path)
           /\ UNCHANGED handles
           /\ ret'.err \in Errors
  <2>1. /\ TreeOK(Pruned(path))
        /\ DOMAIN Pruned(path) = DOMAIN tree \ {path}
        /\ \A p \in DOMAIN Pruned(path) : Pruned(path)[p] = tree[p]
    BY <1>2, PrunedOK DEF Inv
  <2>2. TreeOK(tree')
    BY <1>2, <2>1, Zenon
  <2>3. HandlesTyped(handles') /\ HandlesOn(tree', handles')
    BY <1>2, <2>1 DEF Inv, HandlesTyped, HandlesOn
  <2>. QED
    BY <1>2, <2>2, <2>3 DEF Inv, TreeOK
<1>3. ASSUME SplitError(path) = "OK", LookupError(path) = "OK"
      PROVE  path \in DOMAIN tree /\ path # Root
  <2>1. path # BadPath /\ path # Root
    BY <1>3 DEF SplitError, Root
  <2>. QED
    BY <1>3, <2>1, LookupFinds DEF Paths, Inv, TreeOK
<1>4. CASE Rmdir(path)
  <2>1. CASE RmdirError(path) # "OK"
    <3>1. UNCHANGED <<tree, handles>> /\ ret'.err \in Errors
      BY <1>4, <2>1, ResultCodes, ErrorCodes DEF Rmdir, Remove
    <3>. QED
      BY <1>1, <3>1
  <2>2. CASE RmdirError(path) = "OK"
    <3>1. /\ SplitError(path) = "OK"
          /\ LookupError(path) = "OK"
          /\ tree[path].type = "DIR"
          /\ Children(path) = {}
      BY <2>2 DEF RmdirError
    <3>2. path \in DOMAIN tree /\ path # Root
      BY <1>3, <3>1
    <3>3. \A p \in DOMAIN tree : p # Root => Parent(p) # path
      BY <3>1 DEF Children
    <3>4. \A fd \in Fds : handles[fd].open => handles[fd].path # path
      BY <3>1 DEF Inv, HandlesOn
    <3>5. tree' = Pruned(path) /\ UNCHANGED handles /\ ret'.err \in Errors
      BY <1>4, <2>2, ResultCodes, ErrorCodes DEF Rmdir, Remove
    <3>. QED
      BY <1>2, <3>2, <3>3, <3>4, <3>5
  <2>. QED
    BY <2>1, <2>2
<1>5. CASE Unlink(path)
  <2>1. CASE UnlinkError(path) # "OK"
    <3>1. UNCHANGED <<tree, handles>> /\ ret'.err \in Errors
      BY <1>5, <2>1, ResultCodes, ErrorCodes DEF Unlink, Remove
    <3>. QED
      BY <1>1, <3>1
  <2>2. CASE UnlinkError(path) = "OK"
    <3>1. /\ SplitError(path) = "OK"
          /\ LookupError(path) = "OK"
          /\ tree[path].type # "DIR"
          /\ ~\E fd \in Fds : handles[fd].open /\ handles[fd].path = path
      BY <2>2 DEF UnlinkError
    <3>2. path \in DOMAIN tree /\ path # Root
      BY <1>3, <3>1
    <3>3. \A p \in DOMAIN tree : p # Root => Parent(p) # path
      BY <3>1 DEF Inv, TreeOK
    <3>4. \A fd \in Fds : handles[fd].open => handles[fd].path # path
      BY <3>1
    <3>5. tree' = Pruned(path) /\ UNCHANGED handles /\ ret'.err \in Errors
      BY <1>5, <2>2, ResultCodes, ErrorCodes DEF Unlink, Remove
    <3>. QED
      BY <1>2, <3>2, <3>3, <3>4, <3>5
  <2>. QED
    BY <2>1, <2>2
<1>. QED
  BY <1>4, <1>5

LEMMA OpenInv ==
  ASSUME NEW path \in Paths, NEW flags \in FlagSets, Inv, Open(path, flags)
  PROVE  Inv'
<1>1. CASE LookupError(path) = "OK" /\ Attach(tree, path, flags)
  <2>1. path # BadPath
    BY <1>1 DEF LookupError
  <2>2. path \in DOMAIN tree
    BY <1>1, <2>1, LookupFinds DEF Paths, Inv, TreeOK
  <2>. QED
    BY <1>1, <2>2, AttachInv DEF Inv
<1>2. CASE AddError(path) = "OK" /\ Attach(Grown(path, "FILE"), path, flags)
  <2>. DEFINE t == Grown(path, "FILE")
  <2>1. /\ TreeOK(t)
        /\ DOMAIN t = DOMAIN tree \cup {path}
        /\ \A p \in DOMAIN tree : t[p] = tree[p]
    BY <1>2, GrownOK DEF Inv
  <2>2. HandlesOn(t, handles)
    BY <2>1 DEF Inv, HandlesOn
  <2>3. HandlesTyped(handles) /\ path \in DOMAIN t
    BY <2>1 DEF Inv
  <2>. HIDE DEF t
  <2>4. Attach(t, path, flags)
    BY <1>2 DEF t
  <2>. QED
    BY <2>1, <2>2, <2>3, <2>4, AttachInv
<1>3. CASE UNCHANGED <<tree, handles>> /\ ret'.err \in Errors
  BY <1>3 DEF Inv, TreeOK, HandlesTyped, HandlesOn
<1>. QED
  BY <1>1, <1>2, <1>3, ResultCodes, ErrorCodes DEF Open

LEMMA QueryInv ==
  ASSUME Inv, UNCHANGED <<tree, handles>>,
         \/ \E err \in Errors : ret' = Failure(err)
         \/ \E n, data : ret' = Success(n, data)
  PROVE  Inv'
<1>1. ASSUME NEW err \in Errors, ret' = Failure(err) PROVE ret'.err \in Errors
  BY <1>1, ResultCodes
<1>2. ASSUME NEW n, NEW data, ret' = Success(n, data) PROVE ret'.err \in Errors
  BY <1>2, ResultCodes
<1>. QED
  BY <1>1, <1>2 DEF Inv, TreeOK, HandlesTyped, HandlesOn

LEMMA StatInv ==
  ASSUME Inv, NEW path \in Paths, Stat(path)
  PROVE  Inv'
<1>1. CASE ret' = Failure(LookupError(path))
  BY <1>1, QueryInv, ErrorCodes DEF Stat
<1>2. CASE \E data : ret' = Success(0, data)
  BY <1>2, QueryInv DEF Stat
<1>. QED
  BY <1>1, <1>2, Zenon DEF Stat

LEMMA ListInv ==
  ASSUME Inv, NEW path \in Paths, NEW max, List(path, max)
  PROVE  Inv'
<1>1. UNCHANGED <<tree, handles>>
  BY DEF List
<1>2. CASE \E err \in Errors : ret' = Failure(err)
  BY <1>1, <1>2, QueryInv
<1>3. CASE \E n, data : ret' = Success(n, data)
  BY <1>1, <1>3, QueryInv
<1>. QED
  BY <1>2, <1>3, ResultCodes, ErrorCodes, Zenon DEF List

(* Calls on a descriptor that only move it, close it or are refused. *)
LEMMA MoveInv ==
  ASSUME Inv, NEW fd, NEW offset \in Nat, UNCHANGED tree, ret'.err \in Errors,
         handles' \in {handles, [handles EXCEPT ![fd].offset = offset],
                       [handles EXCEPT ![fd] = Closed]}
  PROVE  Inv'
<1>1. Root \in AbsolutePaths
  <2>1. Root \in [1..0 -> Names]
    BY DEF Root
  <2>. QED
    BY <2>1, ApiAssumption DEF AbsolutePaths, ApiAssumption
<1>2. HandlesTyped(handles')
  <2>1. CASE handles' = [handles EXCEPT ![fd].offset = offset]
    BY <2>1 DEF Inv, HandlesTyped
  <2>2. CASE handles' = [handles EXCEPT ![fd] = Closed]
    <3>1. Closed \in [open : BOOLEAN, path : AbsolutePaths, offset : Nat, flags : SUBSET Flags]
      BY <1>1 DEF Closed
    <3>. QED
      BY <2>2, <3>1 DEF Inv, HandlesTyped
  <2>. QED
    BY <2>1, <2>2 DEF Inv
<1>3. \A f \in Fds : handles'[f].open => handles[f].open /\ handles'[f].path = handles[f].path
  BY DEF Inv, HandlesTyped, Closed
<1>. QED
  BY <1>2, <1>3 DEF Inv, TreeOK, HandlesOn

LEMMA ReadInv ==
  ASSUME Inv, NEW fd, NEW count \in ReadCounts, Read(fd, count)
  PROVE  Inv'
<1>1. CASE Refused
  BY <1>1, MoveInv, ResultCodes DEF Refused
<1>2. CASE Usable(fd, "READ") /\ ~Refused
  <2>. DEFINE h == handles[fd]
              file == tree[h.path].data
              n == Smaller(count, Larger(0, Len(file) - h.offset))
  <2>1. /\ handles' = [handles EXCEPT ![fd].offset = @ + n]
        /\ ret' = Success(n, SubSeq(file, h.offset + 1, h.offset + n))
        /\ UNCHANGED tree
    BY <1>2 DEF Read
  <2>2. h.path \in DOMAIN tree /\ h.offset \in Nat
    BY <1>2 DEF Usable, Inv, HandlesOn, HandlesTyped
  <2>3. Len(file) \in Nat
    BY <2>2, LenProperties DEF Inv, TreeOK, Nodes
  <2>4. count \in Nat
    BY ApiAssumption DEF ApiAssumption
  <2>5. h.offset + n \in Nat
    BY <2>2, <2>3, <2>4 DEF Smaller, Larger
  <2>6. handles' = [handles EXCEPT ![fd].offset = h.offset + n]
    BY <2>1
  <2>7. ret'.err \in Errors
    BY <2>1, ResultCodes
  <2>. QED
    BY <2>1, <2>5, <2>6, <2>7, MoveInv
<1>. QED
  BY <1>1, <1>2 DEF Read

LEMMA WriteInv ==
  ASSUME Inv, NEW fd, NEW buf \in Buffers, Write(fd, buf)
  PROVE  Inv'
<1>1. CASE UNCHANGED <<tree, handles>> /\ ret'.err \in Errors
  BY <1>1, MoveInv
<1>2. CASE Usable(fd, "WRITE")
  <2>. DEFINE h == handles[fd]
              file == tree[h.path].data
              off == IF "APPEND" \in h.flags THEN Len(file) ELSE h.offset
  <2>1. fd \in Fds /\ h.path \in DOMAIN tree /\ h.offset \in Nat /\ tree[h.path].type = "FILE"
    BY <1>2 DEF Usable, Inv, HandlesOn, HandlesTyped
  <2>2. tree[h.path] \in Nodes /\ file \in Seq(Cells) /\ Len(file) \in Nat
    BY <2>1, LenProperties DEF Inv, TreeOK, Nodes
  <2>3. off \in Nat
    BY <2>1, <2>2
  <2>4. ASSUME NEW n \in 0..Len(buf),
               tree' = [tree EXCEPT ![h.path].data = Overwritten(file, off, buf, n)],
               handles' = [handles EXCEPT ![fd].offset = off + n],
               ret' = Success(n, <<>>)
        PROVE  Inv'
    <3>. DEFINE data == Overwritten(file, off, buf, n)
                node == [tree[h.path] EXCEPT !.data = data]
    <3>1. data \in Seq(Cells)
      BY <2>2, <2>3, OverwrittenTyped
    <3>2. node \in Nodes /\ node.type = "FILE"
      BY <2>1, <2>2, <3>1 DEF Nodes
    <3>3. tree' = [tree EXCEPT ![h.path] = node]
      BY <2>4
    <3>4. TreeOK(tree') /\ HandlesOn(tree', handles)
      BY <2>1, <3>2, <3>3, RewrittenOK DEF Inv
    <3>5. off + n \in Nat
      <4>1. Len(buf) \in Nat
        BY ApiAssumption, LenProperties DEF ApiAssumption
      <4>. QED
        BY <2>3, <4>1
    <3>6. HandlesTyped(handles')
      BY <2>4, <3>5 DEF Inv, HandlesTyped
    <3>7. \A f \in Fds : handles'[f].open = handles[f].open /\ handles'[f].path = handles[f].path
      BY <2>4 DEF Inv, HandlesTyped
    <3>8. HandlesOn(tree', handles')
      BY <3>4, <3>7 DEF HandlesOn
    <3>9. ret'.err \in Errors
      BY <2>4, ResultCodes
    <3>. QED
      BY <3>4, <3>6, <3>8, <3>9 DEF Inv, TreeOK
  <2>. QED
    BY <1>1, <1>2, <2>4, ResultCodes DEF Write, Refused
<1>. QED
  BY <1>1, <1>2, ResultCodes DEF Write, Refused

LEMMA SeekInv ==
  ASSUME Inv, NEW fd, NEW offset \in SeekOffsets, Seek(fd, offset)
  PROVE  Inv'
<1>1. offset \in Nat
  BY ApiAssumption DEF ApiAssumption
<1>. QED
  BY <1>1, MoveInv, ResultCodes DEF Seek, Refused

LEMMA CloseInv ==
  ASSUME Inv, NEW fd, Close(fd)
  PROVE  Inv'
<1>1. 0 \in Nat
  OBVIOUS
<1>. QED
  BY <1>1, MoveInv, ResultCodes DEF Close, Refused

(* The invariant holds of the tree with only "/" and no open handle. *)
LEMMA InitInv == Init => Inv
<1>. SUFFICES ASSUME Init PROVE Inv
  OBVIOUS
<1>1. Root \in AbsolutePaths
  <2>1. Root \in [1..0 -> Names]
    BY DEF Root
  <2>. QED
    BY <2>1, ApiAssumption DEF AbsolutePaths, ApiAssumption
<1>2. IsFiniteSet({Root}) /\ Cardinality({Root}) = 1
  BY FS_Singleton
<1>3. Node("DIR") \in Nodes
  BY EmptySeq DEF Node, Nodes
<1>4. TreeOK(tree)
  <2>1. DOMAIN tree = {Root} /\ tree[Root] = Node("DIR") /\ tree \in [DOMAIN tree -> Nodes]
    BY <1>3 DEF Init
  <2>2. tree[Root].type = "DIR"
    BY <2>1 DEF Node
  <2>. QED
    BY <1>1, <1>2, <2>1, <2>2, ApiAssumption DEF TreeOK, ApiAssumption
<1>5. HandlesTyped(handles) /\ HandlesOn(tree, handles)
  BY <1>1 DEF Init, HandlesTyped, HandlesOn, Closed
<1>. QED
  BY <1>4, <1>5, ResultCodes DEF Inv, Init

(***************************************************************************)
(* Theorems                                                                *)
(***************************************************************************)
LEMMA StepInv == Inv /\ [Next]_vars => Inv'
<1>. SUFFICES ASSUME Inv, [Next]_vars PROVE Inv'
  OBVIOUS
<1>1. ASSUME NEW path \in Paths, Mkdir(path) \/ Create(path) PROVE Inv'
  BY <1>1, AddInv DEF Mkdir, Create
<1>2. ASSUME NEW path \in Paths, Rmdir(path) \/ Unlink(path) PROVE Inv'
  BY <1>2, RemoveInv
<1>3. ASSUME NEW path \in Paths, Stat(path) PROVE Inv'
  BY <1>3, StatInv
<1>4. ASSUME NEW path \in Paths, NEW max \in ListMaxes, List(path, max) PROVE Inv'
  BY <1>4, ListInv
<1>5. ASSUME NEW path \in Paths, NEW flags \in FlagSets, Open(path, flags) PROVE Inv'
  BY <1>5, OpenInv
<1>6. ASSUME NEW fd, NEW count \in ReadCounts, Read(fd, count) PROVE Inv'
  BY <1>6, ReadInv
<1>7. ASSUME NEW fd, NEW buf \in Buffers, Write(fd, buf) PROVE Inv'
  BY <1>7, WriteInv
<1>8. ASSUME NEW fd, NEW offset \in SeekOffsets, Seek(fd, offset) PROVE Inv'
  BY <1>8, SeekInv
<1>9. ASSUME NEW fd, Close(fd) PROVE Inv'
  BY <1>9, CloseInv
<1>10. CASE UNCHANGED vars
  BY <1>10 DEF vars, Inv, TreeOK, HandlesTyped, HandlesOn
<1>. QED
  BY <1>1, <1>2, <1>3, <1>4, <1>5, <1>6, <1>7, <1>8, <1>9, <1>10, Zenon DEF Next

(* Every step names the call it makes. *)
CallOK == call \in Calls

LEMMA CallNamed == Spec => []CallOK
<1>1. Init => CallOK
  BY DEF Init, CallOK, Calls
<1>2. CallOK /\ [Next]_vars => CallOK'
  BY DEF CallOK, Next, Called, Calls, vars
<1>. QED
  BY <1>1, <1>2, PTL DEF Spec

LEMMA InvHolds == Spec => []Inv
<1>. QED
  BY InitInv, StepInv, PTL DEF Spec

(* Every reachable state of the abstract filesystem is well typed. *)
THEOREM TypeCorrect == Spec => []TypeOK
<1>1. Inv /\ CallOK => TypeOK
  BY DEF CallOK, Inv, TreeOK, HandlesTyped, TypeOK, Nodes, Flags
<1>. QED
  BY <1>1, InvHolds, CallNamed, PTL

(* Whatever calls are made, in any order, the namespace is a tree rooted at a
   directory, nothing lies below a file or below a removed directory, and
   there are never more nodes than inodes. *)
THEOREM TreeIsClosed == Spec => []TreeClosed
<1>1. Inv => TreeClosed
  BY DEF Inv, TreeOK, TreeClosed
<1>. QED
  BY <1>1, InvHolds, PTL

(* No call leaves an open descriptor on a file that is gone: unlink refuses
   the file, and no directory above it can be removed before it is. *)
THEOREM HandlesStayLive == Spec => []HandlesLive
<1>1. Inv => HandlesLive
  BY DEF Inv, HandlesOn, HandlesLive
<1>. QED
  BY <1>1, InvHolds, PTL
=============================================================================
