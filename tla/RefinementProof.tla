-------------------------- MODULE RefinementProof --------------------------
(***************************************************************************)
(* RamFS implements FileSystem, call by call, for every size of the store, *)
(* as long as what lies below the size of a file can be read               *)
(* (SizeIsReadable).  The commands of kernel/shell/shell.c, proved over    *)
(* the store in the second half, keep it so: their calls are calls of      *)
(* FileSystem with no hypothesis.  A command closes what it opens, and cat *)
(* and write tell the truth about the file.                                *)
(*                                                                         *)
(* In an intact store paths and inodes correspond one to one, which makes  *)
(* TreeOf and HandlesOf functions of what RamFSProof says of a call: which *)
(* inodes it adds or frees, and which cells it writes.                     *)
(***************************************************************************)
EXTENDS Shell, RamFSProof

(***************************************************************************)
(* Paths and inodes                                                        *)
(***************************************************************************)
LEMMA IntactIs ==
  ASSUME NEW d, Intact(d)
  PROVE  /\ Stock(d) /\ Tree(d) /\ Reachable(d) /\ Sound(d) /\ ZeroBeyond(d) /\ Readable(d)
         /\ Linked(d) /\ Unique(d) /\ Named(d) /\ Bounded(d) /\ ROOT_INODE \in Dirs(d)
         /\ d.inode_bitmap \subseteq Inodes /\ Dirs(d) \subseteq d.inode_bitmap
         /\ d.inode_bitmap \in SUBSET Inodes
         /\ \A i \in Inodes : Size(d, i) \in Nat /\ Backed(d, i) \in Nat
BY BitmapTypes DEF Intact, Stock, Tree

LEMMA EntryIs ==
  ASSUME NEW d, Intact(d), NEW dir, NEW name, NEW i, Entry(d, dir, name, i)
  PROVE  /\ dir \in Dirs(d) /\ name \in Names /\ i \in d.inode_bitmap /\ i # ROOT_INODE
         /\ \A other, called, j : Entry(d, other, called, j) =>
              /\ i = j => other = dir /\ called = name
              /\ other = dir /\ called = name => i = j
<1>1. PICK k \in Nat : Live(d, dir, k) /\ CellAt(d, dir, k) = Dirent(name, i)
  BY DEF Entry
<1>2. CellAt(d, dir, k).inode = i /\ CellAt(d, dir, k).name = name
  BY <1>1 DEF Dirent
<1>3. dir \in Dirs(d) /\ CellAt(d, dir, k) \in Dirents /\ i \in d.inode_bitmap \ {ROOT_INODE}
  BY <1>1, <1>2, IntactIs DEF Linked, Live
<1>4. name \in Names
  BY <1>2, <1>3 DEF Dirents
<1>5. ASSUME NEW other, NEW called, NEW j, Entry(d, other, called, j)
      PROVE  /\ i = j => other = dir /\ called = name
             /\ other = dir /\ called = name => i = j
  <2>1. PICK l \in Nat : Live(d, other, l) /\ CellAt(d, other, l) = Dirent(called, j)
    BY <1>5 DEF Entry
  <2>2. CellAt(d, other, l).inode = j /\ CellAt(d, other, l).name = called /\ other \in Dirs(d)
    BY <2>1 DEF Dirent, Live
  <2>3. \/ CellAt(d, dir, k).inode = CellAt(d, other, l).inode
        \/ dir = other /\ CellAt(d, dir, k).name = CellAt(d, other, l).name
        => dir = other /\ k = l
    BY <1>1, <1>3, <2>1, <2>2, IntactIs DEF Unique
  <2> QED  BY <1>2, <2>2, <2>3
<1> QED  BY <1>3, <1>4, <1>5

(* The last step of a walk. *)
LEMMA LastStep ==
  ASSUME NEW d, NEW path \in AbsolutePaths, path # <<>>, NEW i, Resolves(d, path, i)
  PROVE  /\ Leaf(path) \notin LongNames
         /\ \E p \in Inodes : Resolves(d, Parent(path), p) /\ Entry(d, p, Leaf(path), i)
<1> DEFINE m == Len(path) - 1
<1>1. m \in Nat /\ Len(Parent(path)) = m /\ \A k \in 1..m : Parent(path)[k] = path[k]
  BY ParentTypes
<1>2. Len(path) = m + 1 /\ Leaf(path) = path[m + 1]
  <2>1. Len(path) \in Nat
    BY PathTypes, ApiAssumption
  <2> QED  BY <2>1 DEF Leaf
<1> HIDE DEF m
<1>3. PICK w \in [0..(m + 1) -> Inodes] :
        /\ w[0] = ROOT_INODE /\ w[m + 1] = i
        /\ \A k \in 1..(m + 1) : path[k] \notin LongNames /\ Entry(d, w[k - 1], path[k], w[k])
  BY <1>2 DEF Resolves
<1> DEFINE v == [k \in 0..m |-> w[k]]
<1>4. v \in [0..m -> Inodes] /\ v[0] = ROOT_INODE /\ v[m] = w[m] /\ w[m] \in Inodes
  BY <1>1, <1>3
<1>5. \A k \in 1..m : /\ k \in 1..(m + 1) /\ v[k] = w[k] /\ v[k - 1] = w[k - 1]
                      /\ Parent(path)[k] = path[k]
  BY <1>1
<1> HIDE DEF v
<1>6. Resolves(d, Parent(path), w[m])
  BY <1>1, <1>3, <1>4, <1>5 DEF Resolves
<1>7. m + 1 \in 1..(m + 1) /\ (m + 1) - 1 = m
  BY <1>1
<1>8. path[m + 1] \notin LongNames /\ Entry(d, w[m], path[m + 1], w[m + 1])
  BY <1>3, <1>7
<1> QED  BY <1>2, <1>3, <1>4, <1>6, <1>8

LEMMA RootPath ==
  ASSUME NEW d, Intact(d)
  PROVE  /\ <<>> \in AbsolutePaths /\ Resolves(d, <<>>, ROOT_INODE)
         /\ \A i : Resolves(d, <<>>, i) => i = ROOT_INODE
<1>1. <<>> \in [1..0 -> Names] /\ 0 \in 0..Depth
  BY ApiAssumption
<1>2. <<>> \in AbsolutePaths
  BY <1>1, Zenon DEF AbsolutePaths
<1>3. Len(<<>>) = 0 /\ ROOT_INODE \in Inodes
  BY IntactIs
<1>4. [k \in 0..0 |-> ROOT_INODE] \in [0..0 -> Inodes] /\ [k \in 0..0 |-> ROOT_INODE][0] = ROOT_INODE
  BY <1>3
<1>5. \A k \in 1..0 : FALSE
  OBVIOUS
<1>6. Resolves(d, <<>>, ROOT_INODE)
  BY <1>3, <1>4, <1>5 DEF Resolves
<1>7. \A i : Resolves(d, <<>>, i) => i = ROOT_INODE
  BY <1>3 DEF Resolves
<1> QED  BY <1>2, <1>6, <1>7

(* A path is empty or has a parent that is shorter. *)
LEMMA PathSplit ==
  ASSUME NEW p \in AbsolutePaths, NEW q \in AbsolutePaths, p # <<>>, q # <<>>,
         Parent(p) = Parent(q), Leaf(p) = Leaf(q)
  PROVE  p = q
<1>1. /\ Len(p) - 1 \in Nat /\ Len(Parent(p)) = Len(p) - 1
      /\ Len(q) - 1 \in Nat /\ Len(Parent(q)) = Len(q) - 1
      /\ \A i \in 1..(Len(p) - 1) : Parent(p)[i] = p[i]
      /\ \A i \in 1..(Len(q) - 1) : Parent(q)[i] = q[i]
  BY ParentTypes
<1>2. p \in Seq(Names) /\ q \in Seq(Names) /\ Len(p) \in Nat /\ Len(q) \in Nat
  BY PathTypes, ApiAssumption
<1>3. Len(p) = Len(q)
  BY <1>1, <1>2
<1>4. ASSUME NEW i \in 1..Len(p)
      PROVE  p[i] = q[i]
  <2>1. CASE i = Len(p)
    BY <1>3, <2>1 DEF Leaf
  <2>2. CASE i # Len(p)
    <3>1. i \in 1..(Len(p) - 1)
      BY <1>2, <2>2
    <3> QED  BY <1>1, <1>3, <3>1
  <2> QED  BY <2>1, <2>2
<1> QED  BY <1>2, <1>3, <1>4, SeqEqual

(* No inode has two paths. *)
LEMMA OnePath ==
  ASSUME NEW d, Intact(d), NEW p \in AbsolutePaths, NEW q \in AbsolutePaths, NEW i,
         Resolves(d, p, i), Resolves(d, q, i)
  PROVE  p = q
<1> DEFINE T == {n \in Nat : \A x, y \in AbsolutePaths : \A j :
                   Len(x) = n /\ Resolves(d, x, j) /\ Resolves(d, y, j) => x = y}
<1>1. ASSUME NEW x \in AbsolutePaths, NEW j, Resolves(d, x, j)
      PROVE  /\ x = <<>> <=> j = ROOT_INODE
             /\ x = <<>> <=> Len(x) = 0
  <2>1. x = <<>> => j = ROOT_INODE /\ Len(x) = 0
    BY <1>1, RootPath
  <2>2. x # <<>> => j # ROOT_INODE
    <3>1. SUFFICES ASSUME x # <<>> PROVE j # ROOT_INODE
          OBVIOUS
    <3>2. PICK a \in Inodes : Entry(d, a, Leaf(x), j)
      BY <1>1, <3>1, LastStep
    <3> QED  BY <3>2, EntryIs
  <2>3. x # <<>> => Len(x) # 0
    BY PathTypes, EmptySeq
  <2> QED  BY <2>1, <2>2, <2>3
<1>2. 0 \in T
  <2>1. ASSUME NEW x \in AbsolutePaths, NEW y \in AbsolutePaths, NEW j,
               Len(x) = 0, Resolves(d, x, j), Resolves(d, y, j)
        PROVE  x = y
    BY <1>1, <2>1
  <2> QED  BY <2>1
<1>3. ASSUME NEW n \in Nat, n \in T
      PROVE  n + 1 \in T
  <2>1. ASSUME NEW x \in AbsolutePaths, NEW y \in AbsolutePaths, NEW j,
               Len(x) = n + 1, Resolves(d, x, j), Resolves(d, y, j)
        PROVE  x = y
    <3>1. x # <<>> /\ y # <<>>
      BY <1>1, <2>1
    <3>2. PICK a \in Inodes : Resolves(d, Parent(x), a) /\ Entry(d, a, Leaf(x), j)
      BY <2>1, <3>1, LastStep
    <3>3. PICK b \in Inodes : Resolves(d, Parent(y), b) /\ Entry(d, b, Leaf(y), j)
      BY <2>1, <3>1, LastStep
    <3>4. a = b /\ Leaf(x) = Leaf(y)
      BY <3>2, <3>3, EntryIs
    <3>5. Parent(x) \in AbsolutePaths /\ Parent(y) \in AbsolutePaths /\ Len(Parent(x)) = n
      BY <2>1, <3>1, ParentTypes
    <3>6. Parent(x) = Parent(y)
      BY <1>3, <3>2, <3>3, <3>4, <3>5
    <3> QED  BY <3>1, <3>4, <3>6, PathSplit
  <2> QED  BY <2>1
<1> HIDE DEF T
<1>4. Nat \subseteq T
  BY <1>2, <1>3, SetInduction
<1>5. Len(p) \in Nat
  BY PathTypes, ApiAssumption
<1>6. Len(p) \in T
  BY <1>4, <1>5
<1> QED  BY <1>6 DEF T


(***************************************************************************)
(* The mapped state                                                        *)
(***************************************************************************)
NodeAt(d, ino) == [type |-> d.inodes[ino].type, data |-> Content(d, ino)]
PathOf(d, ino) == CHOOSE p \in Resolved(d) : path_resolve(d, p).n = ino

LEMMA Looked ==
  ASSUME NEW d, Intact(d), NEW path \in AbsolutePaths
  PROVE  /\ \A i : Resolves(d, path, i) => /\ i \in Inodes /\ i \in d.inode_bitmap
                                           /\ path_resolve(d, path) = Success(i, <<>>)
                                           /\ path \in Resolved(d)
         /\ path \in Resolved(d) => Resolves(d, path, path_resolve(d, path).n)
<1>1. ASSUME NEW i, Resolves(d, path, i)
      PROVE  i \in Inodes /\ i \in d.inode_bitmap /\ path_resolve(d, path) = Success(i, <<>>)
  <2>1. PICK w \in [0..Len(path) -> Inodes] : w[Len(path)] = i
    BY <1>1 DEF Resolves
  <2>2. Len(path) \in 0..Len(path)
    BY PathTypes, ApiAssumption
  <2>3. i \in Inodes
    BY <2>1, <2>2
  <2> QED  BY <1>1, <2>3, IntactIs, ResolveIs, ResolvedIsThere
<1>2. \A i : Resolves(d, path, i) => path \in Resolved(d)
  BY <1>1 DEF Success, Resolved
<1>3. path \in Resolved(d) => Resolves(d, path, path_resolve(d, path).n)
  BY IntactIs, ResolveIs DEF Resolved
<1> QED  BY <1>1, <1>2, <1>3

LEMMA TreeIs ==
  ASSUME NEW d, Intact(d)
  PROVE  /\ DOMAIN TreeOf(d) = Resolved(d) /\ Resolved(d) \subseteq AbsolutePaths
         /\ \A p \in AbsolutePaths : \A i : Resolves(d, p, i) => TreeOf(d)[p] = NodeAt(d, i)
         /\ \A i \in d.inode_bitmap :
              PathOf(d, i) \in AbsolutePaths /\ Resolves(d, PathOf(d, i), i)
<1>1. DOMAIN TreeOf(d) = Resolved(d) /\ Resolved(d) \subseteq AbsolutePaths
  BY DEF TreeOf, Resolved
<1>2. ASSUME NEW p \in AbsolutePaths, NEW i, Resolves(d, p, i)
      PROVE  TreeOf(d)[p] = NodeAt(d, i)
  <2>1. path_resolve(d, p).n = i /\ p \in Resolved(d)
    BY <1>2, Looked DEF Success
  <2> QED  BY <2>1 DEF TreeOf, NodeAt
<1>3. ASSUME NEW i \in d.inode_bitmap
      PROVE  PathOf(d, i) \in AbsolutePaths /\ Resolves(d, PathOf(d, i), i)
  <2>1. PICK p \in AbsolutePaths : Resolves(d, p, i)
    BY IntactIs DEF Reachable
  <2>2. p \in Resolved(d) /\ path_resolve(d, p).n = i
    BY <2>1, Looked DEF Success
  <2>3. PathOf(d, i) \in Resolved(d) /\ path_resolve(d, PathOf(d, i)).n = i
    BY <2>2, Zenon DEF PathOf
  <2> QED  BY <1>1, <2>3, Looked
<1> QED  BY <1>1, <1>2, <1>3

(* What two stores with the same nodes at the same paths map to. *)
LEMMA TreeFrom ==
  ASSUME NEW d, Intact(d), NEW t, t = [p \in DOMAIN t |-> t[p]], DOMAIN t = Resolved(d),
         \A p \in AbsolutePaths : \A i \in d.inode_bitmap : Resolves(d, p, i) => t[p] = NodeAt(d, i)
  PROVE  TreeOf(d) = t
<1>1. \A p \in Resolved(d) : TreeOf(d)[p] = t[p]
  <2>1. ASSUME NEW p \in Resolved(d)
        PROVE  TreeOf(d)[p] = t[p]
    <3>1. p \in AbsolutePaths
      BY TreeIs
    <3>2. PICK i : Resolves(d, p, i)
      BY <3>1, Looked
    <3> QED  BY <3>1, <3>2, Looked, TreeIs
  <2> QED  BY <2>1
<1>2. TreeOf(d) = [p \in Resolved(d) |-> TreeOf(d)[p]]
  BY DEF TreeOf
<1>3. [p \in Resolved(d) |-> TreeOf(d)[p]] = [p \in Resolved(d) |-> t[p]]
  BY <1>1
<1> QED  BY <1>2, <1>3

(* A handle's path is the path of its inode. *)
LEMMA HandlesAre ==
  ASSUME NEW d, Intact(d), NEW f, FdsGood(f, d), NEW fd \in Fds, NEW h, h = HandlesOf(d, f)[fd]
  PROVE  /\ h.open = f[fd].in_use /\ h.offset = f[fd].offset /\ h.flags = f[fd].flags
         /\ f[fd].in_use => /\ h.path \in AbsolutePaths /\ Resolves(d, h.path, f[fd].inode)
                            /\ f[fd].inode \in d.inode_bitmap /\ d.inodes[f[fd].inode].type = "FILE"
         /\ f[fd].in_use \in BOOLEAN /\ f[fd].inode \in Inodes /\ f[fd].offset \in Nat
<1>1. f[fd] \in FdRecords
  BY DEF FdsGood
<1>2. f[fd].in_use \in BOOLEAN /\ f[fd].inode \in Inodes /\ f[fd].offset \in Nat
  BY <1>1 DEF FdRecords
<1>3. f[fd].in_use => f[fd].inode \in d.inode_bitmap /\ d.inodes[f[fd].inode].type = "FILE"
  BY DEF FdsGood, OpenIsFile
<1>4. h = [open |-> f[fd].in_use, offset |-> f[fd].offset, flags |-> f[fd].flags,
           path |-> IF f[fd].in_use THEN PathOf(d, f[fd].inode) ELSE <<>>]
  BY DEF HandlesOf, PathOf
<1>5. /\ h.open = f[fd].in_use /\ h.offset = f[fd].offset /\ h.flags = f[fd].flags
      /\ f[fd].in_use => h.path = PathOf(d, f[fd].inode)
  BY <1>4
<1> QED  BY <1>2, <1>3, <1>5, TreeIs

LEMMA HandlesFrom ==
  ASSUME NEW d, Intact(d), NEW e, Intact(e), NEW f, FdsGood(f, d),
         \A fd \in Fds : \A p \in AbsolutePaths :
           f[fd].in_use /\ Resolves(d, p, f[fd].inode) => Resolves(e, p, f[fd].inode)
  PROVE  HandlesOf(e, f) = HandlesOf(d, f)
<1>1. ASSUME NEW fd \in Fds, f[fd].in_use
      PROVE  PathOf(e, f[fd].inode) = PathOf(d, f[fd].inode)
  <2>1. f[fd].inode \in d.inode_bitmap
    BY <1>1 DEF FdsGood, OpenIsFile
  <2>2. PathOf(d, f[fd].inode) \in AbsolutePaths /\ Resolves(d, PathOf(d, f[fd].inode), f[fd].inode)
    BY <2>1, TreeIs
  <2>3. Resolves(e, PathOf(d, f[fd].inode), f[fd].inode)
    BY <1>1, <2>2
  <2>4. f[fd].inode \in e.inode_bitmap
    BY <2>2, <2>3, Looked
  <2> QED  BY <2>2, <2>3, <2>4, OnePath, TreeIs
<1> QED  BY <1>1, Zenon DEF HandlesOf, PathOf


(***************************************************************************)
(* What a change of the store does to the tree                             *)
(***************************************************************************)
Readables(d) == \A ino \in d.inode_bitmap : Size(d, ino) <= Backed(d, ino)

LEMMA SamePaths ==
  ASSUME NEW d, Intact(d), NEW e, Intact(e), e.inode_bitmap = d.inode_bitmap, PathsKept(d, e)
  PROVE  /\ \A p \in AbsolutePaths : \A i : Resolves(e, p, i) <=> Resolves(d, p, i)
         /\ Resolved(e) = Resolved(d)
<1>1. ASSUME NEW p \in AbsolutePaths, NEW i
      PROVE  Resolves(e, p, i) <=> Resolves(d, p, i)
  <2>1. Resolves(d, p, i) => Resolves(e, p, i)
    BY Looked DEF PathsKept
  <2>2. ASSUME Resolves(e, p, i)
        PROVE  Resolves(d, p, i)
    <3>1. i \in d.inode_bitmap
      BY <2>2, Looked
    <3>2. PICK q \in AbsolutePaths : Resolves(d, q, i)
      BY <3>1, IntactIs DEF Reachable
    <3>3. Resolves(e, q, i)
      BY <3>2, Looked DEF PathsKept
    <3> QED  BY <2>2, <3>2, <3>3, OnePath
  <2> QED  BY <2>1, <2>2
<1>2. Resolved(e) = Resolved(d)
  <2>1. \A p \in AbsolutePaths : p \in Resolved(e) <=> p \in Resolved(d)
    BY <1>1, Looked
  <2> QED  BY <2>1, TreeIs
<1> QED  BY <1>1, <1>2

LEMMA SameContent ==
  ASSUME NEW d, Intact(d), NEW e, Intact(e), NEW i \in d.inode_bitmap, i \in e.inode_bitmap,
         e.inodes[i].type = d.inodes[i].type, Size(d, i) <= Backed(d, i),
         d.inodes[i].type = "FILE" => SameInode(d, e, i)
  PROVE  NodeAt(e, i) = NodeAt(d, i)
<1>1. CASE d.inodes[i].type = "DIR"
  BY <1>1 DEF NodeAt, Content
<1>2. CASE d.inodes[i].type # "DIR"
  <2>1. d.inodes[i].type = "FILE"
    <3>1. d \in Disks /\ i \in Inodes /\ d.inodes[i].type # "FREE"
      BY IntactIs DEF Sound, FreeIsEmpty
    <3> QED  BY <1>2, <3>1, DiskTypes DEF Types
  <2>2. SameInode(d, e, i) /\ i \in Inodes
    BY <2>1, IntactIs
  <2>3. /\ Size(d, i) \in Nat /\ Backed(d, i) \in Nat /\ Backed(e, i) \in Nat
        /\ Size(e, i) = Size(d, i) /\ Backed(d, i) <= Backed(e, i)
        /\ \A k \in 0..(Backed(d, i) - 1) : CellAt(e, i, k) = CellAt(d, i, k)
    BY <2>2, IntactIs DEF SameInode
  <2>4. \A k \in 1..Size(d, i) :
          k <= Backed(d, i) /\ k <= Backed(e, i) /\ CellAt(e, i, k - 1) = CellAt(d, i, k - 1)
    BY <2>3
  <2>5. e.inodes[i].size = Size(d, i) /\ d.inodes[i].size = Size(d, i)
    BY <2>3 DEF Size
  <2> HIDE DEF Size
  <2>6. Content(d, i) = [k \in 1..Size(d, i) |-> CellAt(d, i, k - 1)]
    BY <1>2, <2>4, <2>5 DEF Content
  <2>7. Content(e, i) = [k \in 1..Size(d, i) |-> CellAt(e, i, k - 1)]
    BY <1>2, <2>4, <2>5 DEF Content
  <2>8. Content(e, i) = Content(d, i)
    BY <2>4, <2>6, <2>7
  <2> QED  BY <2>8 DEF NodeAt
<1> QED  BY <1>1, <1>2

(* Each file but one is as it was, the directories too. *)
LEMMA FileTree ==
  ASSUME NEW d, Intact(d), Readables(d), NEW e, Intact(e), SameDirs(d, e),
         NEW ino, NEW path \in AbsolutePaths, Resolves(d, path, ino),
         \A i \in d.inode_bitmap : d.inodes[i].type = "FILE" /\ i # ino => SameInode(d, e, i),
         NEW f, FdsGood(f, d)
  PROVE  /\ TreeOf(e) = [TreeOf(d) EXCEPT ![path] = NodeAt(e, ino)]
         /\ HandlesOf(e, f) = HandlesOf(d, f) /\ PathsKept(d, e)
<1>1. PathsKept(d, e)
  <2>1. \A dir \in Dirs(d), i \in Nat : /\ Live(e, dir, i) <=> Live(d, dir, i)
                                        /\ Live(d, dir, i) => CellAt(e, dir, i) = CellAt(d, dir, i)
    BY IntactIs, SameDirsKeepTree
  <2>2. \A dir, i \in Inodes, name \in Names : Entry(d, dir, name, i) => Entry(e, dir, name, i)
    BY <2>1 DEF Entry, Live
  <2> QED  BY <2>2, ResolvesOn DEF PathsKept
<1>2. /\ e.inode_bitmap = d.inode_bitmap
      /\ \A i \in d.inode_bitmap : e.inodes[i].type = d.inodes[i].type
  BY DEF SameDirs
<1>3. /\ \A p \in AbsolutePaths : \A i : Resolves(e, p, i) <=> Resolves(d, p, i)
      /\ Resolved(e) = Resolved(d)
  BY <1>1, <1>2, SamePaths
<1>4. HandlesOf(e, f) = HandlesOf(d, f)
  BY <1>3, HandlesFrom
<1> DEFINE t == [TreeOf(d) EXCEPT ![path] = NodeAt(e, ino)]
<1>5. ASSUME NEW p \in AbsolutePaths, NEW i \in e.inode_bitmap, Resolves(e, p, i)
      PROVE  t[p] = NodeAt(e, i)
  <2>1. Resolves(d, p, i) /\ p \in DOMAIN TreeOf(d)
    BY <1>3, <1>5, Looked, TreeIs
  <2>2. CASE p = path
    <3>1. i = ino
      BY <2>1, <2>2, Looked DEF Success
    <3> QED  BY <2>1, <2>2, <3>1
  <2>3. CASE p # path
    <3>1. i # ino
      BY <2>1, <2>3, OnePath
    <3>2. NodeAt(e, i) = NodeAt(d, i)
      BY <1>2, <3>1, SameContent DEF Readables
    <3> QED  BY <2>1, <2>3, <3>2, TreeIs
  <2> QED  BY <2>2, <2>3
<1>6. DOMAIN t = Resolved(e) /\ t = [p \in DOMAIN t |-> t[p]]
  BY <1>3, TreeIs
<1> HIDE DEF t
<1>7. TreeOf(e) = t
  BY <1>5, <1>6, TreeFrom
<1> QED  BY <1>1, <1>4, <1>7 DEF t

LEMMA SameTree ==
  ASSUME NEW d, Intact(d), Readables(d), NEW e, Intact(e), Same(d, e), NEW f, FdsGood(f, d)
  PROVE  TreeOf(e) = TreeOf(d) /\ HandlesOf(e, f) = HandlesOf(d, f)
<1>1. SameDirs(d, e) /\ Resolves(d, <<>>, ROOT_INODE) /\ <<>> \in AbsolutePaths
  BY IntactIs, RootPath, SameIs
<1>2. \A i \in d.inode_bitmap : d.inodes[i].type = "FILE" => SameInode(d, e, i)
  BY DEF Same
<1>3. /\ TreeOf(e) = [TreeOf(d) EXCEPT ![<<>>] = NodeAt(e, ROOT_INODE)]
      /\ HandlesOf(e, f) = HandlesOf(d, f)
  BY <1>1, <1>2, FileTree
<1>4. ROOT_INODE \in d.inode_bitmap /\ ROOT_INODE \in e.inode_bitmap
  BY IntactIs
<1>5. NodeAt(e, ROOT_INODE) = NodeAt(d, ROOT_INODE)
  BY <1>2, <1>4, SameContent DEF Same, Readables
<1>6. TreeOf(d)[<<>>] = NodeAt(d, ROOT_INODE)
  BY <1>1, TreeIs
<1> QED  BY <1>3, <1>5, <1>6 DEF TreeOf

Plus(t, path, node) == [p \in DOMAIN t \cup {path} |-> IF p = path THEN node ELSE t[p]]
Minus(t, path) == [p \in DOMAIN t \ {path} |-> t[p]]

LEMMA AddedTree ==
  ASSUME NEW d, Intact(d), Readables(d), NEW e, Intact(e), FilesKept(d, e), PathsKept(d, e),
         NEW n \in Inodes \ d.inode_bitmap, e.inode_bitmap = d.inode_bitmap \cup {n},
         NEW path \in AbsolutePaths, Resolves(e, path, n), Size(e, n) = 0,
         NEW f, FdsGood(f, d)
  PROVE  /\ path \notin Resolved(d)
         /\ TreeOf(e) = Plus(TreeOf(d), path, [type |-> e.inodes[n].type, data |-> <<>>])
         /\ HandlesOf(e, f) = HandlesOf(d, f)
<1>1. path \notin Resolved(d)
  <2>1. SUFFICES ASSUME path \in Resolved(d) PROVE FALSE
        OBVIOUS
  <2>2. PICK i \in d.inode_bitmap : Resolves(d, path, i)
    BY <2>1, Looked
  <2>3. Resolves(e, path, i)
    BY <2>2, IntactIs DEF PathsKept
  <2>4. i = n
    BY <2>3, Looked DEF Success
  <2> QED  BY <2>2, <2>4
<1>2. HandlesOf(e, f) = HandlesOf(d, f)
  <2>1. \A fd \in Fds : \A p \in AbsolutePaths :
          f[fd].in_use /\ Resolves(d, p, f[fd].inode) => Resolves(e, p, f[fd].inode)
    BY Looked DEF PathsKept
  <2> QED  BY <2>1, HandlesFrom
<1>3. NodeAt(e, n) = [type |-> e.inodes[n].type, data |-> <<>>]
  <2>1. Content(e, n) = <<>>
    <3>1. e.inodes[n].size = 0
      BY DEF Size
    <3> QED  BY <3>1 DEF Content
  <2> QED  BY <2>1 DEF NodeAt
<1> DEFINE t == [p \in Resolved(d) \cup {path} |->
                   IF p = path THEN [type |-> e.inodes[n].type, data |-> <<>>] ELSE TreeOf(d)[p]]
<1>4. ASSUME NEW p \in AbsolutePaths, NEW i \in e.inode_bitmap, Resolves(e, p, i)
      PROVE  p \in Resolved(d) \cup {path} /\ t[p] = NodeAt(e, i)
  <2>1. CASE i = n
    <3>1. p = path
      BY <1>4, <2>1, OnePath
    <3> QED  BY <1>3, <2>1, <3>1
  <2>2. CASE i # n
    <3>1. i \in d.inode_bitmap
      BY <2>2
    <3>2. PICK q \in AbsolutePaths : Resolves(d, q, i)
      BY <3>1, IntactIs DEF Reachable
    <3>3. Resolves(e, q, i)
      BY <3>1, <3>2, IntactIs DEF PathsKept
    <3>4. p = q
      BY <1>4, <3>3, OnePath
    <3>5. p \in Resolved(d) /\ p # path
      BY <1>1, <3>2, <3>4, Looked
    <3>6. NodeAt(e, i) = NodeAt(d, i)
      BY <3>1, SameContent DEF FilesKept, Readables
    <3>7. TreeOf(d)[p] = NodeAt(d, i)
      BY <3>2, <3>4, TreeIs
    <3> QED  BY <3>5, <3>6, <3>7
  <2> QED  BY <2>1, <2>2
<1>5. Resolved(e) = Resolved(d) \cup {path}
  <2>1. ASSUME NEW p \in Resolved(d)
        PROVE  p \in Resolved(e)
    <3>1. p \in AbsolutePaths
      BY TreeIs
    <3>2. PICK i \in d.inode_bitmap : Resolves(d, p, i)
      BY <3>1, Looked
    <3>3. Resolves(e, p, i)
      BY <3>1, <3>2, IntactIs DEF PathsKept
    <3> QED  BY <3>1, <3>3, Looked
  <2>2. path \in Resolved(e)
    BY Looked
  <2>3. ASSUME NEW p \in Resolved(e)
        PROVE  p \in Resolved(d) \cup {path}
    <3>1. p \in AbsolutePaths
      BY TreeIs
    <3>2. PICK i \in e.inode_bitmap : Resolves(e, p, i)
      BY <3>1, Looked
    <3> QED  BY <1>4, <3>1, <3>2
  <2> QED  BY <2>1, <2>2, <2>3
<1>6. DOMAIN t = Resolved(e) /\ t = [p \in DOMAIN t |-> t[p]]
  BY <1>5
<1> HIDE DEF t
<1>7. TreeOf(e) = t
  BY <1>4, <1>6, TreeFrom
<1>8. Plus(TreeOf(d), path, [type |-> e.inodes[n].type, data |-> <<>>]) = t
  BY TreeIs DEF Plus, t
<1> QED  BY <1>1, <1>2, <1>7, <1>8

LEMMA RemovedTree ==
  ASSUME NEW d, Intact(d), Readables(d), NEW e, Intact(e), PathsKept(e, d),
         NEW target, e.inode_bitmap = d.inode_bitmap \ {target},
         \A i \in e.inode_bitmap : /\ e.inodes[i].type = d.inodes[i].type
                                   /\ d.inodes[i].type = "FILE" => SameInode(d, e, i),
         NEW path \in AbsolutePaths, Resolves(d, path, target),
         NEW f, FdsGood(f, d), \A fd \in Fds : f[fd].in_use => f[fd].inode # target
  PROVE  /\ TreeOf(e) = Minus(TreeOf(d), path)
         /\ HandlesOf(e, f) = HandlesOf(d, f)
<1>1. ASSUME NEW p \in AbsolutePaths, NEW i, Resolves(d, p, i), i # target
      PROVE  Resolves(e, p, i)
  <2>1. i \in e.inode_bitmap /\ i \in Inodes
    BY <1>1, Looked
  <2>2. PICK q \in AbsolutePaths : Resolves(e, q, i)
    BY <2>1, IntactIs DEF Reachable
  <2>3. Resolves(d, q, i)
    BY <2>1, <2>2 DEF PathsKept
  <2> QED  BY <1>1, <2>2, <2>3, OnePath
<1>2. ASSUME NEW p \in AbsolutePaths, NEW i, Resolves(e, p, i)
      PROVE  /\ i \in e.inode_bitmap /\ Resolves(d, p, i) /\ p \in Resolved(d) /\ p # path
             /\ TreeOf(d)[p] = NodeAt(e, i)
  <2>1. i \in e.inode_bitmap /\ i \in d.inode_bitmap /\ i # target /\ i \in Inodes
    BY <1>2, Looked
  <2>2. Resolves(d, p, i) /\ p \in Resolved(d)
    BY <1>2, <2>1, Looked DEF PathsKept
  <2>3. p # path
    BY <2>1, <2>2, Looked DEF Success
  <2>4. NodeAt(e, i) = NodeAt(d, i)
    BY <2>1, SameContent DEF Readables
  <2> QED  BY <2>1, <2>2, <2>3, <2>4, TreeIs
<1>3. Resolved(e) = Resolved(d) \ {path}
  <2>1. ASSUME NEW p \in Resolved(e)
        PROVE  p \in Resolved(d) \ {path}
    BY <1>2, Looked, TreeIs
  <2>2. ASSUME NEW p \in Resolved(d) \ {path}
        PROVE  p \in Resolved(e)
    <3>1. p \in AbsolutePaths
      BY TreeIs
    <3>2. PICK i \in d.inode_bitmap : Resolves(d, p, i)
      BY <3>1, Looked
    <3>3. i # target
      BY <2>2, <3>1, <3>2, OnePath
    <3> QED  BY <1>1, <3>1, <3>2, <3>3, Looked
  <2> QED  BY <2>1, <2>2
<1> DEFINE t == [p \in Resolved(d) \ {path} |-> TreeOf(d)[p]]
<1>4. DOMAIN t = Resolved(e) /\ t = [p \in DOMAIN t |-> t[p]]
  BY <1>3
<1>5. \A p \in AbsolutePaths : \A i \in e.inode_bitmap : Resolves(e, p, i) => t[p] = NodeAt(e, i)
  BY <1>2
<1> HIDE DEF t
<1>6. TreeOf(e) = t
  BY <1>4, <1>5, TreeFrom
<1>7. HandlesOf(e, f) = HandlesOf(d, f)
  <2>1. \A fd \in Fds : \A p \in AbsolutePaths :
          f[fd].in_use /\ Resolves(d, p, f[fd].inode) => Resolves(e, p, f[fd].inode)
    BY <1>1
  <2> QED  BY <2>1, HandlesFrom
<1>8. Minus(TreeOf(d), path) = t
  BY TreeIs DEF Minus, t
<1> QED  BY <1>6, <1>7, <1>8


(***************************************************************************)
(* Lookups: a walk fails where the path leaves the tree, for the reason    *)
(* FileSystem gives.                                                       *)
(***************************************************************************)
LEMMA PrefixTypes ==
  ASSUME NEW path \in AbsolutePaths, NEW i \in 0..Len(path)
  PROVE  LET p == SubSeq(path, 1, i) IN
         /\ p \in AbsolutePaths /\ Len(p) = i /\ \A k \in 1..i : p[k] = path[k]
         /\ i = Len(path) => p = path
         /\ i = 0 => p = <<>>
<1> DEFINE p == SubSeq(path, 1, i)
<1>1. path \in Seq(Names) /\ Len(path) \in 0..Depth /\ \A k \in 1..Len(path) : path[k] \in Names
  BY PathTypes
<1>2. Len(path) \in Nat /\ i \in Nat /\ i <= Len(path) /\ i \in 0..Depth
  BY <1>1, ApiAssumption
<1>3. /\ p \in Seq(Names)
      /\ Len(p) = IF 1 <= i THEN i - 1 + 1 ELSE 0
      /\ \A k \in 1..(i - 1 + 1) : p[k] = path[1 + k - 1]
  <2>1. \A k \in 1..i : path[k] \in Names
    BY <1>1, <1>2
  <2> QED  BY <1>1, <1>2, <2>1, SubSeqProperties
<1> HIDE DEF p
<1>4. Len(p) = i /\ \A k \in 1..i : p[k] = path[k]
  <2>1. i - 1 + 1 = i /\ \A k \in 1..i : 1 + k - 1 = k
    BY <1>2
  <2> QED  BY <1>2, <1>3, <2>1
<1>5. p \in [1..i -> Names]
  BY <1>3, <1>4, LenProperties
<1>6. p \in AbsolutePaths
  BY <1>2, <1>5 DEF AbsolutePaths
<1>7. i = Len(path) => p = path
  BY <1>1, <1>3, <1>4, SeqEqual
<1>8. i = 0 => p = <<>>
  BY <1>3, <1>4, EmptySeq
<1> QED  BY <1>4, <1>6, <1>7, <1>8 DEF p

LEMMA PrefixWalk ==
  ASSUME NEW d, Intact(d), NEW path \in AbsolutePaths, NEW w, IsWalk(d, path, w),
         NEW i \in 0..Len(path)
  PROVE  path_resolve(d, SubSeq(path, 1, i)) = w[i]
<1> DEFINE p == SubSeq(path, 1, i)
<1>1. p \in AbsolutePaths /\ Len(p) = i /\ \A k \in 1..i : p[k] = path[k]
  BY PrefixTypes
<1>2. Len(path) \in Nat /\ i \in Nat /\ i <= Len(path)
  BY PathTypes, ApiAssumption
<1> HIDE DEF p
<1>3. PICK v : IsWalk(d, p, v) /\ path_resolve(d, p) = v[i]
  BY <1>1, IntactIs, WalkIs
<1>4. /\ w[0] = Success(ROOT_INODE, <<>>) /\ v[0] = Success(ROOT_INODE, <<>>)
      /\ \A k \in Nat : k + 1 \in 1..Len(path) => w[k + 1] = Descend(d, w[k], path[k + 1])
      /\ \A k \in Nat : k + 1 \in 1..i => v[k + 1] = Descend(d, v[k], p[k + 1])
  BY <1>1, <1>3 DEF IsWalk
<1> DEFINE T == {k \in Nat : k <= i => v[k] = w[k]}
<1>5. 0 \in T
  BY <1>4
<1>6. ASSUME NEW k \in Nat, k \in T
      PROVE  k + 1 \in T
  <2>1. SUFFICES ASSUME k + 1 <= i PROVE v[k + 1] = w[k + 1]
        OBVIOUS
  <2>2. k + 1 \in 1..i /\ k + 1 \in 1..Len(path) /\ k <= i
    BY <1>2, <2>1
  <2>3. v[k] = w[k]
    BY <1>6, <2>2
  <2> QED  BY <1>1, <1>4, <2>2, <2>3
<1> HIDE DEF T
<1>7. i \in T
  BY <1>2, <1>5, <1>6, SetInduction
<1> QED  BY <1>2, <1>3, <1>7 DEF T, p

LEMMA DescendFails ==
  ASSUME NEW d, Intact(d), NEW at, at.err = "OK", at.n \in d.inode_bitmap, NEW name \in Names,
         NEW r, r = Descend(d, at, name), r.err # "OK"
  PROVE  r = Failure(IF name \in LongNames THEN "NAME_LONG"
                     ELSE IF d.inodes[at.n].type # "DIR" THEN "NOT_DIR" ELSE "NOT_FOUND")
<1>1. CASE name \in LongNames
  BY <1>1 DEF Descend
<1>2. CASE name \notin LongNames
  <2>1. r = dir_find(d, at.n, name)
    BY <1>2 DEF Descend
  <2>2. at.n \in Dirs(d) <=> d.inodes[at.n].type = "DIR"
    BY DEF Dirs
  <2>3. CASE at.n \notin Dirs(d)
    BY <1>2, <2>1, <2>2, <2>3, IntactIs, DirFind
  <2>4. CASE at.n \in Dirs(d)
    <3>1. \A i \in Nat : Live(d, at.n, i) => CellAt(d, at.n, i).name # name
      BY <2>1, IntactIs, DirFind DEF Success
    <3> QED  BY <1>2, <2>1, <2>2, <2>4, <3>1, IntactIs, DirFind
  <2> QED  BY <2>3, <2>4
<1> QED  BY <1>1, <1>2

Mapped == tree = TreeOf(disk) /\ handles = HandlesOf(disk, fds)

LEMMA LookupIs ==
  ASSUME IInv, Mapped, NEW path \in Paths
  PROVE  LET r == path_resolve(disk, path) IN
         /\ FS!LookupError(path) = r.err /\ r.err \in Errors
         /\ r.err # "OK" => r = Failure(r.err)
         /\ r.err = "OK" => /\ path \in AbsolutePaths /\ Resolves(disk, path, r.n)
                            /\ r.n \in disk.inode_bitmap /\ path \in DOMAIN tree
                            /\ tree[path] = NodeAt(disk, r.n) /\ r = Success(r.n, <<>>)
         /\ r.err = "OK" <=> path \in DOMAIN tree
<1> DEFINE r == path_resolve(disk, path)
           d == disk
           M == FS!Missing(path)
<1>1. Intact(d) /\ tree = TreeOf(d) /\ DOMAIN tree = Resolved(d) /\ Resolved(d) \subseteq AbsolutePaths
  BY TreeIs DEF IInv, Mapped
<1>2. CASE path = BadPath
  <2>1. r = Failure("BAD_PATH")
    BY <1>2 DEF path_resolve
  <2>2. FS!LookupError(path) = "BAD_PATH"
    BY <1>2 DEF FS!LookupError
  <2>3. path \notin DOMAIN tree
    BY <1>1, <1>2, ApiAssumption
  <2> QED  BY <2>1, <2>2, <2>3 DEF Failure, Errors
<1>3. CASE path # BadPath
  <2>1. path \in AbsolutePaths
    BY <1>3 DEF Paths
  <2> DEFINE n == Len(path)
  <2>2. n \in Nat /\ \A i \in 1..n : path[i] \in Names
    BY <2>1, PathTypes, ApiAssumption
  <2>3. PICK w : IsWalk(d, path, w) /\ r = w[n]
    BY <1>1, <2>1, IntactIs, WalkIs
  <2>4. \A i \in 0..n : /\ SubSeq(path, 1, i) \in AbsolutePaths
                        /\ path_resolve(d, SubSeq(path, 1, i)) = w[i]
                        /\ i = n => SubSeq(path, 1, i) = path
                        /\ i = 0 => SubSeq(path, 1, i) = <<>>
    BY <1>1, <2>1, <2>3, PrefixTypes, PrefixWalk
  <2>5. \A i \in 0..n : SubSeq(path, 1, i) \in DOMAIN tree <=> w[i].err = "OK"
    BY <1>1, <2>4 DEF Resolved
  <2>6. /\ w \in [0..n -> Arrivals] /\ w[0] = Success(ROOT_INODE, <<>>)
        /\ \A i \in Nat : i + 1 \in 1..n => w[i + 1] = Descend(d, w[i], path[i + 1])
    BY <2>3 DEF IsWalk
  <2>7. M = {i \in 1..n : w[i].err # "OK"}
    <3>1. M = {i \in 1..n : SubSeq(path, 1, i) \notin DOMAIN tree}
      BY DEF FS!Missing
    <3> QED  BY <2>5, <3>1
  <2>8. \A i \in 0..n : w[i].err = "OK" =>
          /\ Resolves(d, SubSeq(path, 1, i), w[i].n) /\ w[i].n \in d.inode_bitmap
          /\ tree[SubSeq(path, 1, i)] = NodeAt(d, w[i].n) /\ w[i] = Success(w[i].n, <<>>)
    <3>1. ASSUME NEW i \in 0..n, w[i].err = "OK"
          PROVE  /\ Resolves(d, SubSeq(path, 1, i), w[i].n) /\ w[i].n \in d.inode_bitmap
                 /\ tree[SubSeq(path, 1, i)] = NodeAt(d, w[i].n) /\ w[i] = Success(w[i].n, <<>>)
      <4> DEFINE p == SubSeq(path, 1, i)
      <4>1. p \in AbsolutePaths /\ p \in Resolved(d) /\ path_resolve(d, p) = w[i]
        BY <1>1, <2>4, <2>5, <3>1
      <4> HIDE DEF p
      <4>2. Resolves(d, p, w[i].n)
        BY <1>1, <4>1, Looked
      <4>3. w[i].n \in d.inode_bitmap /\ w[i] = Success(w[i].n, <<>>) /\ tree[p] = NodeAt(d, w[i].n)
        BY <1>1, <4>1, <4>2, Looked, TreeIs
      <4> QED  BY <4>2, <4>3 DEF p
    <3> QED  BY <3>1
  <2> HIDE DEF M, n
  <2>9. CASE M = {}
    <3>1. w[n].err = "OK"
      <4>1. n = 0 => w[n].err = "OK"
        BY <2>6 DEF Success
      <4>2. n # 0 => n \in 1..n
        BY <2>2
      <4> QED  BY <2>7, <2>9, <4>1, <4>2
    <3>2. FS!LookupError(path) = "OK"
      BY <1>3, <2>9 DEF FS!LookupError, M
    <3>3. n \in 0..n
      BY <2>2
    <3>4. /\ SubSeq(path, 1, n) = path /\ Resolves(d, SubSeq(path, 1, n), w[n].n)
          /\ w[n].n \in d.inode_bitmap /\ w[n] = Success(w[n].n, <<>>)
          /\ tree[SubSeq(path, 1, n)] = NodeAt(d, w[n].n) /\ SubSeq(path, 1, n) \in DOMAIN tree
      BY <2>4, <2>5, <2>8, <3>1, <3>3
    <3> QED  BY <2>1, <2>3, <3>1, <3>2, <3>4 DEF Errors
  <2>10. CASE M # {}
    <3> DEFINE m == MinOf(M)
    <3>1. M \in SUBSET Nat
      BY <2>2, <2>7
    <3>2. m \in M /\ \A x \in M : m <= x
      BY <2>10, <3>1, MinIsThere
    <3> HIDE DEF m
    <3>3. /\ m \in 1..n /\ m \in Nat /\ m - 1 \in Nat /\ m - 1 \in 0..n /\ (m - 1) + 1 = m
          /\ w[m].err # "OK" /\ path[m] \in Names
      BY <2>2, <2>7, <3>2
    <3>4. w[m - 1].err = "OK"
      <4>1. m - 1 = 0 => w[m - 1].err = "OK"
        BY <2>6 DEF Success
      <4>2. m - 1 # 0 => m - 1 \in 1..n /\ ~(m <= m - 1)
        BY <2>2, <3>3
      <4> QED  BY <2>7, <3>2, <4>1, <4>2
    <3>5. w[m] = Descend(d, w[m - 1], path[m])
      BY <2>6, <3>3
    <3> DEFINE err == IF path[m] \in LongNames THEN "NAME_LONG"
                      ELSE IF d.inodes[w[m - 1].n].type # "DIR" THEN "NOT_DIR" ELSE "NOT_FOUND"
    <3>6. w[m] = Failure(err)
      BY <1>1, <2>8, <3>3, <3>4, <3>5, DescendFails
    <3>7. tree[SubSeq(path, 1, m - 1)].type = d.inodes[w[m - 1].n].type
      <4>1. tree[SubSeq(path, 1, m - 1)] = NodeAt(d, w[m - 1].n)
        BY <2>8, <3>3, <3>4, Zenon
      <4>2. NodeAt(d, w[m - 1].n).type = d.inodes[w[m - 1].n].type
        BY DEF NodeAt
      <4> QED  BY <4>1, <4>2, Zenon
    <3>8. FS!LookupError(path) = err
      <4>1. FS!MinOf(M) = m
        BY DEF FS!MinOf, MinOf, m
      <4> QED  BY <1>3, <2>10, <3>7, <4>1 DEF FS!LookupError, M
    <3>9. err # "OK" /\ err \in Errors
      BY DEF Errors
    <3> HIDE DEF err
    <3> DEFINE T == {k \in Nat : m + k <= n => w[m + k] = Failure(err)}
    <3>10. 0 \in T
      BY <3>3, <3>6
    <3>11. ASSUME NEW k \in Nat, k \in T
           PROVE  k + 1 \in T
      <4>1. SUFFICES ASSUME m + (k + 1) <= n PROVE w[m + (k + 1)] = Failure(err)
            OBVIOUS
      <4>2. /\ m + k \in Nat /\ (m + k) + 1 = m + (k + 1) /\ (m + k) + 1 \in 1..n /\ m + k <= n
        BY <2>2, <3>3, <4>1
      <4>3. w[m + k] = Failure(err) /\ w[m + (k + 1)] = Descend(d, w[m + k], path[m + (k + 1)])
        BY <2>6, <3>11, <4>2
      <4> QED  BY <3>9, <4>3 DEF Descend, Failure
    <3> HIDE DEF T
    <3>12. n - m \in Nat /\ m + (n - m) = n
      BY <2>2, <3>3
    <3>13. n - m \in T
      BY <3>10, <3>11, <3>12, SetInduction
    <3>14. w[n] = Failure(err)
      BY <2>2, <3>12, <3>13 DEF T
    <3>15. path \notin DOMAIN tree
      <4>1. n \in 0..n /\ w[n].err # "OK"
        BY <2>2, <3>9, <3>14 DEF Failure
      <4> QED  BY <2>4, <2>5, <4>1
    <3> QED  BY <2>3, <3>8, <3>9, <3>14, <3>15 DEF Failure
  <2> QED  BY <2>9, <2>10
<1> QED  BY <1>2, <1>3


(***************************************************************************)
(* The two modules' names for the same things                              *)
(***************************************************************************)
LEMMA Shared ==
  /\ \A p : FS!Parent(p) = Parent(p) /\ FS!Leaf(p) = Leaf(p) /\ FS!SplitError(p) = SplitError(p)
  /\ \A err : FS!Failure(err) = Failure(err)
  /\ \A n, data : FS!Success(n, data) = Success(n, data)
  /\ FS!Done = Done /\ FS!Fds = Fds /\ FS!Paths = Paths /\ FS!Root = <<>>
  /\ \A a, b : FS!Smaller(a, b) = Smaller(a, b) /\ FS!Larger(a, b) = Larger(a, b)
  /\ \A S : FS!MinOf(S) = MinOf(S)
  /\ \A name, type, size : FS!StatEntry(name, type, size) = StatEntry(name, type, size)
  /\ \A type : FS!Node(type) = [type |-> type, data |-> <<>>]
BY DEF FS!Parent, Parent, FS!Leaf, Leaf, FS!SplitError, SplitError, FS!Failure, Failure, FS!Success, Success,
       FS!Done, Done, FS!Fds, Fds, FS!Paths, Paths, FS!AbsolutePaths, AbsolutePaths, FS!Root, FS!Smaller, Smaller,
       FS!Larger, Larger, FS!MinOf, MinOf, FS!StatEntry, StatEntry, FS!Node

(***************************************************************************)
(* The calls.  Each step of RamFS between mapped states is one of          *)
(* FileSystem.                                                             *)
(***************************************************************************)
Represented == IInv /\ Mapped /\ Readables(disk)

LEMMA StoreIs ==
  ASSUME Represented
  PROVE  /\ Intact(disk) /\ FdsGood(fds, disk) /\ fds \in [Fds -> FdRecords] /\ Readables(disk)
         /\ tree = TreeOf(disk) /\ handles = HandlesOf(disk, fds) /\ IInv /\ Mapped
BY DEF Represented, IInv, Mapped, FdsGood

LEMMA SameMapping ==
  ASSUME Represented, Represented', Same(disk, disk') \/ disk' = disk, UNCHANGED fds
  PROVE  UNCHANGED <<tree, handles>>
<1>1. Intact(disk') /\ tree' = TreeOf(disk') /\ handles' = HandlesOf(disk', fds')
  BY DEF Represented, IInv, Mapped
<1>2. Same(disk, disk')
  BY StoreIs, IntactIs, SameAsItself
<1> QED  BY <1>1, <1>2, StoreIs, SameTree

(* A descriptor is good for a call on both sides or on neither. *)
LEMMA DescriptorIs ==
  ASSUME Represented, NEW fd
  PROVE  /\ fd_check(fd) <=> fd \in FS!Fds /\ handles[fd].open
         /\ \A flag : (fd_check(fd) /\ flag \in fds[fd].flags) <=> FS!Usable(fd, flag)
         /\ fd_check(fd) =>
              LET h == handles[fd]
                  ino == fds[fd].inode IN
              /\ h.offset = fds[fd].offset /\ h.flags = fds[fd].flags /\ h.path \in AbsolutePaths
              /\ Resolves(disk, h.path, ino) /\ ino \in disk.inode_bitmap
              /\ disk.inodes[ino].type = "FILE" /\ tree[h.path] = NodeAt(disk, ino)
              /\ h.path \in DOMAIN tree /\ h.offset \in Nat
<1>1. ASSUME fd \in Fds
      PROVE  /\ handles[fd].open = fds[fd].in_use /\ fds[fd].in_use \in BOOLEAN
             /\ handles[fd].offset = fds[fd].offset /\ handles[fd].flags = fds[fd].flags
             /\ fds[fd].offset \in Nat
             /\ fds[fd].in_use => /\ handles[fd].path \in AbsolutePaths
                                  /\ Resolves(disk, handles[fd].path, fds[fd].inode)
                                  /\ fds[fd].inode \in disk.inode_bitmap
                                  /\ disk.inodes[fds[fd].inode].type = "FILE"
  <2>1. Intact(disk) /\ FdsGood(fds, disk) /\ handles = HandlesOf(disk, fds)
    BY StoreIs
  <2>2. PICK h : h = HandlesOf(disk, fds)[fd]
    OBVIOUS
  <2>3. /\ h.open = fds[fd].in_use /\ h.offset = fds[fd].offset /\ h.flags = fds[fd].flags
        /\ fds[fd].in_use => /\ h.path \in AbsolutePaths /\ Resolves(disk, h.path, fds[fd].inode)
                             /\ fds[fd].inode \in disk.inode_bitmap
                             /\ disk.inodes[fds[fd].inode].type = "FILE"
        /\ fds[fd].in_use \in BOOLEAN /\ fds[fd].offset \in Nat
    BY <1>1, <2>1, <2>2, HandlesAre
  <2>4. handles[fd] = h
    BY <2>1, <2>2
  <2> QED  BY <2>3, <2>4
<1>2. fd_check(fd) <=> fd \in FS!Fds /\ handles[fd].open
  BY <1>1, Shared DEF fd_check
<1>3. \A flag : (fd_check(fd) /\ flag \in fds[fd].flags) <=> FS!Usable(fd, flag)
  BY <1>1, Shared DEF fd_check, FS!Usable
<1>4. ASSUME fd_check(fd)
      PROVE  LET h == handles[fd]
                 ino == fds[fd].inode IN
             /\ h.offset = fds[fd].offset /\ h.flags = fds[fd].flags /\ h.path \in AbsolutePaths
             /\ Resolves(disk, h.path, ino) /\ ino \in disk.inode_bitmap
             /\ disk.inodes[ino].type = "FILE" /\ tree[h.path] = NodeAt(disk, ino)
             /\ h.path \in DOMAIN tree /\ h.offset \in Nat
  <2>1. fd \in Fds /\ fds[fd].in_use
    BY <1>4 DEF fd_check
  <2> QED  BY <1>1, <2>1, StoreIs, TreeIs, Looked
<1> QED  BY <1>2, <1>3, <1>4

HandleOf(d, r) == [open |-> r.in_use, offset |-> r.offset, flags |-> r.flags,
                   path |-> IF r.in_use THEN PathOf(d, r.inode) ELSE <<>>]

LEMMA HandlesAt ==
  ASSUME NEW d, NEW f
  PROVE  HandlesOf(d, f) = [fd \in Fds |-> HandleOf(d, f[fd])]
BY DEF HandlesOf, HandleOf, PathOf

Put(f, fd, r) == [f EXCEPT ![fd] = r]

LEMMA HandleReplaced ==
  ASSUME NEW d, NEW f \in [Fds -> FdRecords], NEW fd \in Fds, NEW r
  PROVE  HandlesOf(d, Put(f, fd, r)) = Put(HandlesOf(d, f), fd, HandleOf(d, r))
<1>1. HandlesOf(d, Put(f, fd, r)) = [x \in Fds |-> HandleOf(d, Put(f, fd, r)[x])]
  BY HandlesAt
<1>2. \A x \in Fds : Put(f, fd, r)[x] = IF x = fd THEN r ELSE f[x]
  BY DEF Put
<1>3. HandlesOf(d, f) = [x \in Fds |-> HandleOf(d, f[x])]
  BY HandlesAt
<1> QED  BY <1>1, <1>2, <1>3 DEF Put

Moved(f, fd, o) == [f EXCEPT ![fd].offset = o]

LEMMA HandleMoved ==
  ASSUME NEW d, NEW f \in [Fds -> FdRecords], NEW fd \in Fds, NEW o
  PROVE  HandlesOf(d, Moved(f, fd, o)) = Moved(HandlesOf(d, f), fd, o)
<1> DEFINE r == [f[fd] EXCEPT !.offset = o]
<1>1. Moved(f, fd, o) = Put(f, fd, r)
  BY DEF Moved, Put
<1>2. r.in_use = f[fd].in_use /\ r.inode = f[fd].inode /\ r.flags = f[fd].flags /\ r.offset = o
  BY DEF FdRecords
<1> HIDE DEF r
<1>3. HandleOf(d, r) = [HandleOf(d, f[fd]) EXCEPT !.offset = o]
  BY <1>2 DEF HandleOf
<1>4. HandlesOf(d, f)[fd] = HandleOf(d, f[fd])
  BY HandlesAt
<1>5. Put(HandlesOf(d, f), fd, HandleOf(d, r)) = Moved(HandlesOf(d, f), fd, o)
  BY <1>3, <1>4 DEF Moved, Put
<1>6. HandlesOf(d, Put(f, fd, r)) = Put(HandlesOf(d, f), fd, HandleOf(d, r))
  BY HandleReplaced
<1> QED  BY <1>1, <1>5, <1>6, Zenon

LEMMA BadFdMaps ==
  ASSUME Represented, Represented', BadFd
  PROVE  FS!Refused
<1>1. UNCHANGED <<disk, fds>> /\ ret' = Failure("BAD_FD")
  BY DEF BadFd, Return, Outcome
<1> QED  BY <1>1, SameMapping, Shared DEF FS!Refused

LEMMA SeekMaps ==
  ASSUME Represented, Represented', NEW fd, NEW offset, ramfs_seek(fd, offset)
  PROVE  FS!Seek(fd, offset)
<1>1. CASE ~fd_check(fd)
  BY <1>1, BadFdMaps, DescriptorIs DEF ramfs_seek, FS!Seek
<1>2. CASE fd_check(fd)
  <2>1. fd \in Fds /\ fds' = [fds EXCEPT ![fd].offset = offset] /\ ret' = Done /\ UNCHANGED disk
    BY <1>2 DEF ramfs_seek, fd_check
  <2>2. tree' = tree /\ handles' = HandlesOf(disk, fds')
    BY <2>1, StoreIs DEF Represented, Mapped
  <2>3. handles' = [handles EXCEPT ![fd].offset = offset]
    <3>1. fds \in [Fds -> FdRecords] /\ handles = HandlesOf(disk, fds)
      BY StoreIs
    <3>2. HandlesOf(disk, Moved(fds, fd, offset)) = Moved(HandlesOf(disk, fds), fd, offset)
      BY <2>1, <3>1, HandleMoved
    <3> QED  BY <2>1, <2>2, <3>1, <3>2 DEF Moved
  <2> QED  BY <1>2, <2>1, <2>2, <2>3, DescriptorIs, Shared DEF FS!Seek
<1> QED  BY <1>1, <1>2

LEMMA CloseMaps ==
  ASSUME Represented, Represented', NEW fd, ramfs_close(fd)
  PROVE  FS!Close(fd)
<1>1. CASE ~fd_check(fd)
  BY <1>1, BadFdMaps, DescriptorIs DEF ramfs_close, FS!Close
<1>2. CASE fd_check(fd)
  <2>1. fd \in Fds /\ fds' = [fds EXCEPT ![fd] = ClosedFd] /\ ret' = Done /\ UNCHANGED disk
    BY <1>2 DEF ramfs_close, fd_check
  <2>2. tree' = tree /\ handles' = HandlesOf(disk, fds')
    BY <2>1, StoreIs DEF Represented, Mapped
  <2>3. HandleOf(disk, ClosedFd) = FS!Closed
    BY DEF HandleOf, ClosedFd, FS!Closed, FS!Root
  <2>4. fds \in [Fds -> FdRecords] /\ handles = HandlesOf(disk, fds)
    BY StoreIs
  <2>5. handles' = [handles EXCEPT ![fd] = FS!Closed]
    <3>1. HandlesOf(disk, Put(fds, fd, ClosedFd)) = Put(HandlesOf(disk, fds), fd, HandleOf(disk, ClosedFd))
      BY <2>1, <2>4, HandleReplaced
    <3> QED  BY <2>1, <2>2, <2>3, <2>4, <3>1, Zenon DEF Put
  <2> QED  BY <1>2, <2>1, <2>2, <2>5, DescriptorIs, Shared DEF FS!Close
<1> QED  BY <1>1, <1>2


(***************************************************************************)
(* Directories: live slots and children                                    *)
(***************************************************************************)
ChildrenIn(d, p) == {q \in Resolved(d) : q # <<>> /\ Parent(q) = p}
LiveSlotsOf(d, dir) == {i \in Nat : Live(d, dir, i)}
ChildAt(d, dir, i) == PathOf(d, CellAt(d, dir, i).inode)

LEMMA ChildIs ==
  ASSUME NEW d, Intact(d), NEW p \in AbsolutePaths, NEW dir, Resolves(d, p, dir)
  PROVE  /\ \A name, i : Entry(d, dir, name, i) =>
              /\ PathOf(d, i) \in ChildrenIn(d, p) /\ Leaf(PathOf(d, i)) = name
              /\ Resolves(d, PathOf(d, i), i) /\ name \notin LongNames
         /\ \A q \in ChildrenIn(d, p) : \E i \in d.inode_bitmap :
              /\ q \in AbsolutePaths /\ Resolves(d, q, i) /\ Entry(d, dir, Leaf(q), i)
              /\ Leaf(q) \notin LongNames /\ q = PathOf(d, i)
<1>1. ASSUME NEW name, NEW i, Entry(d, dir, name, i)
      PROVE  /\ PathOf(d, i) \in ChildrenIn(d, p) /\ Leaf(PathOf(d, i)) = name
             /\ Resolves(d, PathOf(d, i), i) /\ name \notin LongNames
  <2> DEFINE q == PathOf(d, i)
  <2>1. i \in d.inode_bitmap /\ i # ROOT_INODE
    BY <1>1, EntryIs
  <2>2. q \in AbsolutePaths /\ Resolves(d, q, i)
    BY <2>1, TreeIs
  <2> HIDE DEF q
  <2>3. q # <<>>
    BY <2>1, <2>2, RootPath
  <2>4. PICK a \in Inodes : Resolves(d, Parent(q), a) /\ Entry(d, a, Leaf(q), i)
    BY <2>2, <2>3, LastStep
  <2>5. a = dir /\ Leaf(q) = name
    BY <1>1, <2>4, EntryIs
  <2>6. Parent(q) = p
    BY <2>2, <2>3, <2>4, <2>5, ParentTypes, OnePath
  <2>7. q \in Resolved(d) /\ Leaf(q) \notin LongNames
    BY <2>2, <2>3, Looked, LastStep
  <2> QED  BY <2>2, <2>3, <2>5, <2>6, <2>7 DEF ChildrenIn, q
<1>2. ASSUME NEW q \in ChildrenIn(d, p)
      PROVE  \E i \in d.inode_bitmap :
               /\ q \in AbsolutePaths /\ Resolves(d, q, i) /\ Entry(d, dir, Leaf(q), i)
               /\ Leaf(q) \notin LongNames /\ q = PathOf(d, i)
  <2>1. q \in AbsolutePaths /\ q \in Resolved(d) /\ q # <<>> /\ Parent(q) = p
    BY TreeIs DEF ChildrenIn
  <2>2. PICK i \in d.inode_bitmap : Resolves(d, q, i)
    BY <2>1, Looked
  <2>3. PICK a \in Inodes : Resolves(d, p, a) /\ Entry(d, a, Leaf(q), i)
    BY <2>1, <2>2, LastStep
  <2>4. a = dir
    BY <2>3, Looked DEF Success
  <2>5. q = PathOf(d, i)
    BY <2>1, <2>2, TreeIs, OnePath
  <2> QED  BY <2>1, <2>2, <2>3, <2>4, <2>5, LastStep
<1> QED  BY <1>1, <1>2

LEMMA SlotSet ==
  ASSUME NEW d, Intact(d), NEW dir \in Dirs(d)
  PROVE  /\ Slots(d, dir) = 0..(Size(d, dir) - 1) /\ ~Unreadable(d, dir)
         /\ LiveSlotsOf(d, dir) \subseteq 0..(Size(d, dir) - 1)
         /\ LiveSlotsOf(d, dir) = {i \in Slots(d, dir) : /\ IsDirent(CellAt(d, dir, i))
                                                         /\ CellAt(d, dir, i).inode \in d.inode_bitmap}
         /\ \A i \in LiveSlotsOf(d, dir) :
              CellAt(d, dir, i) \in Dirents /\ CellAt(d, dir, i).inode \in d.inode_bitmap
         /\ Size(d, dir) < NInodes /\ Size(d, dir) <= Backed(d, dir) /\ Size(d, dir) \in Nat
<1>1. /\ Size(d, dir) \in Nat /\ Backed(d, dir) \in Nat /\ Size(d, dir) <= Backed(d, dir)
      /\ Size(d, dir) < NInodes /\ dir \in Inodes
  BY IntactIs DEF Readable, Bounded
<1>2. Slots(d, dir) = 0..(Size(d, dir) - 1) /\ ~Unreadable(d, dir)
  BY <1>1 DEF Slots, Unreadable, Size, Smaller
<1>3. \A i \in LiveSlotsOf(d, dir) : CellAt(d, dir, i) \in Dirents /\ CellAt(d, dir, i).inode \in d.inode_bitmap
  BY IntactIs DEF LiveSlotsOf, Linked
<1>4. LiveSlotsOf(d, dir) = {i \in Slots(d, dir) : /\ IsDirent(CellAt(d, dir, i))
                                                   /\ CellAt(d, dir, i).inode \in d.inode_bitmap}
  <2>1. \A i : i \in 0..(Size(d, dir) - 1) => i \in Nat
    BY <1>1
  <2>2. \A i : CellAt(d, dir, i) \in Dirents => CellAt(d, dir, i) # Hole
    BY RamFSAssumption
  <2> QED  BY <1>2, <1>3, <2>1, <2>2 DEF LiveSlotsOf, Live, IsDirent
<1> QED  BY <1>1, <1>2, <1>3, <1>4

LEMMA LiveSlotsAre ==
  ASSUME NEW d, Intact(d), NEW dir \in Dirs(d)
  PROVE  /\ \A i \in LiveSlotsOf(d, dir) : Entry(d, dir, CellAt(d, dir, i).name, CellAt(d, dir, i).inode)
         /\ \A name, n : Entry(d, dir, name, n) =>
              \E k \in LiveSlotsOf(d, dir) : CellAt(d, dir, k) = Dirent(name, n)
         /\ IsFiniteSet(LiveSlotsOf(d, dir)) /\ Cardinality(LiveSlotsOf(d, dir)) \in 0..Size(d, dir)
<1>1. Size(d, dir) \in Nat /\ LiveSlotsOf(d, dir) \subseteq 0..(Size(d, dir) - 1)
  BY SlotSet
<1>2. \A i \in LiveSlotsOf(d, dir) : CellAt(d, dir, i) \in Dirents
  BY SlotSet
<1>3. ASSUME NEW i \in LiveSlotsOf(d, dir)
      PROVE  Entry(d, dir, CellAt(d, dir, i).name, CellAt(d, dir, i).inode)
  <2>1. CellAt(d, dir, i) = Dirent(CellAt(d, dir, i).name, CellAt(d, dir, i).inode)
    BY <1>2 DEF Dirents, Dirent
  <2> QED  BY <2>1, Zenon DEF Entry, LiveSlotsOf
<1>4. IsFiniteSet(LiveSlotsOf(d, dir)) /\ Cardinality(LiveSlotsOf(d, dir)) \in 0..Size(d, dir)
  <2>1. IsFiniteSet(0..(Size(d, dir) - 1)) /\ Cardinality(0..(Size(d, dir) - 1)) = Size(d, dir)
    <3>1. 0 \in Int /\ Size(d, dir) - 1 \in Int
      BY <1>1
    <3>2. /\ IsFiniteSet(0..(Size(d, dir) - 1))
          /\ Cardinality(0..(Size(d, dir) - 1)) = IF 0 > Size(d, dir) - 1 THEN 0 ELSE Size(d, dir) - 1 - 0 + 1
      BY <3>1, FS_Interval
    <3> QED  BY <1>1, <3>2
  <2>2. LiveSlotsOf(d, dir) \in SUBSET (0..(Size(d, dir) - 1))
    BY <1>1
  <2>3. IsFiniteSet(LiveSlotsOf(d, dir)) /\ Cardinality(LiveSlotsOf(d, dir)) <= Size(d, dir)
    BY <2>1, <2>2, FS_Subset
  <2>4. Cardinality(LiveSlotsOf(d, dir)) \in Nat
    BY <2>3, FS_CardinalityType
  <2> QED  BY <1>1, <2>3, <2>4
<1>5. \A name, n : Entry(d, dir, name, n) => \E k \in LiveSlotsOf(d, dir) : CellAt(d, dir, k) = Dirent(name, n)
  BY DEF Entry, LiveSlotsOf
<1> QED  BY <1>3, <1>4, <1>5

(* A directory has one live slot per child. *)
LEMMA ChildPerSlot ==
  ASSUME NEW d, Intact(d), NEW p \in AbsolutePaths, NEW dir \in Dirs(d), Resolves(d, p, dir)
  PROVE  /\ \A i \in LiveSlotsOf(d, dir) :
              LET q == ChildAt(d, dir, i)
                  cell == CellAt(d, dir, i) IN
              /\ q \in ChildrenIn(d, p) /\ Leaf(q) = cell.name /\ Resolves(d, q, cell.inode)
         /\ \A i, j \in LiveSlotsOf(d, dir) : ChildAt(d, dir, i) = ChildAt(d, dir, j) => i = j
         /\ IsFiniteSet(ChildrenIn(d, p))
         /\ Cardinality(ChildrenIn(d, p)) = Cardinality(LiveSlotsOf(d, dir))
<1> DEFINE S == LiveSlotsOf(d, dir)
           T == ChildrenIn(d, p)
           f == [i \in S |-> ChildAt(d, dir, i)]
<1>1. ASSUME NEW i \in S
      PROVE  /\ ChildAt(d, dir, i) \in T /\ Leaf(ChildAt(d, dir, i)) = CellAt(d, dir, i).name
             /\ Resolves(d, ChildAt(d, dir, i), CellAt(d, dir, i).inode)
  <2>1. Entry(d, dir, CellAt(d, dir, i).name, CellAt(d, dir, i).inode)
    BY LiveSlotsAre
  <2> QED  BY <2>1, ChildIs DEF ChildAt
<1>2. ASSUME NEW i \in S, NEW j \in S, ChildAt(d, dir, i) = ChildAt(d, dir, j)
      PROVE  i = j
  <2>1. ChildAt(d, dir, i) \in AbsolutePaths
    BY <1>1, TreeIs DEF ChildrenIn
  <2>2. CellAt(d, dir, i).inode = CellAt(d, dir, j).inode
    BY <1>1, <1>2, <2>1, Looked DEF Success
  <2> QED  BY <2>2, IntactIs DEF Unique, LiveSlotsOf
<1>3. ASSUME NEW q \in T
      PROVE  \E i \in S : ChildAt(d, dir, i) = q
  <2>1. PICK n \in d.inode_bitmap : Entry(d, dir, Leaf(q), n) /\ q = PathOf(d, n)
    BY ChildIs
  <2>2. PICK k \in S : CellAt(d, dir, k) = Dirent(Leaf(q), n)
    BY <2>1, LiveSlotsAre
  <2> QED  BY <2>1, <2>2 DEF ChildAt, Dirent
<1>4. IsFiniteSet(S)
  BY LiveSlotsAre
<1> HIDE DEF S, T
<1>5. f \in Bijection(S, T)
  BY <1>1, <1>2, <1>3 DEF Bijection, Injection, Surjection, IsInjective
<1>6. ExistsBijection(S, T)
  BY <1>5, Zenon DEF ExistsBijection
<1>7. IsFiniteSet(T) /\ Cardinality(T) = Cardinality(S)
  BY <1>4, <1>6, FS_Bijection
<1> QED  BY <1>1, <1>2, <1>7 DEF S, T


LEMMA ContentIs ==
  ASSUME NEW d, Intact(d), NEW i \in d.inode_bitmap, d.inodes[i].type = "FILE",
         Size(d, i) <= Backed(d, i)
  PROVE  /\ Content(d, i) = [k \in 1..Size(d, i) |-> CellAt(d, i, k - 1)]
         /\ Content(d, i) \in Seq(Contents) /\ Len(Content(d, i)) = Size(d, i)
         /\ \A k \in 1..Size(d, i) : Content(d, i)[k] = CellAt(d, i, k - 1)
<1> DEFINE s == Size(d, i)
           c == [k \in 1..s |-> CellAt(d, i, k - 1)]
<1>1. s \in Nat /\ Backed(d, i) \in Nat /\ i \in Inodes /\ d.inodes[i].size = s
  BY IntactIs DEF Size
<1> HIDE DEF s
<1>2. \A k \in 1..s : k <= Backed(d, i) /\ k - 1 \in 0..(Backed(d, i) - 1)
  BY <1>1 DEF s
<1>3. Content(d, i) = c
  BY <1>1, <1>2 DEF Content
<1>4. \A k \in 1..s : c[k] \in Contents
  BY <1>1, <1>2, IntactIs, CellTypes
<1>5. c \in [1..s -> Contents]
  BY <1>4
<1> HIDE DEF c
<1>6. c \in Seq(Contents) /\ Len(c) = s
  BY <1>1, <1>5
<1> QED  BY <1>3, <1>6 DEF c, s

(* A store's whole backing fits the device. *)
LEMMA BackedFits ==
  ASSUME NEW d, Intact(d), NEW i \in Inodes
  PROVE  Backed(d, i) \in 0..(NBlocks * BlockSize)
<1>1. ChainLength(d, i) \in 0..NBlocks
  BY IntactIs, Lengths DEF Sound, Ends
<1>2. ChainLength(d, i) \in Nat /\ NBlocks \in Nat /\ BlockSize \in Nat
  BY <1>1, RamFSAssumption
<1> DEFINE l == ChainLength(d, i)
<1>3. l \in Nat /\ l <= NBlocks
  BY <1>1, <1>2
<1> HIDE DEF l
<1>4. l * BlockSize \in 0..(NBlocks * BlockSize)
  <2>1. CASE l = NBlocks
    BY <1>2, <2>1
  <2>2. CASE l # NBlocks
    <3>1. BlockSize * l \in Nat /\ BlockSize * l + BlockSize <= BlockSize * NBlocks
      BY <1>2, <1>3, <2>2, Product
    <3>2. BlockSize * l = l * BlockSize /\ BlockSize * NBlocks = NBlocks * BlockSize
      BY <1>2, <1>3
    <3> QED  BY <1>2, <3>1, <3>2
  <2> QED  BY <2>1, <2>2
<1> QED  BY <1>4 DEF Backed, l

LEMMA SameCardinality == \A S : FS!Cardinality(S) = Cardinality(S)
BY DEF FS!Cardinality, Cardinality

(* The size stat reports is one FileSystem may report. *)
LEMMA ReportedSize ==
  ASSUME Represented, NEW q \in AbsolutePaths, NEW i, Resolves(disk, q, i)
  PROVE  /\ Size(disk, i) \in FS!EntrySizes(q) /\ Size(disk, i) \in 0..(NBlocks * BlockSize)
         /\ tree[q].type = disk.inodes[i].type /\ q \in DOMAIN tree /\ i \in disk.inode_bitmap
<1>1. /\ Intact(disk) /\ tree = TreeOf(disk) /\ i \in disk.inode_bitmap /\ i \in Inodes
      /\ q \in Resolved(disk) /\ DOMAIN tree = Resolved(disk) /\ tree[q] = NodeAt(disk, i)
  BY StoreIs, Looked, TreeIs
<1>2. Size(disk, i) \in Nat /\ Size(disk, i) <= Backed(disk, i)
  BY <1>1, StoreIs, IntactIs DEF Readables
<1>3. Size(disk, i) \in 0..(NBlocks * BlockSize)
  BY <1>1, <1>2, BackedFits, RamFSAssumption
<1>4. tree[q].type = disk.inodes[i].type /\ tree[q].data = Content(disk, i)
  BY <1>1 DEF NodeAt
<1>5. CASE disk.inodes[i].type = "FILE"
  BY <1>1, <1>2, <1>3, <1>4, <1>5, ContentIs DEF FS!EntrySizes
<1>6. CASE disk.inodes[i].type # "FILE"
  <2>1. i \in Dirs(disk)
    BY <1>1, <1>6, IntactIs, DiskTypes DEF Sound, FreeIsEmpty, Types, Dirs
  <2>2. FS!Children(q) = ChildrenIn(disk, q)
    BY <1>1 DEF FS!Children, FS!Root, FS!Parent, ChildrenIn, Parent
  <2>3. Cardinality(ChildrenIn(disk, q)) = Cardinality(LiveSlotsOf(disk, i))
    BY <1>1, <2>1, ChildPerSlot
  <2>4. Cardinality(LiveSlotsOf(disk, i)) \in 0..Size(disk, i) /\ Size(disk, i) < NInodes
    BY <1>1, <2>1, LiveSlotsAre, SlotSet
  <2>5. Size(disk, i) \in FS!Cardinality(FS!Children(q))..(NInodes - 1)
    BY <1>2, <2>2, <2>3, <2>4, ApiAssumption, SameCardinality
  <2> QED  BY <1>1, <1>3, <1>4, <1>6, <2>5 DEF FS!EntrySizes
<1> QED  BY <1>5, <1>6

LEMMA StatMaps ==
  ASSUME Represented, Represented', NEW path \in Paths, ramfs_stat(path)
  PROVE  FS!Stat(path)
<1> DEFINE r == path_resolve(disk, path)
<1>1. UNCHANGED <<tree, handles>>
  BY SameMapping DEF ramfs_stat
<1>2. FS!LookupError(path) = r.err
  BY StoreIs, LookupIs
<1>3. CASE r.err # "OK"
  <2>1. ret' = r /\ r = Failure(r.err)
    BY <1>3, StoreIs, LookupIs DEF ramfs_stat
  <2> QED  BY <1>1, <1>2, <1>3, <2>1, Shared DEF FS!Stat
<1>4. CASE r.err = "OK"
  <2>1. path \in AbsolutePaths /\ Resolves(disk, path, r.n)
    BY <1>4, StoreIs, LookupIs
  <2>2. ret' = Success(0, <<EntryOf(IF path = <<>> THEN "/" ELSE Leaf(path), r.n)>>)
    BY <1>4 DEF ramfs_stat
  <2> HIDE DEF r
  <2>3. Size(disk, r.n) \in FS!EntrySizes(path) /\ tree[path].type = disk.inodes[r.n].type
    BY <2>1, ReportedSize
  <2>4. ret' = FS!Success(0, <<FS!StatEntry(IF path = FS!Root THEN "/" ELSE FS!Leaf(path),
                                            tree[path].type, Size(disk, r.n))>>)
    BY <2>2, <2>3, Shared DEF EntryOf, Size
  <2> QED  BY <1>1, <1>2, <1>4, <2>3, <2>4 DEF FS!Stat
<1> QED  BY <1>3, <1>4


(* The k-th of the first n elements of S, in ascending order. *)
Below(S, m) == {j \in S : j < m}
NthOf(S, k) == CHOOSE i \in S : Cardinality({j \in S : j < i}) = k - 1

LEMMA BelowGrows ==
  ASSUME NEW S \in SUBSET Nat, NEW m \in Nat, IsFiniteSet(Below(S, m))
  PROVE  /\ IsFiniteSet(Below(S, m + 1))
         /\ Cardinality(Below(S, m + 1)) = Cardinality(Below(S, m)) + (IF m \in S THEN 1 ELSE 0)
<1>1. \A j \in Nat : j < m + 1 <=> j < m \/ j = m
  OBVIOUS
<1>2. CASE m \in S
  <2>1. \A j : j \in S /\ j < m + 1 <=> (j \in S /\ j < m) \/ j = m
    BY <1>1, <1>2
  <2>2. Below(S, m + 1) = Below(S, m) \cup {m}
    BY <2>1, Zenon DEF Below
  <2>3. m \notin Below(S, m)
    BY DEF Below
  <2> QED  BY <1>2, <2>2, <2>3, FS_AddElement
<1>3. CASE m \notin S
  <2>1. \A j \in S : j < m + 1 <=> j < m
    BY <1>1, <1>3
  <2>2. Below(S, m + 1) = Below(S, m)
    BY <2>1, Zenon DEF Below
  <2>3. Cardinality(Below(S, m)) \in Nat
    BY FS_CardinalityType
  <2> QED  BY <1>3, <2>2, <2>3
<1> QED  BY <1>2, <1>3

LEMMA Ranked ==
  ASSUME NEW S \in SUBSET Nat, NEW n \in Nat, \A i \in S : i < n
  PROVE  \A k \in 1..Cardinality(S) :
           NthOf(S, k) \in S /\ Cardinality(Below(S, NthOf(S, k))) = k - 1
<1> DEFINE T == {m \in Nat : /\ IsFiniteSet(Below(S, m))
                             /\ \A k \in Nat : k < Cardinality(Below(S, m)) =>
                                  \E i \in S : Cardinality(Below(S, i)) = k}
<1>1. 0 \in T
  <2>1. Below(S, 0) = {}
    <3>1. \A j \in S : ~(j < 0)
      OBVIOUS
    <3> QED  BY <3>1, Zenon DEF Below
  <2>2. IsFiniteSet(Below(S, 0)) /\ Cardinality(Below(S, 0)) = 0
    BY <2>1, FS_EmptySet
  <2> QED  BY <2>2
<1>2. ASSUME NEW m \in Nat, m \in T
      PROVE  m + 1 \in T
  <2>1. IsFiniteSet(Below(S, m))
    BY <1>2
  <2>2. /\ IsFiniteSet(Below(S, m + 1))
        /\ Cardinality(Below(S, m + 1)) = Cardinality(Below(S, m)) + (IF m \in S THEN 1 ELSE 0)
    BY <2>1, BelowGrows
  <2>3. Cardinality(Below(S, m)) \in Nat
    BY <2>1, FS_CardinalityType
  <2>4. ASSUME NEW k \in Nat, k < Cardinality(Below(S, m + 1))
        PROVE  \E i \in S : Cardinality(Below(S, i)) = k
    <3>1. CASE k < Cardinality(Below(S, m))
      BY <1>2, <3>1
    <3>2. CASE ~(k < Cardinality(Below(S, m)))
      <4>1. m \in S /\ k = Cardinality(Below(S, m))
        BY <2>2, <2>3, <2>4, <3>2
      <4> QED  BY <4>1
    <3> QED  BY <3>1, <3>2
  <2> QED  BY <2>2, <2>4
<1> HIDE DEF T
<1>3. n \in T
  BY <1>1, <1>2, SetInduction
<1>4. Below(S, n) = S
  BY DEF Below
<1>5. \A k \in Nat : k < Cardinality(S) => \E i \in S : Cardinality(Below(S, i)) = k
  BY <1>3, <1>4 DEF T
<1>6. IsFiniteSet(S)
  BY <1>3, <1>4 DEF T
<1>7. Cardinality(S) \in Nat
  BY <1>6, FS_CardinalityType
<1>8. ASSUME NEW k \in 1..Cardinality(S)
      PROVE  NthOf(S, k) \in S /\ Cardinality(Below(S, NthOf(S, k))) = k - 1
  <2>1. k - 1 \in Nat /\ k - 1 < Cardinality(S)
    BY <1>7
  <2>2. \E i \in S : Cardinality({j \in S : j < i}) = k - 1
    BY <1>5, <2>1 DEF Below
  <2> QED  BY <2>2, Zenon DEF NthOf, Below
<1> QED  BY <1>8

LEMMA ListMaps ==
  ASSUME Represented, Represented', NEW path \in Paths, NEW max \in ListMaxes, ramfs_list(path, max)
  PROVE  FS!List(path, max)
<1> DEFINE r == path_resolve(disk, path)
           dir == r.n
<1>1. UNCHANGED <<tree, handles>>
  BY SameMapping DEF ramfs_list
<1>2. FS!LookupError(path) = r.err
  BY StoreIs, LookupIs
<1>3. CASE r.err # "OK"
  <2>1. ret' = r /\ r = Failure(r.err)
    BY <1>3, StoreIs, LookupIs DEF ramfs_list
  <2> QED  BY <1>1, <1>2, <1>3, <2>1, Shared DEF FS!List
<1>4. CASE r.err = "OK"
  <2>1. path \in AbsolutePaths /\ Resolves(disk, path, dir) /\ dir \in disk.inode_bitmap
    BY <1>4, StoreIs, LookupIs
  <2>2. tree[path].type = disk.inodes[dir].type
    BY <2>1, ReportedSize
  <2>3. CASE disk.inodes[dir].type # "DIR"
    <3>1. ret' = Failure("NOT_DIR")
      BY <1>4, <2>3 DEF ramfs_list
    <3> QED  BY <1>1, <1>2, <1>4, <2>2, <2>3, <3>1, Shared DEF FS!List
  <2>4. CASE disk.inodes[dir].type = "DIR"
    <3> DEFINE S == {i \in Slots(disk, dir) : /\ IsDirent(CellAt(disk, dir, i))
                                              /\ CellAt(disk, dir, i).inode \in disk.inode_bitmap}
               n == Smaller(max, Cardinality(S))
               cell(k) == CellAt(disk, dir, NthOf(S, k))
               order == [k \in 1..n |-> ChildAt(disk, dir, NthOf(S, k))]
               size == [k \in 1..n |-> Size(disk, cell(k).inode)]
    <3>1. dir \in Dirs(disk) /\ Intact(disk)
      BY <2>1, <2>4, StoreIs DEF Dirs
    <3>2. ret' = Success(n, [k \in 1..n |-> EntryOf(cell(k).name, cell(k).inode)])
      <4>1. ~Unreadable(disk, dir)
        BY <3>1, SlotSet
      <4> QED  BY <1>4, <2>4, <4>1 DEF ramfs_list, NthOf
    <3> HIDE DEF S
    <3>0. S = LiveSlotsOf(disk, dir)
      BY <3>1, SlotSet DEF S
    <3>3. /\ \A i \in S : LET q == ChildAt(disk, dir, i)
                              c == CellAt(disk, dir, i) IN
                          q \in ChildrenIn(disk, path) /\ Leaf(q) = c.name /\ Resolves(disk, q, c.inode)
          /\ \A i, j \in S : ChildAt(disk, dir, i) = ChildAt(disk, dir, j) => i = j
          /\ Cardinality(ChildrenIn(disk, path)) = Cardinality(S)
      BY <2>1, <3>0, <3>1, ChildPerSlot
    <3>4. \A k \in 1..Cardinality(S) : NthOf(S, k) \in S /\ Cardinality(Below(S, NthOf(S, k))) = k - 1
      <4>1. Size(disk, dir) \in Nat /\ S \subseteq 0..(Size(disk, dir) - 1)
        BY <3>0, <3>1, SlotSet
      <4>2. S \in SUBSET Nat /\ \A i \in S : i < Size(disk, dir)
        BY <4>1
      <4> QED  BY <4>1, <4>2, Ranked
    <3>5. Cardinality(S) \in Nat /\ max \in Nat
      BY <3>0, <3>1, LiveSlotsAre, FS_CardinalityType, ApiAssumption
    <3>6. n \in Nat /\ n <= Cardinality(S)
      BY <3>5 DEF Smaller
    <3>7. FS!Children(path) = ChildrenIn(disk, path)
      BY StoreIs, TreeIs DEF FS!Children, FS!Root, FS!Parent, ChildrenIn, Parent
    <3>8. n = FS!Smaller(max, FS!Cardinality(FS!Children(path)))
      BY <3>3, <3>7, Shared, SameCardinality
    <3> HIDE DEF n
    <3>9. ASSUME NEW k \in 1..n
          PROVE  /\ NthOf(S, k) \in S /\ k \in 1..Cardinality(S)
                 /\ order[k] \in FS!Children(path) /\ Leaf(order[k]) = cell(k).name
                 /\ order[k] \in AbsolutePaths /\ Resolves(disk, order[k], cell(k).inode)
      <4>1. k \in 1..Cardinality(S)
        BY <3>5, <3>6
      <4>2. NthOf(S, k) \in S /\ order[k] = ChildAt(disk, dir, NthOf(S, k))
        BY <3>4, <4>1
      <4>3. order[k] \in ChildrenIn(disk, path) /\ Leaf(order[k]) = cell(k).name
            /\ Resolves(disk, order[k], cell(k).inode)
        BY <3>3, <4>2
      <4>4. order[k] \in AbsolutePaths
        BY <3>1, <4>3, TreeIs DEF ChildrenIn
      <4> QED  BY <3>7, <4>1, <4>2, <4>3, <4>4
    <3>10. ASSUME NEW k \in 1..n, NEW l \in 1..n, order[k] = order[l]
           PROVE  k = l
      <4>1. /\ k \in 1..Cardinality(S) /\ l \in 1..Cardinality(S)
            /\ NthOf(S, k) \in S /\ NthOf(S, l) \in S
        BY <3>9
      <4>2. ChildAt(disk, dir, NthOf(S, k)) = ChildAt(disk, dir, NthOf(S, l))
        BY <3>10
      <4>3. NthOf(S, k) = NthOf(S, l)
        BY <3>3, <4>1, <4>2
      <4>4. k - 1 = l - 1
        BY <3>4, <4>1, <4>3
      <4> QED  BY <3>6, <4>4
    <3>11. ASSUME NEW k \in 1..n
           PROVE  /\ size[k] \in FS!EntrySizes(order[k]) /\ size[k] \in 0..(NBlocks * BlockSize)
                  /\ EntryOf(cell(k).name, cell(k).inode) =
                       FS!StatEntry(FS!Leaf(order[k]), tree[order[k]].type, size[k])
      <4>1. size[k] = Size(disk, cell(k).inode)
        OBVIOUS
      <4> HIDE DEF size, order, cell
      <4>2. /\ Size(disk, cell(k).inode) \in FS!EntrySizes(order[k])
            /\ Size(disk, cell(k).inode) \in 0..(NBlocks * BlockSize)
            /\ tree[order[k]].type = disk.inodes[cell(k).inode].type
        BY <3>9, ReportedSize
      <4>3. FS!Leaf(order[k]) = cell(k).name
        BY <3>9, Shared
      <4> QED  BY <4>1, <4>2, <4>3, Shared DEF EntryOf, Size
    <3>12. order \in [1..n -> FS!Children(path)]
      BY <3>9
    <3>13. size \in [1..n -> 0..(NBlocks * BlockSize)]
      BY <3>11
    <3>14. ret' = FS!Success(n, [k \in 1..n |->
                    FS!StatEntry(FS!Leaf(order[k]), tree[order[k]].type, size[k])])
      <4>1. [k \in 1..n |-> EntryOf(cell(k).name, cell(k).inode)] =
              [k \in 1..n |-> FS!StatEntry(FS!Leaf(order[k]), tree[order[k]].type, size[k])]
        BY <3>11
      <4> QED  BY <3>2, <4>1, Shared
    <3> HIDE DEF order, size, cell
    <3>15. \E o \in [1..n -> FS!Children(path)] :
             /\ \A i, j \in 1..n : o[i] = o[j] => i = j
             /\ \E z \in [1..n -> 0..(NBlocks * BlockSize)] :
                  /\ \A i \in 1..n : z[i] \in FS!EntrySizes(o[i])
                  /\ ret' = FS!Success(n, [i \in 1..n |->
                       FS!StatEntry(FS!Leaf(o[i]), tree[o[i]].type, z[i])])
      <4>1. \A k \in 1..n : size[k] \in FS!EntrySizes(order[k])
        BY <3>11
      <4>2. \A k, l \in 1..n : order[k] = order[l] => k = l
        BY <3>10
      <4> QED  BY <3>12, <3>13, <3>14, <4>1, <4>2, Zenon
    <3>16. FS!LookupError(path) = "OK" /\ tree[path].type = "DIR"
      BY <1>2, <1>4, <2>2, <2>4
    <3> HIDE DEF r
    <3> QED  BY <1>1, <3>8, <3>15, <3>16, Zenon DEF FS!List
  <2> QED  BY <2>3, <2>4
<1> QED  BY <1>3, <1>4


(***************************************************************************)
(* mkdir, create and the file open creates                                 *)
(***************************************************************************)
(* The inodes run out when the tree has one node each. *)
LEMMA NodeCount ==
  ASSUME NEW d, Intact(d)
  PROVE  Cardinality(Resolved(d)) = NInodes <=> NoInodes(d)
<1> DEFINE S == d.inode_bitmap
           T == Resolved(d)
           f == [i \in S |-> PathOf(d, i)]
<1>1. \A i \in S : PathOf(d, i) \in AbsolutePaths /\ Resolves(d, PathOf(d, i), i) /\ PathOf(d, i) \in T
  BY TreeIs, Looked
<1>2. \A i, j \in S : PathOf(d, i) = PathOf(d, j) => i = j
  BY <1>1, Looked DEF Success
<1>3. \A p \in T : \E i \in S : PathOf(d, i) = p
  <2>1. ASSUME NEW p \in T
        PROVE  \E i \in S : PathOf(d, i) = p
    <3>1. p \in AbsolutePaths
      BY TreeIs
    <3>2. PICK i \in S : Resolves(d, p, i)
      BY <3>1, Looked
    <3> QED  BY <1>1, <3>1, <3>2, OnePath
  <2> QED  BY <2>1
<1>4. IsFiniteSet(Inodes) /\ Cardinality(Inodes) = NInodes
  <2>1. 0 \in Int /\ NInodes - 1 \in Int
    BY ApiAssumption
  <2>2. IsFiniteSet(0..(NInodes - 1)) /\ Cardinality(0..(NInodes - 1)) = IF 0 > NInodes - 1 THEN 0 ELSE NInodes - 1 - 0 + 1
    BY <2>1, FS_Interval
  <2> QED  BY <2>2, ApiAssumption DEF Inodes
<1>5. S \in SUBSET Inodes
  BY IntactIs
<1>6. IsFiniteSet(S) /\ Cardinality(S) <= NInodes /\ (Cardinality(S) = NInodes => S = Inodes)
  BY <1>4, <1>5, FS_Subset
<1>7. S = Inodes <=> NoInodes(d)
  BY DEF NoInodes
<1> HIDE DEF S, T
<1>8. f \in Bijection(S, T)
  BY <1>1, <1>2, <1>3 DEF Bijection, Injection, Surjection, IsInjective
<1>9. ExistsBijection(S, T)
  BY <1>8, Zenon DEF ExistsBijection
<1>10. Cardinality(T) = Cardinality(S)
  BY <1>6, <1>9, FS_Bijection
<1> QED  BY <1>4, <1>6, <1>7, <1>10 DEF T

(* The name is in the parent's directory if the path resolves. *)
LEMMA LeafIs ==
  ASSUME NEW d, Intact(d), NEW path \in AbsolutePaths, path # <<>>, Leaf(path) \notin LongNames,
         NEW p \in Inodes, Resolves(d, Parent(path), p)
  PROVE  /\ dir_find(d, p, Leaf(path)).err = "OK" <=> path \in Resolved(d)
         /\ dir_find(d, p, Leaf(path)).err = "OK" =>
              /\ Resolves(d, path, dir_find(d, p, Leaf(path)).n)
              /\ dir_find(d, p, Leaf(path)) = Success(dir_find(d, p, Leaf(path)).n, <<>>)
              /\ Entry(d, p, Leaf(path), dir_find(d, p, Leaf(path)).n)
<1> DEFINE r == dir_find(d, p, Leaf(path))
<1>1. ASSUME r.err = "OK"
      PROVE  Entry(d, p, Leaf(path), r.n) /\ Resolves(d, path, r.n) /\ r = Success(r.n, <<>>)
  <2>1. PICK s \in Nat : /\ Live(d, p, s) /\ CellAt(d, p, s).name = Leaf(path)
                         /\ CellAt(d, p, s).inode = r.n
    BY <1>1, Found
  <2>2. r.n \in Inodes /\ r = Success(CellAt(d, p, s).inode, <<>>)
    BY <1>1, <2>1, Found, IntactIs, DirFind
  <2> HIDE DEF r
  <2>3. CellAt(d, p, s) \in Dirents
    BY <2>1, IntactIs DEF Linked, Live
  <2>4. CellAt(d, p, s) = Dirent(Leaf(path), r.n)
    BY <2>1, <2>3 DEF Dirents, Dirent
  <2>5. Entry(d, p, Leaf(path), r.n)
    BY <2>1, <2>4 DEF Entry
  <2> QED  BY <2>1, <2>2, <2>5, ResolvesLeaf
<1>2. ASSUME path \in Resolved(d)
      PROVE  r.err = "OK"
  <2>1. PICK i \in d.inode_bitmap : Resolves(d, path, i)
    BY <1>2, Looked
  <2>2. PICK a \in Inodes : Resolves(d, Parent(path), a) /\ Entry(d, a, Leaf(path), i)
    BY <2>1, LastStep
  <2>3. a = p
    BY <2>2, ParentTypes, Looked DEF Success
  <2>4. PICK s \in Nat : Live(d, p, s) /\ CellAt(d, p, s) = Dirent(Leaf(path), i)
    BY <2>2, <2>3 DEF Entry
  <2>5. CellAt(d, p, s).name = Leaf(path)
    BY <2>4 DEF Dirent
  <2>6. r = Success(CellAt(d, p, s).inode, <<>>)
    BY <2>4, <2>5, IntactIs, DirFind
  <2> QED  BY <2>6 DEF Success
<1>3. r.err = "OK" => path \in Resolved(d)
  BY <1>1, Looked
<1> QED  BY <1>1, <1>2, <1>3

LEMMA NoNameThere ==
  ASSUME NEW d, Intact(d), NEW p, NEW name, dir_find(d, p, name).err # "OK"
  PROVE  \A i \in Nat : Live(d, p, i) => CellAt(d, p, i).name # name
BY IntactIs, DirFind DEF Success

(* AddEntry fails for the reason FileSystem gives, or for want of a block. *)
LEMMA AddIs ==
  ASSUME Represented, NEW path \in Paths, NEW type \in {"FILE", "DIR"},
         NEW a, a = AddEntry(disk, path, type)
  PROVE  IF FS!AddError(path) = "OK" THEN a.err \in {"OK", "NO_SPACE"} ELSE a.err = FS!AddError(path)
<1> DEFINE d == disk
           parent == path_resolve_parent(d, path)
           p == parent.n
           add == dir_add(inode_alloc(d, type), p, Leaf(path), NextInode(d))
           add_undone == IF add.err = "OK" THEN add ELSE Outcome(inode_free(add.disk, NextInode(d)), add.err)
<1>1. /\ a = IF parent.err # "OK" THEN Outcome(d, parent.err)
             ELSE IF dir_find(d, p, Leaf(path)).err = "OK" THEN Outcome(d, "EXISTS")
             ELSE IF NoInodes(d) THEN Outcome(d, "NO_INODES")
             ELSE add_undone
      /\ add_undone.err = add.err
  BY DEF AddEntry, Outcome
<1>2. Intact(d) /\ tree = TreeOf(d) /\ DOMAIN tree = Resolved(d)
  BY StoreIs, TreeIs
<1> HIDE DEF add_undone, add, d
<1>3. CASE SplitError(path) # "OK"
  <2>1. parent = Failure(SplitError(path))
    BY <1>3 DEF path_resolve_parent
  <2> QED  BY <1>1, <1>3, <2>1, Shared DEF Failure, Outcome, FS!AddError
<1>4. CASE SplitError(path) = "OK"
  <2>1. path \in AbsolutePaths /\ path # <<>> /\ Leaf(path) \notin LongNames
    BY <1>4 DEF SplitError, Paths
  <2>2. Parent(path) \in AbsolutePaths /\ Parent(path) \in Paths /\ Leaf(path) \in Names
    BY <2>1, ParentTypes DEF Paths
  <2>3. parent = path_resolve(d, Parent(path))
    BY <1>4 DEF path_resolve_parent
  <2>4. /\ FS!LookupError(Parent(path)) = parent.err
        /\ parent.err = "OK" => /\ Resolves(d, Parent(path), p) /\ p \in d.inode_bitmap
                                /\ tree[Parent(path)] = NodeAt(d, p)
    BY <2>2, <2>3, StoreIs, LookupIs DEF d
  <2> HIDE DEF parent
  <2>5. FS!AddError(path) = IF parent.err # "OK" THEN parent.err
                            ELSE IF path \in DOMAIN tree THEN "EXISTS"
                            ELSE IF Cardinality(DOMAIN tree) = NInodes THEN "NO_INODES"
                            ELSE IF tree[Parent(path)].type # "DIR" THEN "NOT_DIR" ELSE "OK"
    BY <1>4, <2>4, Shared, SameCardinality DEF FS!AddError
  <2>6. CASE parent.err # "OK"
    BY <1>1, <2>5, <2>6 DEF Outcome
  <2>7. CASE parent.err = "OK"
    <3>1. p \in Inodes /\ Resolves(d, Parent(path), p) /\ p \in d.inode_bitmap
      BY <1>2, <2>4, <2>7, IntactIs
    <3> HIDE DEF p
    <3>2. dir_find(d, p, Leaf(path)).err = "OK" <=> path \in DOMAIN tree
      BY <1>2, <2>1, <3>1, LeafIs
    <3>3. Cardinality(DOMAIN tree) = NInodes <=> NoInodes(d)
      BY <1>2, NodeCount
    <3>4. tree[Parent(path)].type = d.inodes[p].type
      BY <2>4, <2>7 DEF NodeAt, p
    <3>5. CASE path \in DOMAIN tree
      BY <1>1, <2>5, <2>7, <3>2, <3>5 DEF Outcome
    <3>6. CASE path \notin DOMAIN tree /\ NoInodes(d)
      BY <1>1, <2>5, <2>7, <3>2, <3>3, <3>6 DEF Outcome
    <3>7. CASE path \notin DOMAIN tree /\ ~NoInodes(d)
      <4>1. a.err = add.err
        BY <1>1, <2>7, <3>2, <3>7
      <4>2. \A i \in Nat : Live(d, p, i) => CellAt(d, p, i).name # Leaf(path)
        BY <1>2, <3>2, <3>7, NoNameThere
      <4>3. CASE d.inodes[p].type # "DIR"
        <5>1. p \notin Dirs(d)
          BY <4>3 DEF Dirs
        <5>2. add.err = "NOT_DIR"
          BY <1>2, <2>1, <2>2, <3>1, <3>7, <4>2, <5>1, EntryUndone DEF add
        <5>3. FS!AddError(path) = "NOT_DIR"
          BY <2>5, <2>7, <3>3, <3>4, <3>7, <4>3
        <5> QED  BY <4>1, <5>2, <5>3
      <4>4. CASE d.inodes[p].type = "DIR"
        <5>1. p \in Dirs(d)
          BY <3>1, <4>4 DEF Dirs
        <5>2. add.err \in {"OK", "NO_SPACE"}
          BY <1>2, <2>1, <3>1, <3>7, <4>2, <5>1, EntryAdded DEF add
        <5>3. FS!AddError(path) = "OK"
          BY <2>5, <2>7, <3>3, <3>4, <3>7, <4>4
        <5> QED  BY <4>1, <5>2, <5>3
      <4> QED  BY <4>3, <4>4
    <3> QED  BY <3>5, <3>6, <3>7
  <2> QED  BY <2>6, <2>7
<1> QED  BY <1>3, <1>4


LEMMA AddedMaps ==
  ASSUME Represented, NEW path \in Paths, NEW type \in {"FILE", "DIR"},
         NEW e, e = AddEntry(disk, path, type).disk, AddEntry(disk, path, type).err = "OK"
  PROVE  /\ Intact(e) /\ Readables(e) /\ FdsGood(fds, e) /\ FilesKept(disk, e)
         /\ path \in AbsolutePaths /\ path \in Resolved(e)
         /\ TreeOf(e) = FS!Grown(path, type) /\ HandlesOf(e, fds) = handles
<1> DEFINE a == AddEntry(disk, path, type)
<1>1. /\ Intact(disk) /\ Readables(disk) /\ FdsGood(fds, disk)
      /\ tree = TreeOf(disk) /\ handles = HandlesOf(disk, fds) /\ DOMAIN tree = Resolved(disk)
  BY StoreIs, TreeIs
<1>2. /\ Intact(e) /\ FilesKept(disk, e) /\ path \in AbsolutePaths /\ PathsKept(disk, e)
      /\ \E n \in Inodes \ disk.inode_bitmap :
           /\ e.inode_bitmap = disk.inode_bitmap \cup {n} /\ Resolves(e, path, n)
           /\ e.inodes[n].type = type /\ Size(e, n) = 0
  BY <1>1, AddEntryKeeps
<1>3. PICK n \in Inodes \ disk.inode_bitmap :
        /\ e.inode_bitmap = disk.inode_bitmap \cup {n} /\ Resolves(e, path, n)
        /\ e.inodes[n].type = type /\ Size(e, n) = 0
  BY <1>2
<1>4. /\ TreeOf(e) = Plus(TreeOf(disk), path, [type |-> e.inodes[n].type, data |-> <<>>])
      /\ HandlesOf(e, fds) = HandlesOf(disk, fds)
  BY <1>1, <1>2, <1>3, AddedTree
<1>5. TreeOf(e) = FS!Grown(path, type)
  BY <1>1, <1>3, <1>4 DEF FS!Grown, FS!Node, Plus
<1>6. Readables(e)
  <2>1. ASSUME NEW i \in e.inode_bitmap
        PROVE  Size(e, i) <= Backed(e, i)
    <3>0. i \in Inodes /\ Size(e, i) \in Nat /\ Backed(e, i) \in Nat
      BY <1>2, IntactIs
    <3>1. CASE i = n
      BY <1>3, <3>0, <3>1
    <3>2. CASE i # n /\ e.inodes[i].type = "DIR"
      BY <1>2, <3>2, IntactIs DEF Readable, Dirs
    <3>3. CASE i # n /\ e.inodes[i].type # "DIR"
      <4>1. i \in disk.inode_bitmap
        BY <1>3, <3>3
      <4>2. e.inodes[i].type = "FILE" /\ disk.inodes[i].type = "FILE"
        <5>1. e.inodes[i].type \in Types /\ e.inodes[i].type # "FREE"
          BY <1>2, <3>0, IntactIs, DiskTypes DEF Sound, FreeIsEmpty
        <5> QED  BY <1>2, <3>3, <4>1, <5>1 DEF Types, FilesKept
      <4>3. SameInode(disk, e, i)
        BY <1>2, <4>1, <4>2 DEF FilesKept
      <4>4. Size(disk, i) <= Backed(disk, i) /\ Size(disk, i) \in Nat /\ Backed(disk, i) \in Nat
        BY <1>1, <3>0, <4>1, IntactIs DEF Readables
      <4> QED  BY <3>0, <4>3, <4>4 DEF SameInode
    <3> QED  BY <3>1, <3>2, <3>3
  <2> QED  BY <2>1 DEF Readables
<1>7. FdsGood(fds, e)
  <2>1. \A i \in disk.inode_bitmap : i \in e.inode_bitmap /\ e.inodes[i].type = disk.inodes[i].type
    BY <1>2 DEF FilesKept
  <2> QED  BY <1>1, <2>1, KeptOpen DEF FdsGood
<1> QED  BY <1>1, <1>2, <1>3, <1>4, <1>5, <1>6, <1>7, Looked

LEMMA AddMaps ==
  ASSUME Represented, Represented', NEW path \in Paths, NEW type \in {"FILE", "DIR"},
         Return(AddEntry(disk, path, type))
  PROVE  FS!Add(path, type)
<1> DEFINE a == AddEntry(disk, path, type)
<1>1. disk' = a.disk /\ ret' = Failure(a.err) /\ fds' = fds
  BY DEF Return
<1>2. IF FS!AddError(path) = "OK" THEN a.err \in {"OK", "NO_SPACE"} ELSE a.err = FS!AddError(path)
  BY AddIs
<1>3. CASE a.err # "OK"
  <2>1. Same(disk, disk')
    BY <1>1, <1>3, StoreIs, AddEntryKeeps
  <2> HIDE DEF a
  <2>2. UNCHANGED <<tree, handles>>
    BY <1>1, <2>1, SameMapping
  <2>3. \/ FS!AddError(path) # "OK" /\ a.err = FS!AddError(path)
        \/ FS!AddError(path) = "OK" /\ a.err = "NO_SPACE"
    BY <1>2, <1>3
  <2> QED  BY <1>1, <2>2, <2>3, Shared DEF FS!Add
<1>4. CASE a.err = "OK"
  <2>1. TreeOf(a.disk) = FS!Grown(path, type) /\ HandlesOf(a.disk, fds) = handles
    BY <1>4, AddedMaps
  <2> HIDE DEF a
  <2>2. tree' = FS!Grown(path, type) /\ handles' = handles
    BY <1>1, <2>1 DEF Represented, Mapped
  <2>3. FS!AddError(path) = "OK"
    BY <1>2, <1>4
  <2>4. ret' = FS!Done
    BY <1>1, <1>4, Shared DEF Failure, Done, Success
  <2> QED  BY <2>2, <2>3, <2>4 DEF FS!Add
<1> QED  BY <1>3, <1>4

(***************************************************************************)
(* open                                                                    *)
(***************************************************************************)
LEMMA SameFreeFds ==
  ASSUME Represented
  PROVE  FS!FreeFds = FreeFds /\ (FreeFds # {} => fd_alloc \in Fds)
<1>1. handles = HandlesOf(disk, fds)
  BY StoreIs
<1>2. \A fd \in Fds : handles[fd].open = fds[fd].in_use
  BY <1>1 DEF HandlesOf
<1>3. FS!FreeFds = FreeFds
  BY <1>2, Shared DEF FS!FreeFds, FreeFds
<1>4. FreeFds \in SUBSET Nat /\ FreeFds \subseteq Fds
  <2>1. Fds \subseteq Nat
    BY ApiAssumption DEF Fds
  <2> QED  BY <2>1 DEF FreeFds
<1>5. FreeFds # {} => fd_alloc \in FreeFds
  BY <1>4, MinIsThere DEF fd_alloc
<1> QED  BY <1>3, <1>4, <1>5

(* A file of size 0 after TRUNC, the others as they were. *)
LEMMA TruncatedTree ==
  ASSUME NEW d, Intact(d), Readables(d), NEW f, FdsGood(f, d),
         NEW path \in AbsolutePaths, NEW ino, Resolves(d, path, ino), d.inodes[ino].type = "FILE",
         NEW e, e = chain_truncate(d, ino)
  PROVE  /\ Intact(e) /\ Resolves(e, path, ino) /\ HandlesOf(e, f) = HandlesOf(d, f)
         /\ TreeOf(e) = [TreeOf(d) EXCEPT ![path] = FS!Node("FILE")] /\ e.inodes[ino].size = 0
<1>1. ino \in d.inode_bitmap /\ ino \in Inodes
  BY Looked
<1>2. /\ Intact(e) /\ e.inode_bitmap = d.inode_bitmap
      /\ \A i \in d.inode_bitmap : e.inodes[i].type = d.inodes[i].type
  BY <1>1, FileTruncated
<1>3. Sound(e) /\ Dropped(d, e, ino) /\ e.inodes[ino].size = 0
  BY <1>1, IntactIs, TruncateKeeps
<1>4. \A i \in Inodes \ {ino} : Untouched(d, e, i)
  BY <1>1, <1>2, <1>3, IntactIs, DroppedCells
<1>5. ASSUME NEW i \in d.inode_bitmap \ {ino}
      PROVE  SameInode(d, e, i)
  <2>1. i \in Inodes /\ Backed(d, i) \in Nat
    BY IntactIs
  <2>2. Untouched(d, e, i)
    BY <1>4, <2>1
  <2> QED  BY <2>1, <2>2 DEF Untouched, SameInode
<1>6. SameDirs(d, e)
  BY <1>2, <1>5 DEF SameDirs, Dirs
<1>7. /\ TreeOf(e) = [TreeOf(d) EXCEPT ![path] = NodeAt(e, ino)]
      /\ HandlesOf(e, f) = HandlesOf(d, f) /\ PathsKept(d, e)
  BY <1>2, <1>5, <1>6, FileTree
<1>8. NodeAt(e, ino) = FS!Node("FILE")
  <2>1. e.inodes[ino].type = "FILE"
    BY <1>1, <1>2
  <2>2. Content(e, ino) = <<>>
    BY <1>3 DEF Content
  <2> QED  BY <2>1, <2>2 DEF NodeAt, FS!Node
<1> QED  BY <1>1, <1>2, <1>3, <1>7, <1>8 DEF PathsKept

LEMMA OpenTargetMaps ==
  ASSUME Represented, Represented', NEW d, Intact(d), Readables(d), FdsGood(fds, d),
         HandlesOf(d, fds) = handles, NEW t, t = TreeOf(d),
         NEW path \in AbsolutePaths, NEW target, Resolves(d, path, target),
         NEW flags \in FlagSets, OpenTarget(d, target, flags)
  PROVE  FS!Attach(t, path, flags)
<1> DEFINE e == IF "TRUNC" \in flags THEN chain_truncate(d, target) ELSE d
           node == IF "TRUNC" \in flags THEN FS!Node("FILE") ELSE t[path]
           handle == [open |-> TRUE, path |-> path, flags |-> flags,
                      offset |-> IF "APPEND" \in flags THEN Len(node.data) ELSE 0]
           r == [in_use |-> TRUE, inode |-> target, flags |-> flags,
                 offset |-> IF "APPEND" \in flags THEN e.inodes[target].size ELSE 0]
<1>1. /\ tree' = TreeOf(disk') /\ handles' = HandlesOf(disk', fds') /\ fds \in [Fds -> FdRecords]
      /\ target \in d.inode_bitmap /\ target \in Inodes /\ t[path] = NodeAt(d, target)
      /\ FS!FreeFds = FreeFds
  BY StoreIs, Looked, TreeIs, SameFreeFds DEF Represented, Mapped
<1>2. t[path].type = d.inodes[target].type /\ t[path].data = Content(d, target)
  BY <1>1 DEF NodeAt
<1>3. CASE d.inodes[target].type = "DIR"
  <2>1. disk' = d /\ UNCHANGED fds /\ ret' = Failure("IS_DIR")
    BY <1>3 DEF OpenTarget
  <2> QED  BY <1>1, <1>2, <1>3, <2>1, Shared DEF FS!Attach
<1>4. CASE d.inodes[target].type # "DIR" /\ FreeFds = {}
  <2>1. disk' = d /\ UNCHANGED fds /\ ret' = Failure("NO_FDS")
    BY <1>4 DEF OpenTarget
  <2> QED  BY <1>1, <1>2, <1>4, <2>1, Shared DEF FS!Attach
<1>5. CASE d.inodes[target].type # "DIR" /\ FreeFds # {}
  <2>1. disk' = e /\ fds' = [fds EXCEPT ![fd_alloc] = r] /\ ret' = Success(fd_alloc, <<>>)
    BY <1>5 DEF OpenTarget
  <2>2. fd_alloc \in Fds /\ fd_alloc = FS!MinOf(FS!FreeFds)
    BY <1>1, <1>5, SameFreeFds, Shared DEF fd_alloc
  <2>3. d.inodes[target].type = "FILE"
    <3>1. d.inodes[target].type \in Types /\ d.inodes[target].type # "FREE"
      BY <1>1, IntactIs, DiskTypes DEF Sound, FreeIsEmpty
    <3> QED  BY <1>5, <3>1 DEF Types
  <2>4. /\ Intact(e) /\ Resolves(e, path, target) /\ HandlesOf(e, fds) = handles
        /\ TreeOf(e) = [t EXCEPT ![path] = node] /\ e.inodes[target].size = Len(node.data)
    <3>1. CASE "TRUNC" \in flags
      <4>1. e = chain_truncate(d, target) /\ node = FS!Node("FILE")
        BY <3>1
      <4> HIDE DEF e, node
      <4>2. /\ Intact(e) /\ Resolves(e, path, target) /\ HandlesOf(e, fds) = HandlesOf(d, fds)
            /\ TreeOf(e) = [TreeOf(d) EXCEPT ![path] = FS!Node("FILE")] /\ e.inodes[target].size = 0
        BY <2>3, <4>1, TruncatedTree
      <4>3. Len(node.data) = 0
        BY <4>1 DEF FS!Node
      <4> QED  BY <4>1, <4>2, <4>3
    <3>2. CASE "TRUNC" \notin flags
      <4>1. e = d /\ node = t[path]
        BY <3>2
      <4> HIDE DEF e, node
      <4>2. [t EXCEPT ![path] = t[path]] = t
        BY DEF TreeOf
      <4>3. Len(Content(d, target)) = Size(d, target)
        BY <1>1, <2>3, ContentIs DEF Readables
      <4> QED  BY <1>2, <4>1, <4>2, <4>3 DEF Size
    <3> QED  BY <3>1, <3>2
  <2> HIDE DEF e, node
  <2>5. HandleOf(e, r) = handle
    <3>1. PathOf(e, target) = path
      <4>1. target \in e.inode_bitmap
        BY <2>4, Looked
      <4> QED  BY <2>4, <4>1, TreeIs, OnePath
    <3> QED  BY <2>4, <3>1 DEF HandleOf
  <2> HIDE DEF r, handle
  <2>6. HandlesOf(e, Put(fds, fd_alloc, r)) = Put(HandlesOf(e, fds), fd_alloc, HandleOf(e, r))
    BY <1>1, <2>2, HandleReplaced
  <2>7. handles' = [handles EXCEPT ![fd_alloc] = handle]
    BY <1>1, <2>1, <2>4, <2>5, <2>6, Zenon DEF Put
  <2>8. tree' = [t EXCEPT ![path] = node]
    BY <1>1, <2>1, <2>4
  <2>9. FS!FreeFds # {} /\ t[path].type # "DIR" /\ ret' = FS!Success(fd_alloc, <<>>)
    BY <1>1, <1>2, <1>5, <2>1, Shared
  <2> QED  BY <2>2, <2>7, <2>8, <2>9, Zenon DEF FS!Attach, handle, node
<1> QED  BY <1>3, <1>4, <1>5

LEMMA OpenMaps ==
  ASSUME Represented, Represented', NEW path \in Paths, NEW flags \in FlagSets, ramfs_open(path, flags)
  PROVE  FS!Open(path, flags)
<1> DEFINE r == path_resolve(disk, path)
           made == AddEntry(disk, path, "FILE")
           again == path_resolve(made.disk, path)
<1>1. FS!LookupError(path) = r.err
  BY StoreIs, LookupIs
<1>2. CASE r.err = "OK"
  <2>1. OpenTarget(disk, r.n, flags)
    BY <1>2 DEF ramfs_open
  <2>2. path \in AbsolutePaths /\ Resolves(disk, path, r.n)
    BY <1>2, StoreIs, LookupIs
  <2> HIDE DEF r
  <2>3. FS!Attach(tree, path, flags)
    BY <2>1, <2>2, StoreIs, OpenTargetMaps
  <2> QED  BY <1>1, <1>2, <2>3 DEF FS!Open
<1>3. CASE r.err # "OK" /\ ~(r.err = "NOT_FOUND" /\ "CREATE" \in flags)
  <2>1. Return(Outcome(disk, r.err))
    BY <1>3 DEF ramfs_open
  <2> HIDE DEF r
  <2>2. UNCHANGED <<disk, fds>> /\ ret' = Failure(r.err)
    BY <2>1 DEF Return, Outcome
  <2>3. UNCHANGED <<tree, handles>>
    BY <2>2, SameMapping
  <2> QED  BY <1>1, <1>3, <2>2, <2>3, Shared DEF FS!Open
<1>4. CASE r.err = "NOT_FOUND" /\ "CREATE" \in flags
  <2>1. IF made.err # "OK" THEN Return(made)
        ELSE IF again.err # "OK" THEN Return(Outcome(made.disk, again.err))
        ELSE OpenTarget(made.disk, again.n, flags)
    BY <1>4 DEF ramfs_open
  <2>2. IF FS!AddError(path) = "OK" THEN made.err \in {"OK", "NO_SPACE"} ELSE made.err = FS!AddError(path)
    BY AddIs
  <2>3. FS!LookupError(path) = "NOT_FOUND" /\ "CREATE" \in flags
    BY <1>1, <1>4
  <2>4. CASE made.err # "OK"
    <3>1. disk' = made.disk /\ ret' = Failure(made.err) /\ UNCHANGED fds
      BY <2>1, <2>4 DEF Return
    <3>2. Same(disk, disk')
      BY <2>4, <3>1, StoreIs, AddEntryKeeps
    <3> HIDE DEF made
    <3>3. UNCHANGED <<tree, handles>>
      BY <3>1, <3>2, SameMapping
    <3>4. made.err = IF FS!AddError(path) = "OK" THEN "NO_SPACE" ELSE FS!AddError(path)
      BY <2>2, <2>4
    <3> QED  BY <2>3, <3>1, <3>3, <3>4, Shared DEF FS!Open
  <2>5. CASE made.err = "OK"
    <3> DEFINE e == made.disk
    <3>1. /\ Intact(e) /\ Readables(e) /\ FdsGood(fds, e) /\ path \in AbsolutePaths /\ path \in Resolved(e)
          /\ TreeOf(e) = FS!Grown(path, "FILE") /\ HandlesOf(e, fds) = handles
      BY <2>5, AddedMaps
    <3> HIDE DEF e
    <3>2. again.err = "OK" /\ Resolves(e, path, again.n)
      BY <3>1, Looked DEF Resolved, e
    <3>3. OpenTarget(e, again.n, flags)
      BY <2>1, <2>5, <3>2 DEF e
    <3> HIDE DEF again
    <3>4. FS!Attach(FS!Grown(path, "FILE"), path, flags)
      BY <3>1, <3>2, <3>3, OpenTargetMaps
    <3>5. FS!AddError(path) = "OK"
      BY <2>2, <2>5
    <3> QED  BY <2>3, <3>4, <3>5 DEF FS!Open
  <2> QED  BY <2>4, <2>5
<1> QED  BY <1>2, <1>3, <1>4


(***************************************************************************)
(* rmdir and unlink                                                        *)
(***************************************************************************)
(* The last step of path_resolve is the search its callers make for the
   leaf in the parent. *)
LEMMA LastLookup ==
  ASSUME NEW d, Intact(d), NEW path \in AbsolutePaths, path # <<>>, Leaf(path) \notin LongNames,
         NEW r, r = path_resolve(d, Parent(path))
  PROVE  path_resolve(d, path) = IF r.err # "OK" THEN r ELSE dir_find(d, r.n, Leaf(path))
<1>1. PICK w : IsWalk(d, path, w) /\ path_resolve(d, path) = w[Len(path)]
  BY IntactIs, WalkIs
<1>2. Len(path) - 1 \in Nat /\ Len(path) \in Nat /\ Len(path) - 1 \in 0..Len(path)
  BY PathTypes, ParentTypes
<1>3. r = w[Len(path) - 1]
  BY <1>1, <1>2, PrefixWalk DEF Parent
<1>4. w[Len(path)] = Descend(d, w[Len(path) - 1], path[Len(path)])
  <2> DEFINE i == Len(path) - 1
  <2>1. i \in Nat /\ i + 1 = Len(path) /\ i + 1 \in 1..Len(path)
    BY <1>2
  <2>2. w[i + 1] = Descend(d, w[i], path[i + 1])
    BY <1>1, <2>1 DEF IsWalk
  <2> QED  BY <2>1, <2>2
<1> QED  BY <1>1, <1>3, <1>4 DEF Descend, Leaf

(* What a removal finds, and the errors it stops on. *)
LEMMA TargetIs ==
  ASSUME Represented, NEW path \in Paths, NEW parent, parent = path_resolve_parent(disk, path),
         NEW target, target = dir_find(disk, parent.n, Leaf(path))
  PROVE  /\ parent.err # "OK" =>
              IF SplitError(path) # "OK" THEN parent.err = SplitError(path)
              ELSE parent.err = FS!LookupError(path)
         /\ parent.err = "OK" => SplitError(path) = "OK" /\ target.err = FS!LookupError(path)
         /\ parent.err = "OK" /\ target.err = "OK" =>
              /\ path \in AbsolutePaths /\ path # <<>> /\ Resolves(disk, path, target.n)
              /\ target.n \in disk.inode_bitmap /\ path \in DOMAIN tree
              /\ tree[path] = NodeAt(disk, target.n) /\ Leaf(path) \in Names
              /\ Entry(disk, parent.n, Leaf(path), target.n) /\ parent.n \in Dirs(disk)
<1>1. CASE SplitError(path) # "OK"
  BY <1>1 DEF path_resolve_parent, Failure
<1>2. CASE SplitError(path) = "OK"
  <2>1. path \in AbsolutePaths /\ path # <<>> /\ Leaf(path) \notin LongNames
    BY <1>2 DEF SplitError, Paths
  <2>2. parent = path_resolve(disk, Parent(path))
    BY <1>2 DEF path_resolve_parent
  <2>3. path_resolve(disk, path) = IF parent.err # "OK" THEN parent ELSE target
    BY <2>1, <2>2, StoreIs, LastLookup
  <2> DEFINE r == path_resolve(disk, path)
  <2>4. /\ FS!LookupError(path) = r.err
        /\ r.err = "OK" => /\ Resolves(disk, path, r.n) /\ r.n \in disk.inode_bitmap
                           /\ path \in DOMAIN tree /\ tree[path] = NodeAt(disk, r.n)
    BY StoreIs, LookupIs
  <2> HIDE DEF r
  <2>5. ASSUME parent.err = "OK", target.err = "OK"
        PROVE  /\ Entry(disk, parent.n, Leaf(path), target.n) /\ parent.n \in Dirs(disk)
               /\ Leaf(path) \in Names
    <3>1. Parent(path) \in AbsolutePaths /\ Parent(path) \in Paths /\ Leaf(path) \in Names
      BY <2>1, ParentTypes DEF Paths
    <3>2. Resolves(disk, Parent(path), parent.n)
      BY <2>2, <2>5, <3>1, StoreIs, LookupIs
    <3>3. parent.n \in Inodes
      BY <3>1, <3>2, StoreIs, Looked
    <3>4. Entry(disk, parent.n, Leaf(path), target.n)
      BY <2>1, <2>5, <3>2, <3>3, StoreIs, LeafIs
    <3> QED  BY <3>1, <3>4, StoreIs, EntryIs
  <2> QED  BY <1>2, <2>1, <2>3, <2>4, <2>5 DEF r
<1> QED  BY <1>1, <1>2

(* A cell inside the chain is always stored. *)
LEMMA WrittenInside ==
  ASSUME NEW d, Sound(d), NEW ino \in d.inode_bitmap, NEW slot \in 0..(Backed(d, ino) - 1),
         NEW cells, IsData(cells), Len(cells) = 1
  PROVE  chain_write(d, ino, slot, cells).result.n = 1
<1> USE RamFSAssumption
<1> DEFINE want == BlocksTo(slot, Len(cells)) - ChainLength(d, ino)
           k == Larger(0, want)
           f == Extended(d, ino, k)
           w == chain_write(d, ino, slot, cells)
<1>1. ino \in Inodes /\ Backed(d, ino) \in Nat /\ slot \in Nat
  <2>1. ino \in Inodes
    BY DiskTypes DEF Sound, InodeBitmaps
  <2> QED  BY <2>1, BackedIsNat
<1>2. IsData(cells) /\ Len(cells) = 1
  OBVIOUS
<1>3. k \in Nat
  <2>1. ChainLength(d, ino) \in Int
    BY <1>1, Lengths DEF Sound, Ends
  <2>2. BlocksTo(slot, Len(cells)) \in Int
    BY <1>1, <1>2 DEF BlocksTo
  <2> QED  BY <2>1, <2>2 DEF Larger
<1>4. w = IF ChainLength(f, ino) < slot \div BlockSize
          THEN [disk |-> f, result |-> Failure("NO_SPACE")] ELSE Stored(f, ino, slot, cells)
  BY DEF chain_write
<1> HIDE DEF k
<1>5. Sound(f) /\ Grown(d, f, ino)
  BY <1>3, ExtendedKeeps
<1> HIDE DEF f
<1>6. Backed(d, ino) <= Backed(f, ino) /\ Backed(f, ino) \in Nat /\ ino \in f.inode_bitmap
  BY <1>1, <1>5, GrownCells, BackedIsNat DEF Grown
<1>7. slot < Backed(f, ino)
  BY <1>1, <1>6
<1>8. slot \div BlockSize < ChainLength(f, ino) /\ slot \div BlockSize \in Nat
      /\ ChainLength(f, ino) \in Nat
  <2>1. ChainLength(f, ino) \in 0..NBlocks
    BY <1>1, <1>5, Lengths DEF Sound, Ends
  <2> QED  BY <1>1, <1>5, <1>7, <2>1, AddressIn
<1>9. w = Stored(f, ino, slot, cells)
  BY <1>4, <1>8
<1> HIDE DEF w
<1>10. w.result.n = Smaller(Len(cells), Larger(0, Backed(f, ino) - slot))
  <2> DEFINE e == w.disk
             n == w.result.n
  <2>1. slot \in Nat /\ ino \in f.inode_bitmap
    BY <1>1, <1>6
  <2>2. /\ Sound(e) /\ Kept(f, e, ino) /\ w.result.err = "OK"
        /\ n = Smaller(Len(cells), Larger(0, Backed(f, ino) - slot))
        /\ ChainLength(e, ino) = ChainLength(f, ino)
        /\ e.inodes[ino].size = Larger(f.inodes[ino].size, slot + n)
        /\ \A i \in 0..(Backed(f, ino) - 1) :
             CellAt(e, ino, i) = IF i \in slot..(slot + n - 1) THEN cells[i - slot + 1]
                                 ELSE CellAt(f, ino, i)
    BY <1>5, <1>9, <2>1, StoredKeeps, Z3T(60)
  <2> QED  BY <2>2
<1>11. w.result.n = 1
  BY <1>1, <1>2, <1>6, <1>7, <1>10 DEF Smaller, Larger
<1> QED  BY <1>11 DEF w


(* Dropping the entry of a name never fails. *)
LEMMA EntryDropped ==
  ASSUME NEW d, Intact(d), NEW p \in Dirs(d), NEW name \in Names, NEW target,
         Entry(d, p, name, target)
  PROVE  dir_remove(d, p, name).err = "OK"
<1>1. PICK s \in Nat : Live(d, p, s) /\ CellAt(d, p, s) = Dirent(name, target)
  BY DEF Entry
<1>2. CellAt(d, p, s).name = name
  BY <1>1 DEF Dirent
<1>3. SlotsNamed(d, p, name) = {s} /\ IsDir(d, p)
  <2>1. SlotsNamed(d, p, name) = {s}
    BY <1>1, <1>2, IntactIs, DirFind
  <2> QED  BY <2>1 DEF IsDir, Dirs
<1>4. MinOf(SlotsNamed(d, p, name)) = s
  <2>1. MinOf({s}) \in {s}
    BY <1>1, MinIsThere
  <2> QED  BY <1>3, <2>1
<1>5. s \in 0..(Backed(d, p) - 1) /\ p \in d.inode_bitmap /\ Sound(d)
  <2>1. s \in 0..(Size(d, p) - 1)
    BY <1>1 DEF Live
  <2>2. Size(d, p) <= Backed(d, p) /\ Size(d, p) \in Nat /\ Backed(d, p) \in Nat
    BY IntactIs DEF Readable
  <2> QED  BY <2>1, <2>2, IntactIs
<1> DEFINE cells == <<Hole>>
           w == chain_write(d, p, s, cells)
<1>6. IsData(cells) /\ Len(cells) = 1
  BY DEF IsData, Contents
<1> HIDE DEF cells
<1>7. w.result.n = 1
  BY <1>5, <1>6, WrittenInside
<1>8. dir_remove(d, p, name) = OneWritten(w, "IO")
  BY <1>3, <1>4 DEF dir_remove, cells
<1> HIDE DEF w
<1> QED  BY <1>7, <1>8 DEF OneWritten, Outcome

LEMMA RemovedMaps ==
  ASSUME Represented, Represented', NEW path \in AbsolutePaths, NEW parent \in Dirs(disk),
         NEW target \in disk.inode_bitmap, Resolves(disk, path, target), Leaf(path) \in Names,
         Entry(disk, parent, Leaf(path), target), \A i \in Nat : ~Live(disk, target, i),
         \A fd \in Fds : fds[fd].in_use => fds[fd].inode # target,
         Return(RemoveEntry(parent, target, path))
  PROVE  FS!Remove(path, "OK")
<1>1. dir_remove(disk, parent, Leaf(path)).err = "OK"
  BY StoreIs, EntryDropped
<1> DEFINE r == dir_remove(disk, parent, Leaf(path))
           e == inode_free(r.disk, target)
<1>2. disk' = e /\ ret' = Failure("OK") /\ UNCHANGED fds
  BY <1>1 DEF Return, RemoveEntry, Outcome
<1>3. PICK s \in Nat : Live(disk, parent, s) /\ CellAt(disk, parent, s) = Dirent(Leaf(path), target)
  BY DEF Entry
<1>4. CellAt(disk, parent, s).name = Leaf(path) /\ CellAt(disk, parent, s).inode = target
  BY <1>3 DEF Dirent
<1>5. target \in Inodes
  BY StoreIs, IntactIs
<1>6. /\ Intact(e) /\ e.inode_bitmap = disk.inode_bitmap \ {target} /\ PathsKept(e, disk)
      /\ \A i \in e.inode_bitmap :
           /\ e.inodes[i].type = disk.inodes[i].type
           /\ disk.inodes[i].type = "FILE" => SameInode(disk, e, i)
  BY <1>1, <1>3, <1>4, <1>5, StoreIs, EntryRemoved
<1> HIDE DEF r, e
<1>7. TreeOf(e) = Minus(TreeOf(disk), path) /\ HandlesOf(e, fds) = HandlesOf(disk, fds)
  BY <1>6, StoreIs, RemovedTree
<1>8. tree' = TreeOf(e) /\ handles' = HandlesOf(e, fds)
  BY <1>2 DEF Represented, Mapped
<1>9. FS!Pruned(path) = Minus(tree, path)
  BY DEF FS!Pruned, Minus
<1> QED  BY <1>2, <1>7, <1>8, <1>9, StoreIs, Shared DEF FS!Remove


LEMMA RemovalFails ==
  ASSUME Represented, Represented', NEW path, NEW err, Return(Outcome(disk, err)), err # "OK"
  PROVE  FS!Remove(path, err)
<1>1. UNCHANGED <<disk, fds>> /\ ret' = Failure(err)
  BY DEF Return, Outcome
<1> QED  BY <1>1, SameMapping, Shared DEF FS!Remove

(* A directory is empty when no node lies below it. *)
LEMMA EmptyIs ==
  ASSUME Represented, NEW path \in AbsolutePaths, NEW dir, Resolves(disk, path, dir),
         disk.inodes[dir].type = "DIR"
  PROVE  /\ dir_is_empty(disk, dir) = IF FS!Children(path) = {} THEN "OK" ELSE "NOT_EMPTY"
         /\ FS!Children(path) = {} => \A i \in Nat : ~Live(disk, dir, i)
<1>1. dir \in Dirs(disk) /\ IsDir(disk, dir)
  BY StoreIs, Looked DEF Dirs, IsDir
<1>2. FS!Children(path) = ChildrenIn(disk, path)
  <2>1. DOMAIN tree = Resolved(disk)
    BY StoreIs, TreeIs
  <2> QED  BY <2>1, Shared DEF FS!Children, ChildrenIn
<1>3. FS!Children(path) = {} <=> LiveSlotsOf(disk, dir) = {}
  <2>1. /\ IsFiniteSet(ChildrenIn(disk, path))
        /\ Cardinality(ChildrenIn(disk, path)) = Cardinality(LiveSlotsOf(disk, dir))
    BY <1>1, StoreIs, ChildPerSlot
  <2>2. IsFiniteSet(LiveSlotsOf(disk, dir))
    BY <1>1, StoreIs, LiveSlotsAre
  <2> QED  BY <1>2, <2>1, <2>2, FS_EmptySet
<1>4. Slots(disk, dir) = 0..(Size(disk, dir) - 1) /\ ~Unreadable(disk, dir) /\ Size(disk, dir) \in Nat
  BY <1>1, StoreIs, SlotSet
<1>5. (\E i \in Slots(disk, dir) : CellAt(disk, dir, i) # Hole) <=> LiveSlotsOf(disk, dir) # {}
  BY <1>1, <1>4 DEF LiveSlotsOf, Live
<1>6. LiveSlotsOf(disk, dir) = {} => \A i \in Nat : ~Live(disk, dir, i)
  BY DEF LiveSlotsOf
<1> QED  BY <1>1, <1>3, <1>4, <1>5, <1>6 DEF dir_is_empty

LEMMA RmdirMaps ==
  ASSUME Represented, Represented', NEW path \in Paths, ramfs_rmdir(path)
  PROVE  FS!Rmdir(path)
<1> DEFINE parent == path_resolve_parent(disk, path)
           target == dir_find(disk, parent.n, Leaf(path))
<1>1. Return(IF parent.err # "OK" THEN Outcome(disk, parent.err)
             ELSE IF target.err # "OK" THEN Outcome(disk, target.err)
             ELSE IF disk.inodes[target.n].type # "DIR" THEN Outcome(disk, "NOT_DIR")
             ELSE IF dir_is_empty(disk, target.n) # "OK"
             THEN Outcome(disk, dir_is_empty(disk, target.n))
             ELSE RemoveEntry(parent.n, target.n, path))
  BY DEF ramfs_rmdir
<1>2. /\ parent.err # "OK" =>
           IF SplitError(path) # "OK" THEN parent.err = SplitError(path)
           ELSE parent.err = FS!LookupError(path)
      /\ parent.err = "OK" => SplitError(path) = "OK" /\ target.err = FS!LookupError(path)
      /\ parent.err = "OK" /\ target.err = "OK" =>
           /\ path \in AbsolutePaths /\ path # <<>> /\ Resolves(disk, path, target.n)
           /\ target.n \in disk.inode_bitmap /\ path \in DOMAIN tree
           /\ tree[path] = NodeAt(disk, target.n) /\ Leaf(path) \in Names
           /\ Entry(disk, parent.n, Leaf(path), target.n) /\ parent.n \in Dirs(disk)
  BY TargetIs
<1>3. FS!SplitError(path) = SplitError(path)
  BY Shared
<1> HIDE DEF target, parent
<1>4. CASE parent.err # "OK"
  <2>1. FS!RmdirError(path) = parent.err
    BY <1>2, <1>3, <1>4 DEF FS!RmdirError
  <2> QED  BY <1>1, <1>4, <2>1, RemovalFails DEF FS!Rmdir
<1>5. CASE parent.err = "OK" /\ target.err # "OK"
  <2>1. FS!RmdirError(path) = target.err
    BY <1>2, <1>3, <1>5 DEF FS!RmdirError
  <2> QED  BY <1>1, <1>5, <2>1, RemovalFails DEF FS!Rmdir
<1>6. CASE parent.err = "OK" /\ target.err = "OK"
  <2>1. tree[path].type = disk.inodes[target.n].type
    BY <1>2, <1>6 DEF NodeAt
  <2>2. FS!RmdirError(path) = IF disk.inodes[target.n].type # "DIR" THEN "NOT_DIR"
                              ELSE IF FS!Children(path) # {} THEN "NOT_EMPTY" ELSE "OK"
    BY <1>2, <1>3, <1>6, <2>1 DEF FS!RmdirError
  <2>3. CASE disk.inodes[target.n].type # "DIR"
    BY <1>1, <1>6, <2>2, <2>3, RemovalFails DEF FS!Rmdir
  <2>4. CASE disk.inodes[target.n].type = "DIR" /\ FS!Children(path) # {}
    <3>1. dir_is_empty(disk, target.n) = "NOT_EMPTY"
      BY <1>2, <1>6, <2>4, EmptyIs
    <3> QED  BY <1>1, <1>6, <2>2, <2>4, <3>1, RemovalFails DEF FS!Rmdir
  <2>5. CASE disk.inodes[target.n].type = "DIR" /\ FS!Children(path) = {}
    <3>1. dir_is_empty(disk, target.n) = "OK" /\ \A i \in Nat : ~Live(disk, target.n, i)
      BY <1>2, <1>6, <2>5, EmptyIs
    <3>2. \A fd \in Fds : fds[fd].in_use => fds[fd].inode # target.n
      BY <2>5, StoreIs DEF FdsGood, OpenIsFile
    <3>3. Return(RemoveEntry(parent.n, target.n, path))
      BY <1>1, <1>6, <2>5, <3>1
    <3>4. FS!Remove(path, "OK")
      BY <1>2, <1>6, <3>1, <3>2, <3>3, RemovedMaps
    <3> QED  BY <2>2, <2>5, <3>4 DEF FS!Rmdir
  <2> QED  BY <2>3, <2>4, <2>5
<1> QED  BY <1>4, <1>5, <1>6

LEMMA UnlinkMaps ==
  ASSUME Represented, Represented', NEW path \in Paths, ramfs_unlink(path)
  PROVE  FS!Unlink(path)
<1> DEFINE parent == path_resolve_parent(disk, path)
           target == dir_find(disk, parent.n, Leaf(path))
<1>1. Return(IF parent.err # "OK" THEN Outcome(disk, parent.err)
             ELSE IF target.err # "OK" THEN Outcome(disk, target.err)
             ELSE IF disk.inodes[target.n].type = "DIR" THEN Outcome(disk, "IS_DIR")
             ELSE IF \E fd \in Fds : fds[fd].in_use /\ fds[fd].inode = target.n
             THEN Outcome(disk, "IO")
             ELSE RemoveEntry(parent.n, target.n, path))
  BY DEF ramfs_unlink
<1>2. /\ parent.err # "OK" =>
           IF SplitError(path) # "OK" THEN parent.err = SplitError(path)
           ELSE parent.err = FS!LookupError(path)
      /\ parent.err = "OK" => SplitError(path) = "OK" /\ target.err = FS!LookupError(path)
      /\ parent.err = "OK" /\ target.err = "OK" =>
           /\ path \in AbsolutePaths /\ path # <<>> /\ Resolves(disk, path, target.n)
           /\ target.n \in disk.inode_bitmap /\ path \in DOMAIN tree
           /\ tree[path] = NodeAt(disk, target.n) /\ Leaf(path) \in Names
           /\ Entry(disk, parent.n, Leaf(path), target.n) /\ parent.n \in Dirs(disk)
  BY TargetIs
<1>3. FS!SplitError(path) = SplitError(path) /\ FS!Fds = Fds
  BY Shared
<1> HIDE DEF target, parent
<1>4. CASE parent.err # "OK"
  <2>1. FS!UnlinkError(path) = parent.err
    BY <1>2, <1>3, <1>4 DEF FS!UnlinkError
  <2> QED  BY <1>1, <1>4, <2>1, RemovalFails DEF FS!Unlink
<1>5. CASE parent.err = "OK" /\ target.err # "OK"
  <2>1. FS!UnlinkError(path) = target.err
    BY <1>2, <1>3, <1>5 DEF FS!UnlinkError
  <2> QED  BY <1>1, <1>5, <2>1, RemovalFails DEF FS!Unlink
<1>6. CASE parent.err = "OK" /\ target.err = "OK"
  <2> DEFINE used == \E fd \in Fds : fds[fd].in_use /\ fds[fd].inode = target.n
  <2>1. tree[path].type = disk.inodes[target.n].type
    BY <1>2, <1>6 DEF NodeAt
  <2>2. used <=> \E fd \in FS!Fds : handles[fd].open /\ handles[fd].path = path
    <3> SUFFICES ASSUME NEW fd \in Fds
                 PROVE  /\ fds[fd].in_use <=> handles[fd].open
                        /\ fds[fd].in_use => (fds[fd].inode = target.n <=> handles[fd].path = path)
      BY <1>3
    <3> DEFINE h == handles[fd]
    <3>1. /\ h.open = fds[fd].in_use
          /\ fds[fd].in_use => h.path \in AbsolutePaths /\ Resolves(disk, h.path, fds[fd].inode)
      BY StoreIs, HandlesAre
    <3> HIDE DEF h
    <3>2. ASSUME fds[fd].in_use, fds[fd].inode = target.n
          PROVE  h.path = path
      BY <1>2, <1>6, <3>1, <3>2, StoreIs, OnePath
    <3>3. ASSUME fds[fd].in_use, h.path = path
          PROVE  fds[fd].inode = target.n
      <4>1. path_resolve(disk, path) = Success(target.n, <<>>)
        BY <1>2, <1>6, StoreIs, Looked
      <4>2. path_resolve(disk, path) = Success(fds[fd].inode, <<>>)
        BY <3>1, <3>3, StoreIs, Looked
      <4> QED  BY <4>1, <4>2 DEF Success
    <3> QED  BY <3>1, <3>2, <3>3 DEF h
  <2>3. FS!UnlinkError(path) = IF disk.inodes[target.n].type = "DIR" THEN "IS_DIR"
                               ELSE IF used THEN "IO" ELSE "OK"
    BY <1>2, <1>3, <1>6, <2>1, <2>2 DEF FS!UnlinkError
  <2>4. CASE disk.inodes[target.n].type = "DIR"
    BY <1>1, <1>6, <2>3, <2>4, RemovalFails DEF FS!Unlink
  <2>5. CASE disk.inodes[target.n].type # "DIR" /\ used
    BY <1>1, <1>6, <2>3, <2>5, RemovalFails DEF FS!Unlink
  <2>6. CASE disk.inodes[target.n].type # "DIR" /\ ~used
    <3>1. \A i \in Nat : ~Live(disk, target.n, i)
      BY <2>6 DEF Live, Dirs
    <3>2. Return(RemoveEntry(parent.n, target.n, path))
      BY <1>1, <1>6, <2>6
    <3>3. FS!Remove(path, "OK")
      BY <1>2, <1>6, <2>6, <3>1, <3>2, RemovedMaps
    <3> QED  BY <2>3, <2>6, <3>3 DEF FS!Unlink
  <2> QED  BY <2>4, <2>5, <2>6
<1> QED  BY <1>4, <1>5, <1>6


(***************************************************************************)
(* read                                                                    *)
(***************************************************************************)
LEMMA ReadIs ==
  ASSUME NEW d, Intact(d), NEW i \in d.inode_bitmap, d.inodes[i].type = "FILE",
         Size(d, i) <= Backed(d, i), NEW offset \in Nat, NEW count \in Nat,
         NEW n, n = Smaller(count, Larger(0, Size(d, i) - offset))
  PROVE  /\ n \in Nat
         /\ chain_read(d, i, offset, count) = Success(n, SubSeq(Content(d, i), offset + 1, offset + n))
<1> USE RamFSAssumption
<1> DEFINE s == Size(d, i)
           c == Content(d, i)
<1>1. s \in Nat /\ Backed(d, i) \in Nat /\ i \in Inodes /\ d.inodes[i].size = s /\ Sound(d)
  BY IntactIs DEF Size
<1>2. c \in Seq(Contents) /\ Len(c) = s /\ \A k \in 1..s : c[k] = CellAt(d, i, k - 1)
  BY ContentIs
<1>3. s <= Backed(d, i) /\ n = Smaller(count, Larger(0, s - offset))
  OBVIOUS
<1> HIDE DEF s, c
<1>4. n \in Nat
  BY <1>1, <1>3 DEF Smaller, Larger
<1>5. CASE offset >= s
  <2>1. n = 0
    BY <1>1, <1>3, <1>5 DEF Smaller, Larger
  <2>2. SubSeq(c, offset + 1, offset + n) = <<>>
    BY <1>2, <2>1, SubSeqEmpty
  <2>3. chain_read(d, i, offset, count) = Done
    BY <1>1, <1>5 DEF chain_read
  <2> QED  BY <1>4, <2>1, <2>2, <2>3 DEF Done, c
<1>6. CASE offset < s
  <2> DEFINE size == d.inodes[i].size
             m == Smaller(count, size - offset)
             cells == [k \in 1..n |-> CellAt(d, i, offset + k - 1)]
  <2>1. m = n /\ offset + n <= s /\ ~(offset >= size)
    BY <1>1, <1>3, <1>4, <1>6 DEF Smaller, Larger
  <2> HIDE DEF m
  <2>2. BlocksTo(offset, n) <= ChainLength(d, i)
    <3>1. ChainLength(d, i) \in Nat
      BY <1>1, Lengths DEF Sound, Ends
    <3>2. CASE n = 0
      <4>1. offset \div BlockSize < ChainLength(d, i) /\ offset \div BlockSize \in Nat
        BY <1>1, <1>3, <1>6, AddressIn, Division
      <4> QED  BY <3>1, <3>2, <4>1 DEF BlocksTo
    <3>3. CASE n # 0
      <4> DEFINE l == offset + n - 1
      <4>1. l \in Nat /\ l < Backed(d, i)
        BY <1>1, <1>3, <1>4, <2>1, <3>3
      <4> HIDE DEF l
      <4>2. l \div BlockSize < ChainLength(d, i) /\ l \div BlockSize \in Nat
        BY <1>1, <4>1, AddressIn, Division
      <4>3. BlocksTo(offset, n) = l \div BlockSize + 1
        BY <3>3 DEF BlocksTo, l
      <4> QED  BY <3>1, <4>2, <4>3
    <3> QED  BY <3>2, <3>3
  <2>3. ~(BlocksTo(offset, n) > ChainLength(d, i))
    <3>1. ChainLength(d, i) \in Nat
      BY <1>1, Lengths DEF Sound, Ends
    <3>2. BlocksTo(offset, n) \in Int
      BY <1>4 DEF BlocksTo
    <3> QED  BY <2>2, <3>1, <3>2
  <2>4. chain_read(d, i, offset, count) = Success(n, cells)
    BY <2>1, <2>3 DEF chain_read, m
  <2> HIDE DEF cells, size
  <2> DEFINE sub == SubSeq(c, offset + 1, offset + n)
  <2>5. \A k \in (offset + 1)..(offset + n) : c[k] \in Contents
    BY <1>1, <1>2, <1>4, <2>1
  <2>6. /\ sub \in Seq(Contents)
        /\ Len(sub) = IF offset + 1 <= offset + n THEN offset + n - (offset + 1) + 1 ELSE 0
        /\ \A k \in 1..(offset + n - (offset + 1) + 1) : sub[k] = c[offset + 1 + k - 1]
    BY <1>2, <1>4, <2>5, SubSeqProperties
  <2> HIDE DEF sub
  <2>7. Len(sub) = n /\ \A k \in 1..n : sub[k] = c[offset + k]
    BY <1>4, <2>6
  <2>8. \A k \in 1..n : c[offset + k] = CellAt(d, i, offset + k - 1)
    BY <1>1, <1>2, <1>4, <2>1
  <2>9. sub = [k \in 1..n |-> sub[k]]
    BY <2>6, <2>7, LenProperties
  <2>10. sub = cells
    BY <2>7, <2>8, <2>9, Zenon DEF cells
  <2> QED  BY <1>4, <2>4, <2>10 DEF sub, c
<1> QED  BY <1>1, <1>5, <1>6

LEMMA ReadMaps ==
  ASSUME Represented, Represented', NEW fd, NEW count \in ReadCounts, ramfs_read(fd, count)
  PROVE  FS!Read(fd, count)
<1>1. CASE ~(fd_check(fd) /\ "READ" \in fds[fd].flags)
  <2>1. ~FS!Usable(fd, "READ")
    BY <1>1, DescriptorIs
  <2> QED  BY <1>1, <2>1, BadFdMaps DEF ramfs_read, FS!Read
<1>2. CASE fd_check(fd) /\ "READ" \in fds[fd].flags
  <2> DEFINE h == handles[fd]
             ino == fds[fd].inode
             offset == fds[fd].offset
             file == tree[h.path].data
             n == Smaller(count, Larger(0, Size(disk, ino) - offset))
             read == chain_read(disk, ino, offset, count)
  <2>1. fd \in Fds /\ ret' = read /\ fds' = [fds EXCEPT ![fd].offset = @ + ret'.n] /\ UNCHANGED disk
    BY <1>2 DEF ramfs_read, fd_check
  <2>2. /\ FS!Usable(fd, "READ") /\ h.offset = offset /\ ino \in disk.inode_bitmap
        /\ disk.inodes[ino].type = "FILE" /\ tree[h.path] = NodeAt(disk, ino) /\ offset \in Nat
    BY <1>2, DescriptorIs
  <2>3. file = Content(disk, ino)
    BY <2>2 DEF NodeAt
  <2> HIDE DEF h, ino, offset, read, file
  <2>4. Size(disk, ino) <= Backed(disk, ino) /\ count \in Nat
    BY <2>2, StoreIs, ApiAssumption DEF Readables
  <2>5. n \in Nat /\ read = Success(n, SubSeq(Content(disk, ino), offset + 1, offset + n))
    BY <2>2, <2>4, StoreIs, ReadIs DEF read
  <2>6. Len(file) = Size(disk, ino)
    BY <2>2, <2>3, <2>4, StoreIs, ContentIs
  <2>7. n = FS!Smaller(count, FS!Larger(0, Len(file) - h.offset))
    BY <2>2, <2>6, Shared
  <2> HIDE DEF n
  <2>8. ret' = Success(n, SubSeq(file, h.offset + 1, h.offset + n))
    BY <2>1, <2>2, <2>3, <2>5
  <2>9. fds' = Moved(fds, fd, offset + n)
    BY <2>1, <2>8 DEF Moved, Success, offset
  <2>10. tree' = tree /\ handles' = HandlesOf(disk, fds')
    BY <2>1, StoreIs DEF Represented, Mapped
  <2>11. handles' = Moved(handles, fd, h.offset + n)
    BY <2>1, <2>2, <2>9, <2>10, StoreIs, HandleMoved
  <2>12. handles' = [handles EXCEPT ![fd].offset = @ + n]
    BY <2>11 DEF Moved, h
  <2> QED  BY <2>2, <2>7, <2>8, <2>10, <2>12, Shared DEF FS!Read, h, file
<1> QED  BY <1>1, <1>2


(***************************************************************************)
(* write                                                                   *)
(***************************************************************************)
(* Only a write that starts beyond the chain runs out of space on the way. *)
LEMMA NoSpaceBeyond ==
  ASSUME NEW d, Sound(d), NEW ino \in d.inode_bitmap, NEW offset \in Nat, NEW cells, IsData(cells),
         chain_write(d, ino, offset, cells).result.err # "OK"
  PROVE  offset > Backed(d, ino)
<1> USE RamFSAssumption
<1> DEFINE want == BlocksTo(offset, Len(cells)) - ChainLength(d, ino)
           k == Larger(0, want)
           f == Extended(d, ino, k)
           w == chain_write(d, ino, offset, cells)
           q == offset \div BlockSize
           l == ChainLength(d, ino)
<1>1. ino \in Inodes
  BY DiskTypes DEF Sound, InodeBitmaps
<1>2. l \in Nat
  BY <1>1, Lengths DEF Sound, Ends
<1>3. k \in Nat
  <2>1. BlocksTo(offset, Len(cells)) \in Int
    BY DEF BlocksTo, IsData
  <2> QED  BY <1>2, <2>1 DEF Larger
<1>4. w = IF ChainLength(f, ino) < q
          THEN [disk |-> f, result |-> Failure("NO_SPACE")] ELSE Stored(f, ino, offset, cells)
  BY DEF chain_write
<1> HIDE DEF k
<1>5. Sound(f) /\ Grown(d, f, ino)
  BY <1>3, ExtendedKeeps
<1>6. Stored(f, ino, offset, cells).result.err = "OK"
  BY DEF Stored, Success
<1>7. ChainLength(f, ino) < q
  BY <1>4, <1>6
<1> HIDE DEF f, w
<1>8. ChainLength(f, ino) \in Nat /\ l <= ChainLength(f, ino)
  BY <1>1, <1>5, Lengths DEF Sound, Ends, Grown
<1>9. q \in Nat /\ offset >= BlockSize * q
  <2>1. /\ q \in Nat /\ offset % BlockSize \in 0..(BlockSize - 1)
        /\ offset = BlockSize * q + (offset % BlockSize)
    BY Division
  <2>2. BlockSize * q \in Nat
    BY <2>1
  <2> HIDE DEF q
  <2> QED  BY <2>1, <2>2
<1>10. Backed(d, ino) = BlockSize * l
  BY <1>2 DEF Backed
<1> HIDE DEF q, l
<1>11. l < q
  BY <1>2, <1>7, <1>8, <1>9
<1>12. BlockSize * l \in Nat /\ BlockSize * l + BlockSize <= BlockSize * q
  BY <1>2, <1>9, <1>11, Product
<1>13. BlockSize * q \in Nat
  BY <1>9
<1> QED  BY <1>9, <1>10, <1>12, <1>13

(* What a file holds after a write: w is what chain_write did to it. *)
Writing(d, ino, offset, cells, w) ==
  /\ Intact(d) /\ ino \in d.inode_bitmap /\ d.inodes[ino].type = "FILE"
  /\ Size(d, ino) <= Backed(d, ino) /\ offset \in Nat /\ IsData(cells)
  /\ w = chain_write(d, ino, offset, cells) /\ w.result.err = "OK"
  /\ Intact(w.disk) /\ Size(w.disk, ino) <= Backed(w.disk, ino)
Written(d, ino, offset, cells, e, n) ==
  /\ NodeAt(e, ino) = [type |-> "FILE",
                       data |-> FS!Overwritten(Content(d, ino), offset, cells, n)]
  /\ n \in 0..Len(cells) /\ offset + n <= NBlocks * BlockSize

LEMMA WrittenNode ==
  ASSUME NEW d, NEW ino, NEW offset, NEW cells, NEW w, Writing(d, ino, offset, cells, w),
         NEW e, e = w.disk, NEW n, n = w.result.n
  PROVE  Written(d, ino, offset, cells, e, n)
<1>0. /\ Intact(d) /\ ino \in d.inode_bitmap /\ d.inodes[ino].type = "FILE"
      /\ Size(d, ino) <= Backed(d, ino) /\ offset \in Nat /\ IsData(cells)
      /\ w = chain_write(d, ino, offset, cells) /\ w.result.err = "OK"
      /\ Intact(e) /\ Size(e, ino) <= Backed(e, ino)
  BY DEF Writing
<1> USE <1>0
<1>1. /\ Kept(d, e, ino) /\ n \in 0..Len(cells)
      /\ e.inodes[ino].size = Larger(d.inodes[ino].size, offset + n)
      /\ \A i \in 0..(Backed(e, ino) - 1) :
           CellAt(e, ino, i) = IF i \in offset..(offset + n - 1) THEN cells[i - offset + 1]
                               ELSE IF i < Backed(d, ino) THEN CellAt(d, ino, i) ELSE Zero
  <2> DEFINE v == chain_write(d, ino, offset, cells)
             g == v.disk
             m == v.result.n
  <2>1. /\ Sound(g) /\ Kept(d, g, ino)
        /\ v.result.err \in {"OK", "NO_SPACE"} /\ m \in 0..Len(cells)
        /\ Backed(d, ino) <= Backed(g, ino) /\ (m > 0 => offset + m <= Backed(g, ino))
        /\ v.result.err = "OK" => g.inodes[ino].size = Larger(d.inodes[ino].size, offset + m)
        /\ v.result.err # "OK" => g.inodes[ino].size = d.inodes[ino].size /\ m = 0
        /\ \A i \in 0..(Backed(g, ino) - 1) :
             CellAt(g, ino, i) = IF i \in offset..(offset + m - 1) THEN cells[i - offset + 1]
                                 ELSE IF i < Backed(d, ino) THEN CellAt(d, ino, i) ELSE Zero
    BY IntactIs, WriteKeeps
  <2> HIDE DEF v
  <2>2. v = w
    BY DEF v
  <2> QED  BY <2>1, <2>2
<1>2. ino \in Inodes /\ ino \in e.inode_bitmap /\ e.inodes[ino].type = "FILE"
  BY <1>1, IntactIs DEF Kept
<1> DEFINE s == Size(d, ino)
           t == Size(e, ino)
           file == Content(d, ino)
<1>3. /\ s \in Nat /\ Backed(d, ino) \in Nat /\ Backed(e, ino) \in Nat /\ t = Larger(s, offset + n)
      /\ s <= Backed(d, ino) /\ t <= Backed(e, ino)
  BY <1>1, <1>2, IntactIs DEF Size
<1>4. Len(file) = s /\ \A k \in 1..s : file[k] = CellAt(d, ino, k - 1)
  BY ContentIs
<1>5. Content(e, ino) = [k \in 1..t |-> CellAt(e, ino, k - 1)]
  BY <1>2, ContentIs
<1>6. \A i \in s..(Backed(d, ino) - 1) : CellAt(d, ino, i) = Zero
  BY IntactIs DEF ZeroBeyond
<1> HIDE DEF s, t, file
<1>7. n \in Nat /\ t \in Nat /\ offset + n <= t
  BY <1>1, <1>3 DEF Larger, IsData
<1>8. ASSUME NEW k \in 1..t
      PROVE  CellAt(e, ino, k - 1) = IF k > offset /\ k <= offset + n THEN cells[k - offset]
                                     ELSE IF k <= Len(file) THEN file[k] ELSE Zero
  <2>1. k \in Nat /\ k > 0 /\ k - 1 \in 0..(Backed(e, ino) - 1) /\ k - 1 \in Nat
    BY <1>3, <1>7
  <2> DEFINE i == k - 1
  <2>2. CellAt(e, ino, i) = IF i \in offset..(offset + n - 1) THEN cells[i - offset + 1]
                            ELSE IF i < Backed(d, ino) THEN CellAt(d, ino, i) ELSE Zero
    BY <1>1, <2>1
  <2>3. /\ i \in offset..(offset + n - 1) <=> k > offset /\ k <= offset + n
        /\ i - offset + 1 = k - offset
    BY <1>7, <2>1
  <2>4. CASE k <= s
    <3>1. i < Backed(d, ino) /\ file[k] = CellAt(d, ino, i) /\ k <= Len(file)
      BY <1>3, <1>4, <2>1, <2>4
    <3> QED  BY <2>2, <2>3, <3>1
  <2>5. CASE ~(k <= s)
    <3>1. i < Backed(d, ino) => CellAt(d, ino, i) = Zero
      <4>1. i < Backed(d, ino) => i \in s..(Backed(d, ino) - 1)
        BY <1>3, <2>1, <2>5
      <4> QED  BY <1>6, <4>1
    <3>2. ~(k <= Len(file))
      BY <1>4, <2>5
    <3> QED  BY <2>2, <2>3, <3>1, <3>2
  <2> QED  BY <2>4, <2>5
<1>9. Content(e, ino) = FS!Overwritten(file, offset, cells, n)
  <2>1. t = FS!Larger(Len(file), offset + n)
    BY <1>3, <1>4, Shared
  <2>2. FS!Overwritten(file, offset, cells, n) =
          [k \in 1..t |-> IF k > offset /\ k <= offset + n THEN cells[k - offset]
                          ELSE IF k <= Len(file) THEN file[k] ELSE Zero]
    BY <2>1 DEF FS!Overwritten
  <2>3. [k \in 1..t |-> CellAt(e, ino, k - 1)] =
          [k \in 1..t |-> IF k > offset /\ k <= offset + n THEN cells[k - offset]
                          ELSE IF k <= Len(file) THEN file[k] ELSE Zero]
    BY <1>8
  <2> QED  BY <1>5, <2>2, <2>3
<1>10. NodeAt(e, ino) = [type |-> "FILE", data |-> FS!Overwritten(file, offset, cells, n)]
  BY <1>2, <1>9 DEF NodeAt
<1>11. offset + n <= NBlocks * BlockSize
  <2>1. Backed(e, ino) \in 0..(NBlocks * BlockSize) /\ NBlocks * BlockSize \in Nat
    BY <1>2, BackedFits, RamFSAssumption
  <2> QED  BY <1>3, <1>7, <2>1
<1> QED  BY <1>1, <1>10, <1>11 DEF file, Written


LEMMA WriteMaps ==
  ASSUME Represented, Represented', NEW fd, NEW buf \in Buffers, ramfs_write(fd, buf)
  PROVE  FS!Write(fd, buf)
<1>1. CASE ~(fd_check(fd) /\ "WRITE" \in fds[fd].flags)
  <2>1. ~FS!Usable(fd, "WRITE")
    BY <1>1, DescriptorIs
  <2> QED  BY <1>1, <2>1, BadFdMaps DEF ramfs_write, FS!Write
<1>2. CASE fd_check(fd) /\ "WRITE" \in fds[fd].flags
  <2> DEFINE h == handles[fd]
             ino == fds[fd].inode
             offset == IF "APPEND" \in fds[fd].flags THEN disk.inodes[ino].size
                       ELSE fds[fd].offset
             file == tree[h.path].data
             off == IF "APPEND" \in h.flags THEN Len(file) ELSE h.offset
             w == chain_write(disk, ino, offset, buf)
             n == w.result.n
  <2>1. fd \in Fds /\ disk' = w.disk /\ ret' = w.result /\ fds' = Moved(fds, fd, offset + n)
    BY <1>2 DEF ramfs_write, fd_check, Moved
  <2>2. /\ FS!Usable(fd, "WRITE") /\ h.offset = fds[fd].offset /\ h.flags = fds[fd].flags
        /\ ino \in disk.inode_bitmap /\ disk.inodes[ino].type = "FILE"
        /\ tree[h.path] = NodeAt(disk, ino) /\ h.offset \in Nat
        /\ h.path \in AbsolutePaths /\ Resolves(disk, h.path, ino) /\ h.path \in DOMAIN tree
    BY <1>2, DescriptorIs
  <2>3. file = Content(disk, ino)
    BY <2>2 DEF NodeAt
  <2>4. Size(disk, ino) <= Backed(disk, ino) /\ Size(disk, ino) \in Nat /\ ino \in Inodes
        /\ Backed(disk, ino) \in Nat
    BY <2>2, StoreIs, IntactIs DEF Readables
  <2>5. Len(file) = Size(disk, ino)
    BY <2>2, <2>3, <2>4, StoreIs, ContentIs
  <2>6. off = offset /\ offset \in Nat
    BY <2>2, <2>4, <2>5 DEF Size
  <2>7. IsData(buf)
    <3>1. buf \in Seq(Bytes)
      BY ApiAssumption
    <3>2. Len(buf) \in Nat /\ \A k \in 1..Len(buf) : buf[k] \in Bytes
      BY <3>1, LenProperties, ElementOfSeq
    <3> QED  BY <3>2 DEF IsData, Contents, Cells
  <2> DEFINE quiet == "APPEND" \notin h.flags => offset = fds[fd].offset
  <2>8. quiet /\ ("APPEND" \in h.flags => offset = Len(file))
    BY <2>2, <2>5 DEF Size
  <2> HIDE DEF ino, offset
  <2>9. /\ Intact(disk') /\ disk'.inode_bitmap = disk.inode_bitmap
        /\ \A i \in disk.inode_bitmap : disk'.inodes[i].type = disk.inodes[i].type
        /\ w.result.err \in {"OK", "NO_SPACE"}
        /\ w.result.err # "OK" => Same(disk, disk')
    BY <2>1, <2>2, <2>6, <2>7, StoreIs, FileWritten
  <2>10. Kept(disk, disk', ino) /\ (w.result.err # "OK" => n = 0)
    BY <2>1, <2>2, <2>6, <2>7, StoreIs, IntactIs, WriteKeeps
  <2>11. tree' = TreeOf(disk') /\ handles' = HandlesOf(disk', fds')
    BY DEF Represented, Mapped
  <2>12. CASE w.result.err # "OK"
    <3>1. offset > Backed(disk, ino)
      BY <2>2, <2>6, <2>7, <2>12, StoreIs, IntactIs, NoSpaceBeyond
    <3>2. off > Len(file)
      BY <2>4, <2>5, <2>6, <3>1
    <3>3. fds' = fds
      <4>1. offset = fds[fd].offset
        BY <2>6, <2>4, <2>5, <2>8, <3>1
      <4>2. n = 0
        BY <2>10, <2>12
      <4>3. fds \in [Fds -> FdRecords] /\ fds[fd] \in FdRecords
        BY <2>1, StoreIs
      <4> HIDE DEF n
      <4>4. offset + n = fds[fd].offset
        BY <2>6, <4>1, <4>2
      <4> QED  BY <2>1, <4>3, <4>4 DEF Moved, FdRecords
    <3>4. UNCHANGED <<tree, handles>>
      BY <2>9, <2>12, <3>3, SameMapping
    <3>5. ret' = Failure("NO_SPACE")
      <4>1. w.result = Failure("NO_SPACE") \/ w.result.err = "OK"
        BY DEF chain_write, Stored, Success
      <4> QED  BY <2>1, <2>12, <4>1
    <3> HIDE DEF h, w, n, file, off
    <3> QED  BY <2>2, <3>2, <3>4, <3>5, Shared DEF FS!Write, h, file, off
  <2>13. CASE w.result.err = "OK"
    <3>1. Size(disk', ino) <= Backed(disk', ino)
      BY <2>2, <2>9, StoreIs DEF Represented, Readables
    <3>2. /\ NodeAt(disk', ino) = [type |-> "FILE",
                                   data |-> FS!Overwritten(Content(disk, ino), offset, buf, n)]
          /\ n \in 0..Len(buf) /\ offset + n <= NBlocks * BlockSize
      <4>1. n = w.result.n /\ disk' = w.disk
        BY <2>1
      <4>2. Writing(disk, ino, offset, buf, w)
        <5>1. w = chain_write(disk, ino, offset, buf)
          OBVIOUS
        <5> HIDE DEF w
        <5> QED  BY <2>2, <2>4, <2>6, <2>7, <2>9, <2>13, <3>1, <4>1, <5>1, StoreIs DEF Writing
      <4> HIDE DEF w, n
      <4>3. Written(disk, ino, offset, buf, disk', n)
        BY <4>1, <4>2, WrittenNode
      <4> QED  BY <4>3 DEF Written
    <3>3. ASSUME NEW i \in disk.inode_bitmap, i # ino
          PROVE  SameInode(disk, disk', i)
      <4>1. i \in Inodes \ {ino} /\ Backed(disk, i) \in Nat
        BY <3>3, StoreIs, IntactIs
      <4>2. /\ Size(disk', i) = Size(disk, i) /\ Backed(disk', i) = Backed(disk, i)
            /\ \A k \in 0..(Backed(disk, i) - 1) : CellAt(disk', i, k) = CellAt(disk, i, k)
        BY <2>10, <4>1 DEF Kept, Size, Backed
      <4> QED  BY <4>1, <4>2 DEF SameInode
    <3>4. SameDirs(disk, disk')
      BY <2>2, <2>9, <3>3 DEF SameDirs, Dirs
    <3>5. /\ tree' = [tree EXCEPT ![h.path] = NodeAt(disk', ino)]
          /\ HandlesOf(disk', fds) = handles
      BY <2>2, <2>9, <2>11, <3>3, <3>4, StoreIs, FileTree
    <3>6. ret' = Success(n, <<>>)
      BY <2>1, <2>13 DEF chain_write, Stored, Success, Failure
    <3> HIDE DEF n, w
    <3>7. handles' = Moved(handles, fd, off + n)
      BY <2>1, <2>6, <2>11, <3>5, StoreIs, HandleMoved
    <3>8. handles' = [handles EXCEPT ![fd].offset = off + n]
      BY <3>7 DEF Moved
    <3>9. tree' = [tree EXCEPT ![h.path].data = FS!Overwritten(file, off, buf, n)]
      <4> DEFINE new == FS!Overwritten(file, off, buf, n)
      <4>1. tree[h.path] = [type |-> "FILE", data |-> file]
        BY <2>2, <2>3 DEF NodeAt
      <4>2. NodeAt(disk', ino) = [type |-> "FILE", data |-> new]
        BY <2>3, <2>6, <3>2
      <4> HIDE DEF new, file, h
      <4>3. [tree[h.path] EXCEPT !.data = new] = NodeAt(disk', ino)
        BY <4>1, <4>2
      <4> QED  BY <3>5, <4>3 DEF new
    <3>10. n \in 0..Len(buf) /\ off + n <= NBlocks * BlockSize
      BY <2>6, <3>2
    <3> HIDE DEF h, file, off
    <3> QED  BY <2>2, <3>6, <3>8, <3>9, <3>10, Shared DEF FS!Write, h, file, off
  <2> QED  BY <2>12, <2>13
<1> QED  BY <1>1, <1>2


(***************************************************************************)
(* The refinement                                                          *)
(***************************************************************************)
(* FileSystem's assumption on MaxFile holds of this instance of it. *)
LEMMA MaxFileIs == NBlocks * BlockSize \in Nat
  BY RamFSAssumption

LEMMA NextMaps ==
  ASSUME Represented, Represented', Next
  PROVE  FS!Next
<1>1. ASSUME NEW path \in Paths,
             \/ Called("mkdir") /\ ramfs_mkdir(path)
             \/ Called("create") /\ ramfs_create(path)
             \/ Called("rmdir") /\ ramfs_rmdir(path)
             \/ Called("unlink") /\ ramfs_unlink(path)
             \/ Called("stat") /\ ramfs_stat(path)
             \/ \E max \in ListMaxes : Called("list") /\ ramfs_list(path, max)
             \/ \E flags \in FlagSets : Called("open") /\ ramfs_open(path, flags)
      PROVE  FS!Next
  <2>1. path \in FS!Paths /\ \A name : Called(name) <=> FS!Called(name)
    BY Shared DEF Called, FS!Called
  <2>2. CASE Called("mkdir") /\ ramfs_mkdir(path)
    BY <2>1, <2>2, AddMaps DEF FS!Next, FS!Mkdir, ramfs_mkdir
  <2>3. CASE Called("create") /\ ramfs_create(path)
    BY <2>1, <2>3, AddMaps DEF FS!Next, FS!Create, ramfs_create
  <2>4. CASE Called("rmdir") /\ ramfs_rmdir(path)
    BY <2>1, <2>4, RmdirMaps DEF FS!Next
  <2>5. CASE Called("unlink") /\ ramfs_unlink(path)
    BY <2>1, <2>5, UnlinkMaps DEF FS!Next
  <2>6. CASE Called("stat") /\ ramfs_stat(path)
    BY <2>1, <2>6, StatMaps DEF FS!Next
  <2>7. CASE \E max \in ListMaxes : Called("list") /\ ramfs_list(path, max)
    BY <2>1, <2>7, ListMaps DEF FS!Next
  <2>8. CASE \E flags \in FlagSets : Called("open") /\ ramfs_open(path, flags)
    BY <2>1, <2>8, OpenMaps DEF FS!Next
  <2> QED  BY <1>1, <2>2, <2>3, <2>4, <2>5, <2>6, <2>7, <2>8
<1>2. ASSUME NEW fd \in -1..NFds,
             \/ \E count \in ReadCounts : Called("read") /\ ramfs_read(fd, count)
             \/ \E buf \in Buffers : Called("write") /\ ramfs_write(fd, buf)
             \/ \E offset \in SeekOffsets : Called("seek") /\ ramfs_seek(fd, offset)
             \/ Called("close") /\ ramfs_close(fd)
      PROVE  FS!Next
  <2>1. \A name : Called(name) <=> FS!Called(name)
    BY DEF Called, FS!Called
  <2>2. CASE \E count \in ReadCounts : Called("read") /\ ramfs_read(fd, count)
    BY <2>1, <2>2, ReadMaps DEF FS!Next
  <2>3. CASE \E buf \in Buffers : Called("write") /\ ramfs_write(fd, buf)
    BY <2>1, <2>3, WriteMaps DEF FS!Next
  <2>4. CASE \E offset \in SeekOffsets : Called("seek") /\ ramfs_seek(fd, offset)
    BY <2>1, <2>4, SeekMaps DEF FS!Next
  <2>5. CASE Called("close") /\ ramfs_close(fd)
    BY <2>1, <2>5, CloseMaps DEF FS!Next
  <2> QED  BY <1>2, <2>2, <2>3, <2>4, <2>5
<1> QED  BY <1>1, <1>2 DEF Next

(* The formatted store maps to the tree that has "/" only. *)
LEMMA InitMaps ==
  ASSUME MappedInit
  PROVE  FS!Init /\ IInv /\ Mapped
<1>1. IInv /\ Mapped
  BY EmptyDisk DEF MappedInit, Mapped
<1>2. Intact(disk) /\ FdsGood(fds, disk)
  BY <1>1 DEF IInv
<1>3. /\ disk.inode_bitmap = {ROOT_INODE} /\ disk.inodes[ROOT_INODE].type = "DIR"
      /\ fds = [fd \in Fds |-> ClosedFd] /\ call = "init" /\ ret = Done
  <2>1. ROOT_INODE \in Dirs(disk)
    BY <1>2, IntactIs
  <2> QED  BY <2>1 DEF MappedInit, Init, Dirs
<1>4. tree = [p \in {<<>>} |-> FS!Node("DIR")]
  <2> DEFINE t == [p \in {<<>>} |-> FS!Node("DIR")]
  <2>1. \A p \in AbsolutePaths : \A i : Resolves(disk, p, i) => p = <<>> /\ i = ROOT_INODE
    <3> SUFFICES ASSUME NEW p \in AbsolutePaths, NEW i, Resolves(disk, p, i)
                 PROVE  p = <<>> /\ i = ROOT_INODE
      OBVIOUS
    <3>1. i = ROOT_INODE
      BY <1>2, <1>3, Looked
    <3>2. <<>> \in AbsolutePaths /\ Resolves(disk, <<>>, ROOT_INODE)
      BY <1>2, RootPath
    <3> QED  BY <1>2, <3>1, <3>2, OnePath
  <2>2. Resolved(disk) = {<<>>}
    <3>1. <<>> \in Resolved(disk)
      BY <1>2, RootPath, Looked
    <3>2. ASSUME NEW p \in Resolved(disk)
          PROVE  p = <<>>
      <4>1. p \in AbsolutePaths
        BY DEF Resolved
      <4> QED  BY <1>2, <2>1, <4>1, Looked
    <3> QED  BY <3>1, <3>2
  <2>3. NodeAt(disk, ROOT_INODE) = FS!Node("DIR")
    BY <1>3 DEF NodeAt, Content, FS!Node
  <2>4. /\ t = [p \in DOMAIN t |-> t[p]] /\ DOMAIN t = Resolved(disk)
        /\ \A p \in AbsolutePaths : \A i \in disk.inode_bitmap :
             Resolves(disk, p, i) => t[p] = NodeAt(disk, i)
    BY <2>1, <2>2, <2>3
  <2> HIDE DEF t
  <2>5. TreeOf(disk) = t
    BY <1>2, <2>4, TreeFrom
  <2> QED  BY <1>1, <2>5 DEF Mapped, t
<1>5. handles = [fd \in Fds |-> FS!Closed]
  <2>1. handles = [fd \in Fds |-> HandleOf(disk, fds[fd])]
    BY <1>1, HandlesAt DEF Mapped
  <2>2. HandleOf(disk, ClosedFd) = FS!Closed
    BY DEF HandleOf, ClosedFd, FS!Closed, FS!Root
  <2> QED  BY <1>3, <2>1, <2>2
<1> QED  BY <1>1, <1>3, <1>4, <1>5, Shared DEF FS!Init

LEMMA ReadablesIs == SizeIsReadable <=> Readables(disk)
  BY DEF SizeIsReadable, Readables, Size

(* A step keeps the invariant of RamFSProof, and tree and handles stay the
   mapping of the store. *)
LEMMA MappedStep ==
  ASSUME IInv, Mapped, [MappedNext]_<<vars, tree, handles>>
  PROVE  (IInv /\ Mapped)'
<1>1. CASE MappedNext
  <2>1. IInv'
    BY <1>1, NextKeeps DEF MappedNext, CallKeeps, IInv
  <2>2. tree' = TreeOf(disk')
    <3>1. CASE disk' = disk
      BY <1>1, <3>1 DEF MappedNext, Remapped, Mapped
    <3>2. CASE disk' # disk
      BY <1>1, <3>2 DEF MappedNext, Remapped
    <3> QED  BY <3>1, <3>2
  <2>3. handles' = HandlesOf(disk', fds')
    <3>1. CASE disk' = disk /\ fds' = fds
      BY <1>1, <3>1 DEF MappedNext, Remapped, Mapped
    <3>2. CASE ~(disk' = disk /\ fds' = fds)
      BY <1>1, <3>2 DEF MappedNext, Remapped
    <3> QED  BY <3>1, <3>2
  <2> QED  BY <2>1, <2>2, <2>3 DEF Mapped
<1>2. CASE UNCHANGED <<vars, tree, handles>>
  <2>1. UNCHANGED <<disk, fds, call, ret, tree, handles>>
    BY <1>2 DEF vars
  <2> QED  BY <2>1 DEF IInv, Mapped
<1> QED  BY <1>1, <1>2

LEMMA MappedKeeps == MappedSpec => [](IInv /\ Mapped)
<1>1. MappedInit => IInv /\ Mapped
  BY InitMaps
<1>2. IInv /\ Mapped /\ [MappedNext]_<<vars, tree, handles>> => (IInv /\ Mapped)'
  BY MappedStep
<1> QED  BY <1>1, <1>2, PTL DEF MappedSpec

(* One step of the store is one step of FileSystem. *)
LEMMA StepMaps ==
  ASSUME Represented, Represented', [MappedNext]_<<vars, tree, handles>>
  PROVE  [FS!Next]_FS!vars
<1>1. CASE MappedNext
  BY <1>1, NextMaps DEF MappedNext
<1>2. CASE UNCHANGED <<vars, tree, handles>>
  BY <1>2 DEF vars, FS!vars
<1> QED  BY <1>1, <1>2

(* Seen through ramfs.h, the store of ramfs.c is a tree of files: every call
   does to the mapped tree and handles what FileSystem says it may, and
   returns what FileSystem says it may, for any number of inodes, blocks and
   descriptors.  That the bytes below a size can be read (ramfs.c:21-22) is a
   hypothesis: a seek past the end and a write that stores nothing break it
   (run ramfs_size), and no caller of ramfs.c does that. *)
THEOREM Implements == MappedSpec /\ []SizeIsReadable => Refinement
<1>1. MappedInit => FS!Init
  BY InitMaps
<1>2. /\ IInv /\ Mapped /\ SizeIsReadable /\ (IInv /\ Mapped)' /\ SizeIsReadable'
      /\ [MappedNext]_<<vars, tree, handles>>
      => [FS!Next]_FS!vars
  <2> SUFFICES ASSUME IInv, Mapped, SizeIsReadable, (IInv /\ Mapped)', SizeIsReadable',
                      [MappedNext]_<<vars, tree, handles>>
               PROVE  [FS!Next]_FS!vars
    OBVIOUS
  <2>1. Represented /\ Represented'
    BY ReadablesIs DEF Represented, SizeIsReadable, Readables, Size
  <2> QED  BY <2>1, StepMaps
<1> QED  BY <1>1, <1>2, MappedKeeps, PTL DEF MappedSpec, Refinement, FS!Spec

(***************************************************************************)
(* The shell                                                               *)
(***************************************************************************)
(***************************************************************************)
(* Sizes stay readable                                                     *)
(***************************************************************************)
LEMMA ReadablesOn ==
  ASSUME NEW d, Intact(d), Readables(d), NEW e, Intact(e),
         \A i \in e.inode_bitmap : e.inodes[i].type = "FILE" =>
           Size(e, i) = 0 \/ (i \in d.inode_bitmap /\ SameInode(d, e, i))
  PROVE  Readables(e)
<1> SUFFICES ASSUME NEW i \in e.inode_bitmap
             PROVE  Size(e, i) <= Backed(e, i)
  BY DEF Readables
<1>1. i \in Inodes /\ Size(e, i) \in Nat /\ Backed(e, i) \in Nat /\ Size(d, i) \in Nat /\ Backed(d, i) \in Nat
  BY IntactIs
<1>2. CASE e.inodes[i].type = "FILE"
  BY <1>1, <1>2 DEF Readables, SameInode
<1>3. CASE e.inodes[i].type # "FILE"
  <2>1. e.inodes[i].type = "DIR"
    <3>1. e.inodes[i].type \in {"FREE", "FILE", "DIR"}
      BY <1>1, IntactIs, DiskTypes DEF Sound, Types
    <3>2. e.inodes[i].type # "FREE"
      BY <1>1, IntactIs DEF Sound, FreeIsEmpty
    <3> QED  BY <1>3, <3>1, <3>2
  <2> QED  BY <2>1, IntactIs DEF Readable, Dirs
<1> QED  BY <1>2, <1>3

LEMMA SameReadable ==
  ASSUME Represented, Intact(disk'), Same(disk, disk')
  PROVE  Readables(disk')
<1>1. \A i \in disk'.inode_bitmap : i \in disk.inode_bitmap /\ SameInode(disk, disk', i)
  BY DEF Same
<1> QED  BY <1>1, StoreIs, ReadablesOn

LEMMA AddReadable ==
  ASSUME Represented, NEW path \in Paths, NEW type \in {"FILE", "DIR"},
         Return(AddEntry(disk, path, type))
  PROVE  Readables(disk')
<1> DEFINE r == AddEntry(disk, path, type)
<1>1. disk' = r.disk
  BY DEF Return
<1>2. Intact(r.disk) /\ (r.err # "OK" => Same(disk, r.disk))
  BY StoreIs, AddEntryKeeps
<1>3. r.err = "OK" => Readables(r.disk)
  BY AddedMaps
<1> HIDE DEF r
<1>4. r.err # "OK" => Readables(disk')
  BY <1>1, <1>2, SameReadable
<1> QED  BY <1>1, <1>3, <1>4

(* A removal or nothing: the files left are as they were. *)
LEMMA RemovalReadable ==
  ASSUME Represented, NEW parent \in Dirs(disk), NEW target \in disk.inode_bitmap,
         NEW path, Leaf(path) \in Names,
         Entry(disk, parent, Leaf(path), target), \A i \in Nat : ~Live(disk, target, i),
         Return(RemoveEntry(parent, target, path))
  PROVE  Readables(disk')
<1>1. dir_remove(disk, parent, Leaf(path)).err = "OK"
  BY StoreIs, EntryDropped
<1> DEFINE r == dir_remove(disk, parent, Leaf(path))
           e == inode_free(r.disk, target)
<1>2. disk' = e
  BY <1>1 DEF Return, RemoveEntry, Outcome
<1>3. PICK s \in Nat : Live(disk, parent, s) /\ CellAt(disk, parent, s) = Dirent(Leaf(path), target)
  BY DEF Entry
<1>4. CellAt(disk, parent, s).name = Leaf(path) /\ CellAt(disk, parent, s).inode = target
  BY <1>3 DEF Dirent
<1>5. target \in Inodes
  BY StoreIs, IntactIs
<1>6. /\ Intact(e) /\ e.inode_bitmap = disk.inode_bitmap \ {target}
      /\ \A i \in e.inode_bitmap :
           /\ e.inodes[i].type = disk.inodes[i].type
           /\ disk.inodes[i].type = "FILE" => SameInode(disk, e, i)
  BY <1>1, <1>3, <1>4, <1>5, StoreIs, EntryRemoved
<1> HIDE DEF e
<1> QED  BY <1>2, <1>6, StoreIs, ReadablesOn


LEMMA RmdirReadable ==
  ASSUME Represented, NEW path \in Paths, ramfs_rmdir(path)
  PROVE  Readables(disk')
<1> DEFINE parent == path_resolve_parent(disk, path)
           target == dir_find(disk, parent.n, Leaf(path))
           removes == Return(RemoveEntry(parent.n, target.n, path))
<1>1. \/ disk' = disk
      \/ /\ parent.err = "OK" /\ target.err = "OK" /\ disk.inodes[target.n].type = "DIR"
         /\ dir_is_empty(disk, target.n) = "OK" /\ removes
  BY DEF ramfs_rmdir, Return, Outcome
<1>2. parent.err = "OK" /\ target.err = "OK" =>
        /\ path \in AbsolutePaths /\ Resolves(disk, path, target.n) /\ target.n \in disk.inode_bitmap
        /\ Leaf(path) \in Names
        /\ Entry(disk, parent.n, Leaf(path), target.n) /\ parent.n \in Dirs(disk)
  BY TargetIs
<1> HIDE DEF target, parent
<1>3. CASE disk' = disk
  BY <1>3, StoreIs
<1>4. CASE /\ parent.err = "OK" /\ target.err = "OK" /\ disk.inodes[target.n].type = "DIR"
           /\ dir_is_empty(disk, target.n) = "OK" /\ removes
  <2>1. \A i \in Nat : ~Live(disk, target.n, i)
    BY <1>2, <1>4, EmptyIs
  <2> QED  BY <1>2, <1>4, <2>1, RemovalReadable
<1> QED  BY <1>1, <1>3, <1>4

LEMMA UnlinkReadable ==
  ASSUME Represented, NEW path \in Paths, ramfs_unlink(path)
  PROVE  Readables(disk')
<1> DEFINE parent == path_resolve_parent(disk, path)
           target == dir_find(disk, parent.n, Leaf(path))
           removes == Return(RemoveEntry(parent.n, target.n, path))
<1>1. \/ disk' = disk
      \/ /\ parent.err = "OK" /\ target.err = "OK" /\ disk.inodes[target.n].type # "DIR"
         /\ removes
  BY DEF ramfs_unlink, Return, Outcome
<1>2. parent.err = "OK" /\ target.err = "OK" =>
        /\ target.n \in disk.inode_bitmap /\ Leaf(path) \in Names
        /\ Entry(disk, parent.n, Leaf(path), target.n) /\ parent.n \in Dirs(disk)
  BY TargetIs
<1> HIDE DEF target, parent
<1>3. CASE disk' = disk
  BY <1>3, StoreIs
<1>4. CASE /\ parent.err = "OK" /\ target.err = "OK" /\ disk.inodes[target.n].type # "DIR"
           /\ removes
  <2>1. \A i \in Nat : ~Live(disk, target.n, i)
    BY <1>4 DEF Live, Dirs
  <2> QED  BY <1>2, <1>4, <2>1, RemovalReadable
<1> QED  BY <1>1, <1>3, <1>4

(* TRUNC leaves a file of size 0, the others as they were. *)
LEMMA TruncateReadable ==
  ASSUME NEW d, Intact(d), Readables(d), NEW ino \in d.inode_bitmap, d.inodes[ino].type = "FILE",
         NEW e, e = chain_truncate(d, ino)
  PROVE  Intact(e) /\ Readables(e)
<1>1. ino \in Inodes
  BY IntactIs
<1>2. Intact(e) /\ e.inode_bitmap = d.inode_bitmap
  BY FileTruncated
<1>3. Sound(e) /\ Dropped(d, e, ino) /\ e.inodes[ino].size = 0
  BY IntactIs, TruncateKeeps
<1>4. \A i \in Inodes \ {ino} : Untouched(d, e, i)
  BY <1>1, <1>2, <1>3, IntactIs, DroppedCells
<1>5. ASSUME NEW i \in e.inode_bitmap
      PROVE  Size(e, i) = 0 \/ (i \in d.inode_bitmap /\ SameInode(d, e, i))
  <2>1. CASE i = ino
    BY <1>3, <2>1 DEF Size
  <2>2. CASE i # ino
    <3>1. i \in d.inode_bitmap /\ i \in Inodes /\ Backed(d, i) \in Nat
      BY <1>2, IntactIs
    <3>2. Untouched(d, e, i)
      BY <1>4, <2>2, <3>1
    <3> QED  BY <3>1, <3>2 DEF Untouched, SameInode
  <2> QED  BY <2>1, <2>2
<1> QED  BY <1>2, <1>5, ReadablesOn

LEMMA TargetReadable ==
  ASSUME NEW d, Intact(d), Readables(d), NEW target \in d.inode_bitmap, NEW flags,
         OpenTarget(d, target, flags)
  PROVE  Readables(disk')
<1> DEFINE e == chain_truncate(d, target)
<1>1. disk' = d \/ (d.inodes[target].type # "DIR" /\ disk' = e)
  BY DEF OpenTarget
<1>2. CASE disk' = d
  BY <1>2
<1>3. CASE d.inodes[target].type # "DIR" /\ disk' = e
  <2>1. d.inodes[target].type \in {"FREE", "FILE", "DIR"} /\ d.inodes[target].type # "FREE"
    <3>1. target \in Inodes
      BY IntactIs
    <3> QED  BY <3>1, IntactIs, DiskTypes DEF Sound, Types, FreeIsEmpty
  <2>2. Readables(e)
    BY <1>3, <2>1, TruncateReadable
  <2> QED  BY <1>3, <2>2
<1> QED  BY <1>1, <1>2, <1>3

LEMMA OpenReadable ==
  ASSUME Represented, NEW path \in Paths, NEW flags, ramfs_open(path, flags)
  PROVE  Readables(disk')
<1> DEFINE r == path_resolve(disk, path)
           made == AddEntry(disk, path, "FILE")
           again == path_resolve(made.disk, path)
<1>1. \/ r.err = "OK" /\ OpenTarget(disk, r.n, flags)
      \/ disk' = disk
      \/ made.err # "OK" /\ Return(made)
      \/ made.err = "OK" /\ again.err = "OK" /\ OpenTarget(made.disk, again.n, flags)
      \/ made.err = "OK" /\ disk' = made.disk
  BY DEF ramfs_open, Return, Outcome
<1>2. CASE r.err = "OK" /\ OpenTarget(disk, r.n, flags)
  <2>1. r.n \in disk.inode_bitmap
    BY <1>2, StoreIs, LookupIs
  <2> QED  BY <1>2, <2>1, StoreIs, TargetReadable
<1>3. CASE disk' = disk
  BY <1>3, StoreIs
<1>4. CASE made.err # "OK" /\ Return(made)
  BY <1>4, AddReadable
<1>5. made.err = "OK" => Intact(made.disk) /\ Readables(made.disk) /\ path \in Resolved(made.disk)
                         /\ path \in AbsolutePaths
  BY AddedMaps
<1>6. CASE made.err = "OK" /\ again.err = "OK" /\ OpenTarget(made.disk, again.n, flags)
  <2> HIDE DEF made
  <2>1. again.n \in made.disk.inode_bitmap
    BY <1>5, <1>6, Looked
  <2> QED  BY <1>5, <1>6, <2>1, TargetReadable
<1>7. CASE made.err = "OK" /\ disk' = made.disk
  BY <1>5, <1>7
<1> QED  BY <1>1, <1>2, <1>3, <1>4, <1>6, <1>7

(* A write within the chain, or at its end, leaves a size the chain backs. *)
LEMMA WriteReadable ==
  ASSUME NEW d, Intact(d), Readables(d), NEW ino \in d.inode_bitmap, d.inodes[ino].type = "FILE",
         NEW offset \in Nat, offset <= Backed(d, ino), NEW cells, IsData(cells),
         NEW e, e = chain_write(d, ino, offset, cells).disk
  PROVE  Readables(e)
<1> DEFINE w == chain_write(d, ino, offset, cells)
           g == w.disk
           n == w.result.n
<1>1. /\ Sound(g) /\ Kept(d, g, ino)
      /\ w.result.err \in {"OK", "NO_SPACE"} /\ n \in 0..Len(cells)
      /\ Backed(d, ino) <= Backed(g, ino) /\ (n > 0 => offset + n <= Backed(g, ino))
      /\ w.result.err = "OK" => g.inodes[ino].size = Larger(d.inodes[ino].size, offset + n)
      /\ w.result.err # "OK" => g.inodes[ino].size = d.inodes[ino].size /\ n = 0
      /\ \A i \in 0..(Backed(g, ino) - 1) :
           CellAt(g, ino, i) = IF i \in offset..(offset + n - 1) THEN cells[i - offset + 1]
                               ELSE IF i < Backed(d, ino) THEN CellAt(d, ino, i) ELSE Zero
  BY IntactIs, WriteKeeps
<1>2. Intact(e) /\ e.inode_bitmap = d.inode_bitmap
  BY FileWritten
<1>3. e = g
  OBVIOUS
<1> HIDE DEF w, g, n
<1>4. /\ ino \in Inodes /\ Size(d, ino) \in Nat /\ Backed(d, ino) \in Nat /\ Backed(e, ino) \in Nat
      /\ Size(d, ino) <= Backed(d, ino) /\ n \in Nat
  BY <1>1, <1>2, IntactIs DEF Readables, IsData
<1>5. Size(e, ino) <= Backed(e, ino)
  BY <1>1, <1>3, <1>4 DEF Larger, Size
<1>6. ASSUME NEW i \in e.inode_bitmap, i # ino
      PROVE  Size(e, i) <= Backed(e, i)
  <2>1. i \in Inodes \ {ino} /\ i \in d.inode_bitmap
    BY <1>2, <1>6, IntactIs
  <2>2. Size(e, i) = Size(d, i) /\ Backed(e, i) = Backed(d, i)
    BY <1>1, <1>3, <2>1 DEF Kept, Size, Backed
  <2> QED  BY <2>1, <2>2 DEF Readables
<1> QED  BY <1>5, <1>6 DEF Readables


(***************************************************************************)
(* Room for what is written                                                *)
(***************************************************************************)
(* TRUNC frees the blocks of a file that holds something. *)
LEMMA TruncateFrees ==
  ASSUME NEW d, Intact(d), NEW ino \in d.inode_bitmap, Size(d, ino) # 0, Size(d, ino) <= Backed(d, ino)
  PROVE  FreeBlocks(chain_truncate(d, ino)) # {}
<1> USE RamFSAssumption
<1> DEFINE e == chain_truncate(d, ino)
           len == ChainLength(d, ino)
           b == Chain(d, ino)[0]
<1>1. ino \in Inodes /\ Size(d, ino) \in Nat /\ Sound(d)
  BY IntactIs
<1>2. /\ len \in 0..NBlocks
      /\ \A k \in 0..NBlocks : Chain(d, ino)[k] # RAMFS_END <=> k < len
  BY <1>1, Lengths DEF Sound, Ends
<1>3. len > 0
  <2>1. Backed(d, ino) = len * BlockSize
    BY DEF Backed
  <2>2. len # 0
    BY <1>1, <2>1
  <2> QED  BY <1>2, <2>2
<1>4. b \in Blocks
  <2>1. b \in Links
    BY <1>1, ChainIsChain DEF Sound, IsChain
  <2> QED  BY <1>2, <1>3, <2>1, EndNotBlock
<1>5. b \in ChainBlocks(d, ino)
  BY <1>1, <1>4, ChainFreeIs
<1>6. e.block_bitmap = d.block_bitmap \ ChainBlocks(d, ino)
  BY <1>1, TruncateKeeps DEF Dropped
<1> HIDE DEF e, b
<1>7. b \in FreeBlocks(e)
  BY <1>4, <1>5, <1>6 DEF FreeBlocks
<1> QED  BY <1>7 DEF e

(* With a free block, a write to the start of a file stores something. *)
LEMMA WriteStores ==
  ASSUME NEW d, Sound(d), FreeBlocks(d) # {}, NEW ino \in d.inode_bitmap,
         NEW cells, IsData(cells), Len(cells) # 0
  PROVE  chain_write(d, ino, 0, cells).result.n > 0
<1> USE RamFSAssumption
<1> DEFINE len == ChainLength(d, ino)
           want == BlocksTo(0, Len(cells)) - len
           k == Larger(0, want)
           f == Extended(d, ino, k)
           w == chain_write(d, ino, 0, cells)
<1>1. ino \in Inodes /\ len \in Nat
  <2>1. ino \in Inodes
    BY DiskTypes DEF Sound, InodeBitmaps
  <2> QED  BY <2>1, Lengths DEF Sound, Ends
<1>2. Len(cells) \in Nat /\ Len(cells) > 0
  BY DEF IsData
<1>3. k \in Nat /\ (len = 0 => k # 0)
  <2>1. (0 + Len(cells) - 1) \div BlockSize \in Nat
    <3>1. 0 + Len(cells) - 1 \in Nat
      BY <1>2
    <3> QED  BY <3>1, Division
  <2>2. BlocksTo(0, Len(cells)) = (0 + Len(cells) - 1) \div BlockSize + 1
    BY <1>2 DEF BlocksTo
  <2> HIDE DEF len
  <2> QED  BY <1>1, <2>1, <2>2 DEF Larger
<1>4. w = IF ChainLength(f, ino) < 0 \div BlockSize
          THEN [disk |-> f, result |-> Failure("NO_SPACE")] ELSE Stored(f, ino, 0, cells)
  BY DEF chain_write
<1> HIDE DEF k
<1>5. Sound(f) /\ Grown(d, f, ino)
  BY <1>3, ExtendedKeeps
<1>6. len = 0 => ChainLength(f, ino) > len
  BY <1>3, ExtendedGrows
<1> HIDE DEF f
<1>7. ChainLength(f, ino) \in Nat /\ ChainLength(f, ino) > 0 /\ ino \in f.inode_bitmap
  <2>1. ChainLength(f, ino) \in Nat /\ len <= ChainLength(f, ino) /\ ino \in f.inode_bitmap
    BY <1>1, <1>5, Lengths DEF Sound, Ends, Grown
  <2> HIDE DEF len
  <2> QED  BY <1>1, <1>6, <2>1
<1>8. w = Stored(f, ino, 0, cells)
  <2>1. 0 \div BlockSize = 0
    <3>1. (BlockSize * 0 + 0) \div BlockSize = 0
      BY DivisionIs
    <3> QED  BY <3>1
  <2> QED  BY <1>4, <1>7, <2>1
<1>9. Backed(f, ino) \in Nat /\ Backed(f, ino) > 0
  <2>1. BlockSize * 0 + BlockSize <= BlockSize * ChainLength(f, ino)
    BY <1>7, Product
  <2>2. Backed(f, ino) = BlockSize * ChainLength(f, ino)
    BY <1>7 DEF Backed
  <2> QED  BY <1>1, <1>5, <2>1, <2>2, BackedIsNat
<1> HIDE DEF w
<1>10. w.result.n = Smaller(Len(cells), Larger(0, Backed(f, ino) - 0))
  BY <1>8 DEF Stored, Success
<1> HIDE DEF w
<1>11. w.result.n > 0
  BY <1>2, <1>9, <1>10 DEF Smaller, Larger
<1> QED  BY <1>11 DEF w

(***************************************************************************)
(* Data                                                                    *)
(***************************************************************************)
LEMMA NodeData ==
  ASSUME NEW d, Intact(d), Readables(d), NEW p \in Resolved(d)
  PROVE  TreeOf(d)[p].data \in Seq(Contents)
<1>1. PICK i : Resolves(d, p, i) /\ p \in AbsolutePaths
  BY Looked DEF Resolved
<1>2. i \in d.inode_bitmap /\ i \in Inodes /\ TreeOf(d)[p] = NodeAt(d, i)
  BY <1>1, Looked, TreeIs
<1>3. CASE d.inodes[i].type = "DIR"
  BY <1>2, <1>3 DEF NodeAt, Content
<1>4. CASE d.inodes[i].type # "DIR"
  <2>1. d.inodes[i].type \in {"FREE", "FILE", "DIR"} /\ d.inodes[i].type # "FREE"
    BY <1>2, IntactIs, DiskTypes DEF Sound, Types, FreeIsEmpty
  <2>2. Content(d, i) \in Seq(Contents)
    BY <1>2, <1>4, <2>1, ContentIs DEF Readables
  <2> QED  BY <1>2, <2>2 DEF NodeAt
<1> QED  BY <1>3, <1>4

(* A sequence read in two pieces. *)
LEMMA Pieces ==
  ASSUME NEW S, NEW s \in Seq(S), NEW a \in Nat, NEW n \in Nat, a + n <= Len(s)
  PROVE  /\ SubSeq(s, 1, a) \o SubSeq(s, a + 1, a + n) = SubSeq(s, 1, a + n)
         /\ SubSeq(s, 1, a) \in Seq(S) /\ SubSeq(s, a + 1, a + n) \in Seq(S)
<1> DEFINE p == SubSeq(s, 1, a)
           q == SubSeq(s, a + 1, a + n)
           r == SubSeq(s, 1, a + n)
<1>1. Len(s) \in Nat /\ \A i \in 1..Len(s) : s[i] \in S
  BY LenProperties, ElementOfSeq
<1>2. p \in Seq(S) /\ Len(p) = a /\ \A i \in 1..a : p[i] = s[i]
  <2>1. /\ p \in Seq(S) /\ Len(p) = IF 1 <= a THEN a - 1 + 1 ELSE 0
        /\ \A i \in 1..(a - 1 + 1) : p[i] = s[1 + i - 1]
    <3>1. \A i \in 1..a : s[i] \in S
      BY <1>1
    <3> QED  BY <3>1, SubSeqProperties
  <2> HIDE DEF p
  <2>2. a - 1 + 1 = a /\ \A i \in 1..a : 1 + i - 1 = i
    OBVIOUS
  <2> QED  BY <2>1, <2>2
<1>3. q \in Seq(S) /\ Len(q) = n /\ \A i \in 1..n : q[i] = s[a + i]
  <2>1. /\ q \in Seq(S) /\ Len(q) = IF a + 1 <= a + n THEN a + n - (a + 1) + 1 ELSE 0
        /\ \A i \in 1..(a + n - (a + 1) + 1) : q[i] = s[a + 1 + i - 1]
    <3>1. \A i \in (a + 1)..(a + n) : s[i] \in S
      BY <1>1
    <3> QED  BY <3>1, SubSeqProperties
  <2> HIDE DEF q
  <2>2. a + n - (a + 1) + 1 = n /\ \A i \in 1..n : a + 1 + i - 1 = a + i
    OBVIOUS
  <2> QED  BY <2>1, <2>2
<1>4. r \in Seq(S) /\ Len(r) = a + n /\ \A i \in 1..(a + n) : r[i] = s[i]
  <2>1. /\ r \in Seq(S) /\ Len(r) = IF 1 <= a + n THEN a + n - 1 + 1 ELSE 0
        /\ \A i \in 1..(a + n - 1 + 1) : r[i] = s[1 + i - 1]
    <3>1. \A i \in 1..(a + n) : s[i] \in S
      BY <1>1
    <3> QED  BY <3>1, SubSeqProperties
  <2> HIDE DEF r
  <2>2. a + n - 1 + 1 = a + n /\ \A i \in 1..(a + n) : 1 + i - 1 = i
    OBVIOUS
  <2> QED  BY <2>1, <2>2
<1> HIDE DEF p, q, r
<1>5. /\ p \o q \in Seq(S) /\ Len(p \o q) = a + n
      /\ \A i \in 1..(a + n) : (p \o q)[i] = IF i <= a THEN p[i] ELSE q[i - a]
  BY <1>2, <1>3, ConcatProperties
<1> DEFINE pq == p \o q
<1> HIDE DEF pq
<1>6. \A i \in 1..(a + n) : pq[i] = r[i]
  <2>1. /\ \A i \in 1..(a + n) : pq[i] = IF i <= a THEN p[i] ELSE q[i - a]
        /\ \A i \in 1..a : p[i] = s[i]
        /\ \A i \in 1..n : q[i] = s[a + i]
        /\ \A i \in 1..(a + n) : r[i] = s[i]
    BY <1>2, <1>3, <1>4, <1>5 DEF pq
  <2> SUFFICES ASSUME NEW i \in 1..(a + n)
               PROVE  pq[i] = r[i]
    OBVIOUS
  <2>2. CASE i <= a
    <3>1. i \in 1..a
      BY <2>2
    <3> QED  BY <2>1, <2>2, <3>1
  <2>3. CASE ~(i <= a)
    <3>1. i - a \in 1..n /\ a + (i - a) = i
      BY <2>3
    <3>2. q[i - a] = s[a + (i - a)]
      BY <2>1, <3>1
    <3>3. pq[i] = q[i - a]
      BY <2>1, <2>3
    <3>4. q[i - a] = s[i]
      BY <3>1, <3>2
    <3> QED  BY <2>1, <3>3, <3>4
  <2> QED  BY <2>2, <2>3
<1> QED  BY <1>2, <1>3, <1>4, <1>5, <1>6, SeqEqual DEF p, q, r, pq


(***************************************************************************)
(* The open of a command                                                   *)
(***************************************************************************)
LEMMA OpenIs ==
  ASSUME Represented
  PROVE  /\ DOMAIN handles = Fds
         /\ \A fd \in Fds : handles[fd].open <=> fds[fd].in_use
<1>1. handles = [fd \in Fds |-> HandleOf(disk, fds[fd])]
  BY StoreIs, HandlesAt
<1>2. DOMAIN handles = Fds
  BY <1>1
<1>3. ASSUME NEW fd \in Fds
      PROVE  handles[fd].open <=> fds[fd].in_use
  BY <1>3, DescriptorIs, Shared DEF fd_check
<1> QED  BY <1>2, <1>3

(* With TRUNC, an open of a file that holds something leaves a free block. *)
LEMMA OpenFrees ==
  ASSUME Represented, NEW path \in Paths, NEW flags, "TRUNC" \in flags, ramfs_open(path, flags),
         ret'.err = "OK", path \in DOMAIN tree, tree[path].data # <<>>
  PROVE  FreeBlocks(disk') # {}
<1> DEFINE r == path_resolve(disk, path)
           ino == r.n
<1>1. r.err = "OK" /\ ino \in disk.inode_bitmap /\ tree[path] = NodeAt(disk, ino)
  BY StoreIs, LookupIs
<1>2. OpenTarget(disk, ino, flags)
  BY <1>1 DEF ramfs_open
<1> HIDE DEF ino
<1>3. disk.inodes[ino].type # "DIR" /\ disk' = chain_truncate(disk, ino)
  BY <1>2 DEF OpenTarget, Failure
<1>4. disk.inodes[ino].type = "FILE"
  <2>1. disk.inodes[ino].type \in {"FREE", "FILE", "DIR"} /\ disk.inodes[ino].type # "FREE"
    <3>1. ino \in Inodes
      BY <1>1, StoreIs, IntactIs
    <3> QED  BY <1>1, <3>1, StoreIs, IntactIs, DiskTypes DEF Sound, Types, FreeIsEmpty
  <2> QED  BY <1>3, <2>1
<1>5. Size(disk, ino) <= Backed(disk, ino)
  BY <1>1, StoreIs DEF Readables
<1>6. Size(disk, ino) # 0
  <2> DEFINE c == Content(disk, ino)
  <2>1. c # <<>>
    BY <1>1 DEF NodeAt
  <2>2. c \in Seq(Contents) /\ Len(c) = Size(disk, ino)
    BY <1>1, <1>4, <1>5, StoreIs, ContentIs
  <2> HIDE DEF c
  <2>3. Len(c) # 0
    BY <2>1, <2>2, EmptySeq
  <2> QED  BY <2>2, <2>3
<1> QED  BY <1>1, <1>3, <1>5, <1>6, StoreIs, TruncateFrees

Alone(h, fd) == \A other \in Fds : h[other].open <=> other = fd

(* An open that succeeds when nothing is open: the one handle that is open
   then is on the path, at its start, and TRUNC has emptied the file. *)
LEMMA OpenHolds ==
  ASSUME Represented, Represented', NEW path \in Paths, NEW flags \in FlagSets, "APPEND" \notin flags,
         ramfs_open(path, flags), \A fd \in Fds : ~handles[fd].open, ret'.err = "OK"
  PROVE  /\ ret'.n \in Fds /\ Alone(handles', ret'.n) /\ path \in DOMAIN tree'
         /\ handles'[ret'.n].path = path /\ handles'[ret'.n].offset = 0
         /\ handles'[ret'.n].flags = flags
         /\ "TRUNC" \in flags => tree'[path].data = <<>>
<1>1. FS!Open(path, flags)
  BY OpenMaps
<1>2. PICK t : path \in DOMAIN t /\ FS!Attach(t, path, flags)
  <2>1. CASE FS!LookupError(path) = "OK" /\ FS!Attach(tree, path, flags)
    <3>1. path \in DOMAIN tree
      BY <2>1, StoreIs, LookupIs
    <3> QED  BY <2>1, <3>1
  <2>2. CASE FS!LookupError(path) # "OK" /\ ret' = Failure(FS!LookupError(path))
    BY <2>2 DEF Failure
  <2>3. CASE FS!Attach(FS!Grown(path, "FILE"), path, flags)
    <3>1. path \in DOMAIN FS!Grown(path, "FILE")
      BY DEF FS!Grown
    <3> QED  BY <2>3, <3>1
  <2>4. CASE ret' = Failure(IF FS!AddError(path) = "OK" THEN "NO_SPACE" ELSE FS!AddError(path))
    BY <2>4 DEF Failure
  <2> QED  BY <1>1, <2>1, <2>2, <2>3, <2>4, Shared DEF FS!Open
<1> DEFINE fd == MinOf(FS!FreeFds)
           node == IF "TRUNC" \in flags THEN FS!Node("FILE") ELSE t[path]
           h == [open |-> TRUE, path |-> path, flags |-> flags,
                 offset |-> IF "APPEND" \in flags THEN Len(node.data) ELSE 0]
<1>3. /\ FS!FreeFds # {} /\ tree' = [t EXCEPT ![path] = node]
      /\ handles' = [handles EXCEPT ![fd] = h] /\ ret' = Success(fd, <<>>)
  BY <1>2, Shared DEF FS!Attach, Failure
<1>4. fd \in Fds
  <2>1. FS!FreeFds \subseteq Fds /\ FS!FreeFds \in SUBSET Nat
    BY Shared DEF FS!FreeFds, Fds
  <2> QED  BY <1>3, <2>1, MinIsThere
<1>5. "TRUNC" \in flags => node.data = <<>>
  BY Shared
<1>6. tree'[path] = node /\ path \in DOMAIN tree'
  BY <1>2, <1>3
<1>7. h.open /\ h.path = path /\ h.flags = flags /\ h.offset = 0
  OBVIOUS
<1> HIDE DEF fd, node, h
<1>8. handles'[fd] = h /\ \A other \in Fds : other # fd => handles'[other] = handles[other]
  <2>1. DOMAIN handles = Fds
    BY OpenIs
  <2> QED  BY <1>3, <1>4, <2>1
<1>9. ret'.n = fd
  BY <1>3 DEF Success
<1> QED  BY <1>4, <1>5, <1>6, <1>7, <1>8, <1>9 DEF Alone


(***************************************************************************)
(* The invariant                                                           *)
(***************************************************************************)
(* A command as a record, field by field. *)
IsCommand(c) ==
  /\ c = [name |-> c.name, path |-> c.path, text |-> c.text, fd |-> c.fd,
          over |-> c.over, err |-> c.err, moved |-> c.moved, had |-> c.had]
  /\ c.over \in BOOLEAN

(* cat has printed the file up to the offset of its descriptor; write has an
   empty file and, if the file held something, a free block to put its text in. *)
Unfinished(c, h, data, e) ==
  \/ /\ c.name = "cat" /\ c.text = <<>> /\ h.flags = {"READ"}
     /\ h.offset \in 0..Len(data) /\ c.moved = SubSeq(data, 1, h.offset)
  \/ /\ c.name = "write" /\ c.text # <<>>
     /\ h.flags = {"WRITE", "CREATE", "TRUNC"} /\ h.offset = 0 /\ data = <<>>
     /\ c.had # <<>> => FreeBlocks(e) # {}

Finished(c, data) ==
  /\ c.moved = data
  /\ c.err = "OK"
  /\ c.had # <<>> /\ c.text # <<>> => c.moved # <<>>

(* The command c has one descriptor, on its path, and nothing else is open. *)
Holds(c, t, hs, e) ==
  /\ IsCommand(c)
  /\ c.name \in {"cat", "write"} /\ c.err = "OK" /\ c.fd \in Fds /\ c.text \in Texts \cup {<<>>}
  /\ Alone(hs, c.fd) /\ hs[c.fd].path = c.path /\ c.path \in DOMAIN t
  /\ IF c.over THEN Finished(c, t[c.path].data) ELSE Unfinished(c, hs[c.fd], t[c.path].data, e)

SInv ==
  /\ Represented
  /\ AtPrompt => NothingLeftOpen
  /\ ~AtPrompt => Holds(command, tree, handles, disk)

LEMMA StoreIsNext ==
  ASSUME Represented'
  PROVE  /\ Intact(disk') /\ Readables(disk') /\ tree' = TreeOf(disk')
         /\ handles' = HandlesOf(disk', fds')
         /\ \A p \in DOMAIN tree' : tree'[p].data \in Seq(Contents)
<1>1. /\ Intact(disk') /\ Readables(disk') /\ tree' = TreeOf(disk')
      /\ handles' = HandlesOf(disk', fds')
  BY DEF Represented, IInv, Mapped, Readables, Size
<1>2. DOMAIN tree' = Resolved(disk')
  BY <1>1, TreeIs
<1> QED  BY <1>1, <1>2, NodeData

LEMMA Whole ==
  ASSUME NEW S, NEW s \in Seq(S)
  PROVE  SubSeq(s, 1, Len(s)) = s /\ SubSeq(s, 1, 0) = <<>> /\ Len(s) \in Nat
<1> DEFINE n == Len(s)
           r == SubSeq(s, 1, n)
           z == SubSeq(s, 1, 0)
<1>1. n \in Nat /\ \A i \in 1..n : s[i] \in S
  BY LenProperties, ElementOfSeq
<1>2. r \in Seq(S) /\ Len(r) = n /\ \A i \in 1..n : r[i] = s[i]
  <2>1. /\ r \in Seq(S) /\ Len(r) = IF 1 <= n THEN n - 1 + 1 ELSE 0
        /\ \A i \in 1..(n - 1 + 1) : r[i] = s[1 + i - 1]
    BY <1>1, SubSeqProperties
  <2> HIDE DEF r
  <2>2. n - 1 + 1 = n /\ \A i \in 1..n : 1 + i - 1 = i
    BY <1>1
  <2> QED  BY <1>1, <2>1, <2>2
<1>3. z \in Seq(S) /\ Len(z) = 0
  <2>1. \A i \in 1..0 : s[i] \in S
    OBVIOUS
  <2>2. z \in Seq(S) /\ Len(z) = IF 1 <= 0 THEN 0 - 1 + 1 ELSE 0
    BY <2>1, SubSeqProperties
  <2> QED  BY <2>2
<1> HIDE DEF r, z
<1>4. r = s
  BY <1>1, <1>2, SeqEqual
<1>5. z = <<>>
  BY <1>3, EmptySeq
<1> QED  BY <1>1, <1>4, <1>5 DEF r, z

(* A write at the start of a file keeps sizes readable, and stores something
   when a block is free. *)
LEMMA WriteAtStart ==
  ASSUME Represented, NEW fd \in Fds, handles[fd].offset = 0, "APPEND" \notin handles[fd].flags,
         NEW buf \in Buffers, ramfs_write(fd, buf)
  PROVE  /\ Readables(disk')
         /\ FreeBlocks(disk) # {} /\ buf # <<>> /\ handles[fd].open /\ "WRITE" \in handles[fd].flags
              => ret'.n > 0
<1>1. CASE ~(fd_check(fd) /\ "WRITE" \in fds[fd].flags)
  <2>1. disk' = disk
    BY <1>1 DEF ramfs_write, BadFd, Return, Outcome
  <2>2. ~(handles[fd].open /\ "WRITE" \in handles[fd].flags)
    BY <1>1, DescriptorIs, Shared DEF FS!Usable
  <2> QED  BY <2>1, <2>2, StoreIs
<1>2. CASE fd_check(fd) /\ "WRITE" \in fds[fd].flags
  <2> DEFINE ino == fds[fd].inode
             w == chain_write(disk, ino, 0, buf)
  <2>1. /\ fds[fd].offset = 0 /\ "APPEND" \notin fds[fd].flags
        /\ ino \in disk.inode_bitmap /\ disk.inodes[ino].type = "FILE"
    BY <1>2, DescriptorIs
  <2>2. disk' = w.disk /\ ret' = w.result
    BY <1>2, <2>1 DEF ramfs_write
  <2>3. IsData(buf)
    <3>1. buf \in Seq(Bytes)
      BY ApiAssumption
    <3>2. Len(buf) \in Nat /\ \A k \in 1..Len(buf) : buf[k] \in Bytes
      BY <3>1, LenProperties, ElementOfSeq
    <3> QED  BY <3>2 DEF IsData, Contents, Cells
  <2>4. buf # <<>> => Len(buf) # 0
    <3>1. buf \in Seq(Bytes)
      BY ApiAssumption
    <3> QED  BY <3>1, EmptySeq
  <2> HIDE DEF ino
  <2>5. Backed(disk, ino) \in Nat
    BY <2>1, StoreIs, IntactIs
  <2>6. Readables(disk')
    BY <2>1, <2>2, <2>3, <2>5, StoreIs, WriteReadable
  <2>7. FreeBlocks(disk) # {} /\ buf # <<>> => ret'.n > 0
    BY <2>1, <2>2, <2>3, <2>4, StoreIs, IntactIs, WriteStores
  <2> QED  BY <2>6, <2>7
<1> QED  BY <1>1, <1>2

(* The calls a command makes are calls of the store. *)
LEMMA ShellCalls ==
  ASSUME SInv, shell_execute_command
  PROVE  Next /\ Readables(disk')
<1> USE ShellAssumption
<1>1. Represented
  BY DEF SInv
<1>2. ASSUME NEW path \in Paths,
             \/ cmd_mkdir(path) \/ cmd_rmdir(path) \/ cmd_touch(path)
             \/ cmd_rm(path) \/ cmd_stat(path) \/ cmd_ls(path)
      PROVE  Next /\ Readables(disk')
  <2>1. CASE Called("mkdir") /\ ramfs_mkdir(path)
    BY <1>1, <2>1, AddReadable DEF Next, ramfs_mkdir
  <2>2. CASE Called("create") /\ ramfs_create(path)
    BY <1>1, <2>2, AddReadable DEF Next, ramfs_create
  <2>3. CASE Called("rmdir") /\ ramfs_rmdir(path)
    BY <1>1, <2>3, RmdirReadable DEF Next
  <2>4. CASE Called("unlink") /\ ramfs_unlink(path)
    BY <1>1, <2>4, UnlinkReadable DEF Next
  <2>5. CASE Called("stat") /\ ramfs_stat(path)
    <3>1. disk' = disk
      BY <2>5 DEF ramfs_stat
    <3> QED  BY <1>1, <2>5, <3>1, StoreIs DEF Next
  <2>6. CASE Called("list") /\ ramfs_list(path, LsMax)
    <3>1. disk' = disk
      BY <2>6 DEF ramfs_list
    <3> QED  BY <1>1, <2>6, <3>1, StoreIs DEF Next
  <2> QED  BY <1>2, <2>1, <2>2, <2>3, <2>4, <2>5, <2>6
           DEF cmd_mkdir, cmd_rmdir, cmd_touch, cmd_rm, cmd_stat, cmd_ls, OneCall
<1>3. ASSUME NEW path \in Paths, cmd_cat(path) \/ \E text \in Texts : cmd_write(path, text)
      PROVE  Next /\ Readables(disk')
  <2>1. PICK flags \in FlagSets : Called("open") /\ ramfs_open(path, flags)
    BY <1>3 DEF cmd_cat, cmd_write, Opens
  <2> QED  BY <1>1, <2>1, OpenReadable DEF Next
<1>4. command.fd \in Fds => command.fd \in -1..NFds
  BY ApiAssumption DEF Fds
<1>5. CASE Reads
  <2>1. ~AtPrompt
    BY <1>5 DEF Reads, AtPrompt, Prompt
  <2>2. command.fd \in Fds
    BY <2>1 DEF SInv, Holds
  <2>3. disk' = disk
    BY <1>5 DEF Reads, ramfs_read, BadFd, Return, Outcome
  <2> QED  BY <1>1, <1>4, <1>5, <2>2, <2>3, StoreIs DEF Reads, Next
<1>6. CASE Writes
  <2>1. ~AtPrompt
    BY <1>6 DEF Writes, AtPrompt, Prompt
  <2>2. Holds(command, tree, handles, disk) /\ command.fd \in Fds /\ ~command.over
    BY <1>6, <2>1 DEF SInv, Holds, Writes
  <2>3. /\ command.text # <<>> /\ handles[command.fd].offset = 0
        /\ "APPEND" \notin handles[command.fd].flags
    BY <1>6, <2>2 DEF Holds, Unfinished, Writes
  <2>4. command.text \in Buffers
    BY <2>2, <2>3 DEF Holds
  <2>5. Next
    BY <1>4, <1>6, <2>2, <2>4 DEF Writes, Next
  <2>6. Readables(disk')
    BY <1>1, <1>6, <2>2, <2>3, <2>4, WriteAtStart DEF Writes
  <2> QED  BY <2>5, <2>6
<1>7. CASE Closes
  <2>1. command.fd \in Fds
    BY <1>7 DEF SInv, Holds, Closes
  <2>2. disk' = disk
    BY <1>7 DEF Closes, ramfs_close, BadFd, Return, Outcome
  <2> QED  BY <1>1, <1>4, <1>7, <2>1, <2>2, StoreIs DEF Closes, Next
<1> QED  BY <1>2, <1>3, <1>5, <1>6, <1>7 DEF shell_execute_command


(***************************************************************************)
(* Each step of a command keeps the invariant                              *)
(***************************************************************************)
LEMMA OneCallKeeps ==
  ASSUME SInv, Represented', AtPrompt, UNCHANGED <<command, fds>>
  PROVE  SInv'
<1>1. NothingLeftOpen
  BY DEF SInv
<1> QED  BY <1>1 DEF SInv, AtPrompt, NothingLeftOpen

LEMMA OpensKeep ==
  ASSUME SInv, Represented', NEW path \in Paths, NEW name, NEW text \in Texts \cup {<<>>}, NEW flags,
         \/ name = "cat" /\ text = <<>> /\ flags = {"READ"}
         \/ name = "write" /\ flags = {"WRITE", "CREATE", "TRUNC"},
         Opens(name, path, text, flags)
  PROVE  SInv'
<1> USE ShellAssumption
<1>1. Represented /\ AtPrompt /\ NothingLeftOpen /\ ramfs_open(path, flags)
  BY DEF SInv, Opens
<1>2. flags \in FlagSets /\ "APPEND" \notin flags
  OBVIOUS
<1>3. CASE ret'.err # "OK"
  <2>1. fds' = fds
    BY <1>1, <1>3 DEF ramfs_open, OpenTarget, Return, Success
  <2>2. command' = Prompt
    BY <1>3 DEF Opens
  <2> QED  BY <1>1, <2>1, <2>2 DEF SInv, AtPrompt, NothingLeftOpen
<1>4. CASE ret'.err = "OK"
  <2> DEFINE c == [name |-> name, path |-> path, text |-> text, fd |-> ret'.n,
                   over |-> name = "write" /\ text = <<>>, err |-> "OK", moved |-> <<>>,
                   had |-> IF path \in DOMAIN tree THEN tree[path].data ELSE <<>>]
             fd == ret'.n
             data == tree'[path].data
  <2>1. command' = c
    BY <1>4 DEF Opens, Prompt
  <2>2. \A other \in Fds : ~handles[other].open
    BY <1>1, OpenIs DEF NothingLeftOpen
  <2>3. /\ fd \in Fds /\ Alone(handles', fd) /\ path \in DOMAIN tree'
        /\ handles'[fd].path = path /\ handles'[fd].offset = 0 /\ handles'[fd].flags = flags
        /\ "TRUNC" \in flags => data = <<>>
    BY <1>1, <1>2, <1>4, <2>2, OpenHolds
  <2>4. data \in Seq(Contents)
    BY <2>3, StoreIsNext
  <2>5. /\ IsCommand(c) /\ c.name = name /\ c.name \in {"cat", "write"} /\ c.err = "OK" /\ c.fd = fd
        /\ c.text = text /\ c.path = path /\ c.moved = <<>> /\ (c.over <=> name = "write" /\ text = <<>>)
        /\ c.had # <<>> => path \in DOMAIN tree /\ tree[path].data # <<>>
    BY DEF IsCommand
  <2>6. "TRUNC" \in flags /\ c.had # <<>> => FreeBlocks(disk') # {}
    BY <1>1, <1>4, <2>5, OpenFrees
  <2> HIDE DEF c, fd, data
  <2>7. ~(AtPrompt')
    BY <2>1, <2>5 DEF AtPrompt, Prompt
  <2>8. CASE c.over
    <3>1. Finished(c, data)
      BY <2>3, <2>5, <2>8 DEF Finished
    <3> QED  BY <2>1, <2>3, <2>5, <2>7, <2>8, <3>1 DEF SInv, Holds, data
  <2>9. CASE ~c.over
    <3>1. Unfinished(c, handles'[fd], data, disk')
      <4>1. CASE name = "cat"
        <5>1. SubSeq(data, 1, 0) = <<>> /\ Len(data) \in Nat
          BY <2>4, Whole
        <5> QED  BY <2>3, <2>5, <4>1, <5>1 DEF Unfinished
      <4>2. CASE name = "write"
        BY <2>3, <2>5, <2>6, <2>9, <4>2 DEF Unfinished
      <4> QED  BY <4>1, <4>2
    <3> QED  BY <2>1, <2>3, <2>5, <2>7, <2>9, <3>1 DEF SInv, Holds, data
  <2> QED  BY <2>8, <2>9
<1> QED  BY <1>3, <1>4

LEMMA ClosesKeep ==
  ASSUME SInv, Represented', Closes
  PROVE  SInv'
<1>1. /\ Represented /\ command.fd \in Fds /\ Alone(handles, command.fd)
      /\ ramfs_close(command.fd) /\ command' = Prompt
  BY DEF SInv, Holds, Closes
<1>2. \A fd \in Fds : fds[fd].in_use <=> fd = command.fd
  BY <1>1, OpenIs DEF Alone
<1>3. fds' = [fds EXCEPT ![command.fd] = ClosedFd] /\ fds \in [Fds -> FdRecords]
  BY <1>1, <1>2, StoreIs DEF ramfs_close, fd_check
<1>4. \A fd \in Fds : ~fds'[fd].in_use
  BY <1>1, <1>2, <1>3 DEF ClosedFd
<1> QED  BY <1>1, <1>4 DEF SInv, AtPrompt, NothingLeftOpen


MovedOn(c, m, err, over) == [c EXCEPT !.moved = m, !.err = err, !.over = over]

LEMMA CommandMoves ==
  ASSUME NEW c, IsCommand(c), NEW m, NEW over \in BOOLEAN, NEW err,
         NEW e, e = MovedOn(c, m, err, over)
  PROVE  /\ IsCommand(e) /\ e.name = c.name /\ e.path = c.path /\ e.text = c.text /\ e.fd = c.fd
         /\ e.had = c.had /\ e.over = over /\ e.err = err /\ e.moved = m
<1>1. e = [name |-> c.name, path |-> c.path, text |-> c.text, fd |-> c.fd,
           over |-> over, err |-> err, moved |-> m, had |-> c.had]
  BY DEF IsCommand, MovedOn
<1> QED  BY <1>1 DEF IsCommand

LEMMA ReadsKeep ==
  ASSUME SInv, Represented', Reads
  PROVE  SInv'
<1> USE ShellAssumption
<1> DEFINE c == command
           fd == c.fd
           h == handles[fd]
           data == tree[c.path].data
           o == h.offset
           n == Smaller(CatBuf, Larger(0, Len(data) - o))
           m == c.moved \o ret'.data
           e == [c EXCEPT !.moved = m, !.over = (ret'.n <= 0)]
<1>1. ~AtPrompt /\ Represented /\ ramfs_read(fd, CatBuf) /\ command' = e
  BY DEF SInv, Reads, AtPrompt, Prompt
<1>2. Holds(c, tree, handles, disk) /\ c.name = "cat" /\ ~c.over /\ fd \in Fds
  BY <1>1 DEF SInv, Reads, Holds
<1>3. /\ c.text = <<>> /\ h.flags = {"READ"} /\ o \in 0..Len(data) /\ c.moved = SubSeq(data, 1, o)
      /\ Alone(handles, fd) /\ h.path = c.path /\ h.open /\ c.path \in DOMAIN tree /\ c.err = "OK"
  BY <1>2 DEF Holds, Unfinished, Alone
<1>4. data \in Seq(Contents) /\ Len(data) \in Nat /\ SubSeq(data, 1, Len(data)) = data
  <2>1. c.path \in Resolved(disk) /\ tree = TreeOf(disk)
    BY <1>1, <1>3, StoreIs, TreeIs
  <2>2. data \in Seq(Contents)
    BY <1>1, <2>1, StoreIs, NodeData
  <2> HIDE DEF data
  <2> QED  BY <2>2, Whole
<1>5. /\ handles' = Moved(handles, fd, o + n) /\ tree' = tree
      /\ ret' = Success(n, SubSeq(data, o + 1, o + n))
  <2>1. FS!Read(fd, CatBuf)
    BY <1>1, ReadMaps
  <2>2. FS!Usable(fd, "READ")
    BY <1>2, <1>3, Shared DEF FS!Usable
  <2> QED  BY <1>3, <2>1, <2>2, Shared DEF FS!Read, Moved
<1> HIDE DEF data
<1>6. /\ n \in Nat /\ o \in Nat /\ o + n <= Len(data) /\ CatBuf \in Nat /\ (n <= 0 => o + n = Len(data))
      /\ o + n \in 0..Len(data)
  <2>1. CatBuf \in Nat \ {0}
    BY ApiAssumption
  <2>2. Len(data) \in Nat /\ o \in 0..Len(data)
    BY <1>3, <1>4
  <2> HIDE DEF o
  <2> QED  BY <2>1, <2>2 DEF Smaller, Larger
<1>7. /\ e.name = "cat" /\ e.err = "OK" /\ e.fd = fd /\ e.text = <<>> /\ e.path = c.path
      /\ e.moved = m /\ (e.over <=> n <= 0) /\ IsCommand(e)
  <2> DEFINE over == (ret'.n <= 0)
  <2>1. IsCommand(c) /\ c.err = "OK" /\ c.name = "cat" /\ c.text = <<>>
    BY <1>2, <1>3 DEF Holds
  <2>2. ret'.n = n /\ over \in BOOLEAN
    BY <1>5 DEF Success
  <2> HIDE DEF n, over, m, c
  <2>3. e = MovedOn(c, m, "OK", over)
    BY <2>1 DEF IsCommand, MovedOn, over
  <2> HIDE DEF e
  <2>4. IsCommand(e) /\ e.name = c.name /\ e.path = c.path /\ e.text = c.text /\ e.fd = c.fd
        /\ e.over = over /\ e.err = "OK" /\ e.moved = m
    BY <2>1, <2>2, <2>3, CommandMoves
  <2> QED  BY <2>1, <2>2, <2>4 DEF over
<1> HIDE DEF n, e
<1>8. m = SubSeq(data, 1, o + n)
  <2>1. m = SubSeq(data, 1, o) \o SubSeq(data, o + 1, o + n)
    BY <1>3, <1>5 DEF Success
  <2> HIDE DEF m, o
  <2> QED  BY <1>4, <1>6, <2>1, Pieces
<1> HIDE DEF m
<1>9. /\ Alone(handles', fd) /\ handles'[fd].path = c.path /\ handles'[fd].flags = {"READ"}
      /\ handles'[fd].offset = o + n
  <2>1. DOMAIN handles = Fds /\ handles = HandlesOf(disk, fds)
    BY <1>1, OpenIs, StoreIs
  <2>2. h = HandleOf(disk, fds[fd])
    BY <1>2, <2>1, HandlesAt
  <2>3. handles' = Put(handles, fd, [h EXCEPT !.offset = o + n])
    BY <1>5 DEF Moved, Put
  <2> DEFINE g == [h EXCEPT !.offset = o + n]
  <2>4. g.open = h.open /\ g.path = h.path /\ g.flags = h.flags /\ g.offset = o + n
    BY <2>2 DEF HandleOf
  <2> HIDE DEF g, h
  <2>5. handles'[fd] = g /\ \A other \in Fds : other # fd => handles'[other] = handles[other]
    BY <1>2, <2>1, <2>3 DEF Put, g, h
  <2> QED  BY <1>3, <2>4, <2>5 DEF Alone, h
<1>10. ~(AtPrompt')
  BY <1>1, <1>7 DEF AtPrompt, Prompt
<1>11. tree'[c.path].data = data /\ c.path \in DOMAIN tree'
  BY <1>3, <1>5 DEF data
<1> HIDE DEF c, fd, h, o
<1>12. CASE e.over
  <2>1. Finished(e, data)
    BY <1>4, <1>6, <1>7, <1>8, <1>12 DEF Finished
  <2> QED  BY <1>1, <1>2, <1>7, <1>9, <1>10, <1>11, <1>12, <2>1 DEF SInv, Holds
<1>13. CASE ~e.over
  <2>1. Unfinished(e, handles'[fd], data, disk')
    BY <1>6, <1>7, <1>8, <1>9 DEF Unfinished
  <2> QED  BY <1>1, <1>2, <1>7, <1>9, <1>10, <1>11, <1>13, <2>1 DEF SInv, Holds
<1> QED  BY <1>12, <1>13

(* A write to the start of an empty file stores a prefix of the text. *)
LEMMA PrefixStored ==
  ASSUME NEW S, NEW text \in Seq(S), NEW n \in 0..Len(text)
  PROVE  /\ FS!Overwritten(<<>>, 0, text, n) = SubSeq(text, 1, n)
         /\ n > 0 => SubSeq(text, 1, n) # <<>>
<1> DEFINE q == SubSeq(text, 1, n)
           p == FS!Overwritten(<<>>, 0, text, n)
<1>1. Len(text) \in Nat /\ n \in Nat /\ \A i \in 1..Len(text) : text[i] \in S
  BY LenProperties, ElementOfSeq
<1>2. q \in Seq(S) /\ Len(q) = n /\ \A i \in 1..n : q[i] = text[i]
  <2>1. /\ q \in Seq(S) /\ Len(q) = IF 1 <= n THEN n - 1 + 1 ELSE 0
        /\ \A i \in 1..(n - 1 + 1) : q[i] = text[1 + i - 1]
    <3>1. \A i \in 1..n : text[i] \in S
      BY <1>1
    <3> QED  BY <1>1, <3>1, SubSeqProperties
  <2> HIDE DEF q
  <2>2. n - 1 + 1 = n /\ \A i \in 1..n : 1 + i - 1 = i
    BY <1>1
  <2> QED  BY <1>1, <2>1, <2>2
<1>3. p = [i \in 1..n |-> text[i]]
  <2>1. FS!Larger(Len(<<>>), 0 + n) = n
    BY <1>1 DEF FS!Larger
  <2>2. \A i \in 1..n : i > 0 /\ i <= 0 + n /\ i - 0 = i
    BY <1>1
  <2> QED  BY <2>1, <2>2 DEF FS!Overwritten
<1> HIDE DEF p, q
<1>4. p \in Seq(S) /\ Len(p) = n /\ \A i \in 1..n : p[i] = text[i]
  <2>1. \A i \in 1..n : text[i] \in S
    BY <1>1
  <2> QED  BY <1>1, <1>3, <2>1
<1>5. p = q
  BY <1>1, <1>2, <1>4, SeqEqual
<1>6. n > 0 => q # <<>>
  BY <1>1, <1>2, EmptySeq
<1> QED  BY <1>5, <1>6 DEF p, q


LEMMA WritesKeep ==
  ASSUME SInv, Represented', Writes
  PROVE  SInv'
<1> USE ShellAssumption
<1> DEFINE c == command
           fd == c.fd
           h == handles[fd]
           text == c.text
           m == SubSeq(text, 1, ret'.n)
           e == [c EXCEPT !.moved = m, !.err = ret'.err, !.over = TRUE]
<1>1. ~AtPrompt /\ Represented /\ ramfs_write(fd, text) /\ command' = e
  BY DEF SInv, Writes, AtPrompt, Prompt
<1>2. Holds(c, tree, handles, disk) /\ c.name = "write" /\ ~c.over /\ fd \in Fds
  BY <1>1 DEF SInv, Writes, Holds
<1>3. /\ text # <<>> /\ text \in Texts /\ h.flags = {"WRITE", "CREATE", "TRUNC"} /\ h.offset = 0
      /\ tree[c.path].data = <<>> /\ (c.had # <<>> => FreeBlocks(disk) # {})
      /\ Alone(handles, fd) /\ h.path = c.path /\ h.open /\ c.path \in DOMAIN tree /\ c.err = "OK"
  BY <1>2 DEF Holds, Unfinished, Alone
<1>4. text \in Buffers /\ text \in Seq(Bytes)
  BY <1>3, ApiAssumption
<1>5. PICK n \in 0..Len(text) :
        /\ tree' = [tree EXCEPT ![c.path].data = FS!Overwritten(<<>>, 0, text, n)]
        /\ handles' = Moved(handles, fd, n) /\ ret' = Success(n, <<>>)
  <2>1. FS!Write(fd, text)
    BY <1>1, <1>4, WriteMaps
  <2>2. FS!Usable(fd, "WRITE")
    BY <1>2, <1>3, Shared DEF FS!Usable
  <2> DEFINE file == tree[h.path].data
             off == IF "APPEND" \in h.flags THEN Len(file) ELSE h.offset
  <2>3. \/ \E n \in 0..Len(text) :
             /\ tree' = [tree EXCEPT ![h.path].data = FS!Overwritten(file, off, text, n)]
             /\ handles' = [handles EXCEPT ![fd].offset = off + n] /\ ret' = FS!Success(n, <<>>)
        \/ off > Len(file)
    BY <2>1, <2>2 DEF FS!Write
  <2>4. PICK n \in 0..Len(text) :
          /\ tree' = [tree EXCEPT ![h.path].data = FS!Overwritten(<<>>, 0, text, n)]
          /\ handles' = [handles EXCEPT ![fd].offset = 0 + n] /\ ret' = FS!Success(n, <<>>)
    <3>1. file = <<>> /\ off = 0 /\ Len(<<>>) = 0
      BY <1>3
    <3> HIDE DEF file, off, h, fd, text
    <3>2. ~(off > Len(file))
      BY <3>1
    <3> QED  BY <2>3, <3>1, <3>2
  <2>5. 0 + n = n
    <3>1. Len(text) \in Nat
      BY <1>4, LenProperties
    <3> QED  BY <3>1
  <2> QED  BY <1>3, <2>4, <2>5, Shared DEF Moved
<1>6. /\ ret'.n = n /\ ret'.err = "OK" /\ m = SubSeq(text, 1, n)
      /\ c.had # <<>> => n > 0
  <2>1. FreeBlocks(disk) # {} => ret'.n > 0
    BY <1>1, <1>2, <1>3, <1>4, WriteAtStart
  <2> QED  BY <1>3, <1>5, <2>1 DEF Success
<1>7. m = FS!Overwritten(<<>>, 0, text, n) /\ (c.had # <<>> => m # <<>>)
  BY <1>4, <1>6, PrefixStored
<1> HIDE DEF m
<1>8. IsCommand(e) /\ e.name = "write" /\ e.path = c.path /\ e.text = text /\ e.fd = fd
      /\ e.had = c.had /\ e.over = TRUE /\ e.err = "OK" /\ e.moved = m
  <2>1. IsCommand(c) /\ c.name = "write"
    BY <1>2 DEF Holds
  <2> DEFINE over == TRUE
  <2>2. e = MovedOn(c, m, "OK", over) /\ over \in BOOLEAN
    BY <1>6 DEF MovedOn
  <2> HIDE DEF e, c, over
  <2>3. IsCommand(e) /\ e.name = c.name /\ e.path = c.path /\ e.text = c.text /\ e.fd = c.fd
        /\ e.had = c.had /\ e.over = over /\ e.err = "OK" /\ e.moved = m
    BY <2>1, <2>2, CommandMoves
  <2> QED  BY <2>1, <2>3 DEF over
<1> HIDE DEF e
<1>9. tree'[c.path].data = m /\ c.path \in DOMAIN tree'
  <2>1. tree[c.path] = [type |-> tree[c.path].type, data |-> tree[c.path].data]
    <3>1. c.path \in Resolved(disk) /\ c.path \in AbsolutePaths /\ tree = TreeOf(disk)
      BY <1>1, <1>3, StoreIs, TreeIs
    <3> QED  BY <3>1 DEF TreeOf
  <2> QED  BY <1>3, <1>5, <1>7, <2>1
<1>10. Alone(handles', fd) /\ handles'[fd].path = c.path
  <2>1. DOMAIN handles = Fds /\ handles = HandlesOf(disk, fds)
    BY <1>1, OpenIs, StoreIs
  <2>2. h = HandleOf(disk, fds[fd])
    BY <1>2, <2>1, HandlesAt
  <2> DEFINE g == [h EXCEPT !.offset = n]
  <2>3. handles' = Put(handles, fd, g)
    BY <1>5 DEF Moved, Put
  <2>4. g.open = h.open /\ g.path = h.path
    BY <2>2 DEF HandleOf
  <2> HIDE DEF g, h
  <2>5. handles'[fd] = g /\ \A other \in Fds : other # fd => handles'[other] = handles[other]
    BY <1>2, <2>1, <2>3 DEF Put
  <2> QED  BY <1>3, <2>4, <2>5 DEF Alone, h
<1>11. ~(AtPrompt')
  BY <1>1, <1>8 DEF AtPrompt, Prompt
<1>12. Finished(e, m)
  BY <1>7, <1>8 DEF Finished
<1> HIDE DEF c, fd, h, text
<1> QED  BY <1>1, <1>2, <1>3, <1>8, <1>9, <1>10, <1>11, <1>12 DEF SInv, Holds


(***************************************************************************)
(* The shell                                                               *)
(***************************************************************************)
LEMMA ShellStarts ==
  ASSUME ShellInit
  PROVE  SInv /\ FS!Init
<1>1. IInv /\ Mapped /\ FS!Init
  BY InitMaps DEF ShellInit
<1>2. /\ disk.inode_bitmap = {ROOT_INODE} /\ disk.inodes[ROOT_INODE].type = "DIR"
      /\ fds = [fd \in Fds |-> ClosedFd] /\ command = Prompt
  <2>1. ROOT_INODE \in Dirs(disk)
    BY <1>1, IntactIs DEF IInv
  <2> QED  BY <2>1 DEF ShellInit, MappedInit, Init, Dirs
<1>3. Readables(disk)
  <2>1. Intact(disk)
    BY <1>1 DEF IInv
  <2> QED  BY <1>2, <2>1, IntactIs DEF Readables, Readable, Dirs
<1>4. \A fd \in Fds : ~fds[fd].in_use
  BY <1>2 DEF ClosedFd
<1> QED  BY <1>1, <1>2, <1>3, <1>4 DEF SInv, Represented, AtPrompt, NothingLeftOpen

ShellNext == shell_execute_command /\ Remapped

LEMMA ShellStep ==
  ASSUME SInv, ShellNext
  PROVE  SInv' /\ FS!Next
<1>1. Represented /\ Next /\ Readables(disk') /\ MappedNext
  BY ShellCalls DEF SInv, ShellNext, MappedNext
<1>2. (IInv /\ Mapped)'
  BY <1>1, MappedStep DEF Represented
<1>3. Represented'
  BY <1>1, <1>2 DEF Represented, Readables, Size
<1>4. FS!Next
  BY <1>1, <1>3, NextMaps
<1>5. SInv'
  <2>1. ASSUME NEW path \in Paths,
               \/ cmd_mkdir(path) \/ cmd_rmdir(path) \/ cmd_touch(path)
               \/ cmd_rm(path) \/ cmd_stat(path) \/ cmd_ls(path)
        PROVE  SInv'
    <3>1. AtPrompt /\ UNCHANGED <<command, fds>>
      BY <2>1 DEF cmd_mkdir, cmd_rmdir, cmd_touch, cmd_rm, cmd_stat, cmd_ls, OneCall,
                  ramfs_mkdir, ramfs_rmdir, ramfs_create, ramfs_unlink, ramfs_stat, ramfs_list, Return
    <3> QED  BY <1>3, <3>1, OneCallKeeps
  <2>2. ASSUME NEW path \in Paths, cmd_cat(path)
        PROVE  SInv'
    BY <1>3, <2>2, OpensKeep DEF cmd_cat
  <2>3. ASSUME NEW path \in Paths, NEW text \in Texts, cmd_write(path, text)
        PROVE  SInv'
    BY <1>3, <2>3, OpensKeep DEF cmd_write
  <2>4. CASE Reads
    BY <1>3, <2>4, ReadsKeep
  <2>5. CASE Writes
    BY <1>3, <2>5, WritesKeep
  <2>6. CASE Closes
    BY <1>3, <2>6, ClosesKeep
  <2> QED  BY <2>1, <2>2, <2>3, <2>4, <2>5, <2>6 DEF ShellNext, shell_execute_command
<1> QED  BY <1>4, <1>5

LEMMA ShellStutters ==
  ASSUME SInv, UNCHANGED <<vars, tree, handles, command>>
  PROVE  SInv'
<1>1. UNCHANGED <<disk, fds, call, ret, tree, handles, command>>
  BY DEF vars
<1> QED  BY <1>1 DEF SInv, Represented, IInv, Mapped, Readables, Size, AtPrompt, NothingLeftOpen

(* The inductive invariant holds of every state of the shell. *)
THEOREM ShellInvariant == ShellSpec => []SInv
<1>1. ShellInit => SInv
  BY ShellStarts
<1>2. SInv /\ [ShellNext]_<<vars, tree, handles, command>> => SInv'
  BY ShellStep, ShellStutters
<1> QED  BY <1>1, <1>2, PTL DEF ShellSpec, ShellNext

(* A command gives back the descriptor it took on every path through it
   (shell.c cat and write), whatever the store answers and however many
   descriptors there are: at the prompt the whole table is free. *)
THEOREM CommandsCloseTheirFiles == ShellSpec => []NothingLeftOpen
<1>1. SInv => NothingLeftOpen
  BY DEF SInv, NothingLeftOpen
<1> QED  BY <1>1, ShellInvariant, PTL

(* cat prints the whole file, in order and once, for any size of its buffer,
   and write tells what the file then holds; a write over a file that held
   something never leaves it empty. *)
THEOREM CommandsTellTheTruth == ShellSpec => []OutputTrue
<1>1. SInv => OutputTrue
  <2> SUFFICES ASSUME SInv, command.over
               PROVE  Finished(command, tree[command.path].data)
    BY DEF OutputTrue, Finished
  <2>1. ~AtPrompt
    BY DEF AtPrompt, Prompt
  <2> QED  BY <2>1 DEF SInv, Holds
<1> QED  BY <1>1, ShellInvariant, PTL

(* The shell only leaves files whose bytes below the size can be read, which
   ramfs.c does not ensure of other callers. *)
THEOREM ShellSizesReadable == ShellSpec => []SizeIsReadable
<1>1. SInv => SizeIsReadable
  BY ReadablesIs DEF SInv, Represented
<1> QED  BY <1>1, ShellInvariant, PTL

(* So for the shell, with no hypothesis, the store is a tree of files: every
   call its commands make does and returns what FileSystem says it may. *)
THEOREM ShellUsesFileSystem == ShellSpec => Refinement
<1>1. ShellInit => FS!Init
  BY ShellStarts
<1>2. SInv /\ [ShellNext]_<<vars, tree, handles, command>> => [FS!Next]_FS!vars
  <2>1. SInv /\ ShellNext => FS!Next
    BY ShellStep
  <2>2. UNCHANGED <<vars, tree, handles, command>> => UNCHANGED FS!vars
    BY DEF vars, FS!vars
  <2> QED  BY <2>1, <2>2
<1> QED  BY <1>1, <1>2, ShellInvariant, PTL DEF ShellSpec, ShellNext, Refinement, FS!Spec
=============================================================================
