----------------------------- MODULE RamFSProof -----------------------------
(***************************************************************************)
(* Proofs about RamFS, for every number of blocks, inodes and descriptors, *)
(* every block size and every depth of path.                               *)
(*                                                                         *)
(* The invariant has three layers, each kept by every operation of the     *)
(* layer below it:                                                         *)
(*   Sound   chains end, share no block, are the allocated blocks;         *)
(*   Stock   and the cells past a size are zero, directories readable;     *)
(*   Intact  and the live dirents are a tree that paths reach all of.      *)
(* A chain and a path walk are recursive functions; that they exist, and   *)
(* what holds along them, is by the induction of module Recursion.         *)
(***************************************************************************)
EXTENDS RamFS, Recursion, FiniteSetTheorems, SequenceTheorems

(***************************************************************************)
(* Numbers                                                                 *)
(***************************************************************************)
LEMMA MinIsThere ==
  ASSUME NEW S \in SUBSET Nat, S # {}
  PROVE  MinOf(S) \in S /\ \A x \in S : MinOf(S) <= x
<1> QED  BY Least DEF MinOf

(* A cell's number is the place of its block in the chain and its place there. *)
LEMMA Division ==
  ASSUME NEW i \in Nat
  PROVE  /\ i \div BlockSize \in Nat /\ i % BlockSize \in 0..(BlockSize - 1)
         /\ i = BlockSize * (i \div BlockSize) + (i % BlockSize)
<1> QED  BY RamFSAssumption

LEMMA Product ==
  ASSUME NEW k \in Nat, NEW l \in Nat, k < l
  PROVE  BlockSize * k \in Nat /\ BlockSize * k + BlockSize <= BlockSize * l
<1> QED  BY RamFSAssumption

LEMMA DivisionIs ==
  ASSUME NEW k \in Nat, NEW o \in 0..(BlockSize - 1)
  PROVE  /\ (BlockSize * k + o) \div BlockSize = k
         /\ (BlockSize * k + o) % BlockSize = o
<1> QED  BY RamFSAssumption

(***************************************************************************)
(* The store                                                               *)
(***************************************************************************)
Offsets == 0..(BlockSize - 1)
Types == {"FREE", "FILE", "DIR"}
InodeRecords == [type : Types, size : Nat, first_block : Blocks \cup {RAMFS_END}]
Contents == Cells \cup Dirents \cup {Hole}

(* The sets of what the fields hold; Disks is expanded without them. *)
Fats == [Blocks -> Blocks \cup {RAMFS_END}]
Bitmaps == SUBSET Blocks
Stores == [Blocks -> [Offsets -> Contents]]
Pools == [Inodes -> InodeRecords]
InodeBitmaps == SUBSET Inodes
Disks == [fat : Fats, block_bitmap : Bitmaps, data_blocks : Stores, inodes : Pools,
          inode_bitmap : InodeBitmaps]

LEMMA ReplacedFields ==
  ASSUME NEW d \in Disks
  PROVE  /\ \A f \in Fats : [d EXCEPT !.fat = f] \in Disks
         /\ \A m \in Bitmaps : [d EXCEPT !.block_bitmap = m] \in Disks
         /\ \A s \in Stores : [d EXCEPT !.data_blocks = s] \in Disks
         /\ \A p \in Pools : [d EXCEPT !.inodes = p] \in Disks
         /\ \A q \in InodeBitmaps : [d EXCEPT !.inode_bitmap = q] \in Disks
<1> QED  BY DEF Disks

LEMMA BlockAllocIs ==
  ASSUME NEW d \in Disks, NEW b \in Blocks, b = MinOf(FreeBlocks(d))
  PROVE  LET t == block_alloc(d) IN
         /\ t \in Disks
         /\ t.fat = [d.fat EXCEPT ![b] = RAMFS_END] /\ t.block_bitmap = d.block_bitmap \cup {b}
         /\ t.data_blocks = [d.data_blocks EXCEPT ![b] = ZeroBlock]
         /\ t.inodes = d.inodes /\ t.inode_bitmap = d.inode_bitmap
<1> DEFINE t == block_alloc(d)
           f == [d.fat EXCEPT ![b] = RAMFS_END]
           m == d.block_bitmap \cup {b}
           s == [d.data_blocks EXCEPT ![b] = ZeroBlock]
<1>1. d.fat \in Fats /\ d.block_bitmap \in Bitmaps /\ d.data_blocks \in Stores
  BY DEF Disks
<1>2. f \in Fats /\ m \in Bitmaps
  BY <1>1 DEF Fats, Bitmaps
<1>3. s \in Stores
  BY <1>1 DEF Stores, ZeroBlock, Contents, Cells, Offsets
<1>4. t = [d EXCEPT !.block_bitmap = m, !.fat = f, !.data_blocks = s]
  BY DEF block_alloc, Disks
<1> HIDE DEF f, m, s, t
<1>5. t = [[[d EXCEPT !.block_bitmap = m] EXCEPT !.fat = f] EXCEPT !.data_blocks = s]
  BY <1>4
<1>6. t \in Disks
  <2>1. [[d EXCEPT !.block_bitmap = m] EXCEPT !.fat = f] \in Disks
    BY <1>2, ReplacedFields
  <2> QED  BY <1>3, <1>5, <2>1, ReplacedFields
<1>7. t.fat = f /\ t.block_bitmap = m /\ t.data_blocks = s /\ t.inodes = d.inodes /\ t.inode_bitmap = d.inode_bitmap
  BY <1>4 DEF Disks
<1> QED  BY <1>6, <1>7 DEF f, m, s, t

(***************************************************************************)
(* Chains                                                                  *)
(***************************************************************************)
Links == Blocks \cup {RAMFS_END}
IsChain(d, ino, c) ==
  /\ c \in [0..NBlocks -> Links]
  /\ c[0] = d.inodes[ino].first_block
  /\ \A k \in 0..(NBlocks - 1) : c[k + 1] = Follow(d, c[k])

LEMMA DiskTypes ==
  ASSUME NEW d \in Disks
  PROVE  /\ d.fat \in Fats /\ d.block_bitmap \in Bitmaps /\ d.data_blocks \in Stores
         /\ d.inodes \in Pools /\ d.inode_bitmap \in InodeBitmaps
         /\ \A ino \in Inodes : d.inodes[ino] \in InodeRecords
         /\ \A ino \in Inodes : /\ d.inodes[ino].type \in Types /\ d.inodes[ino].size \in Nat
                                /\ d.inodes[ino].first_block \in Links
         /\ \A x \in Links : Follow(d, x) \in Links
<1>1. /\ d.fat \in Fats /\ d.block_bitmap \in Bitmaps /\ d.data_blocks \in Stores
      /\ d.inodes \in Pools /\ d.inode_bitmap \in InodeBitmaps
  BY DEF Disks
<1>2. \A ino \in Inodes : d.inodes[ino] \in InodeRecords
  BY <1>1 DEF Pools
<1>3. \A x \in Links : Follow(d, x) \in Links
  BY <1>1 DEF Fats, Follow, Links
<1>4. \A ino \in Inodes : /\ d.inodes[ino].type \in Types /\ d.inodes[ino].size \in Nat
                          /\ d.inodes[ino].first_block \in Links
  BY <1>2 DEF InodeRecords, Links
<1> QED  BY <1>1, <1>2, <1>3, <1>4

LEMMA ChainsAgree ==
  ASSUME NEW d, NEW ino, NEW c, NEW e, IsChain(d, ino, c), IsChain(d, ino, e)
  PROVE  c = e
<1> DEFINE T == {k \in Nat : k \in 0..NBlocks => c[k] = e[k]}
<1>1. 0 \in T
  BY DEF IsChain
<1>2. ASSUME NEW k \in Nat, k \in T
      PROVE  k + 1 \in T
  <2>1. SUFFICES ASSUME k + 1 \in 0..NBlocks PROVE c[k + 1] = e[k + 1]
        OBVIOUS
  <2>2. k \in 0..(NBlocks - 1) /\ c[k] = e[k]
    BY <1>2, <2>1, RamFSAssumption
  <2> QED  BY <2>2 DEF IsChain
<1> HIDE DEF T
<1>3. Nat \subseteq T
  BY <1>1, <1>2, SetInduction
<1>4. \A k \in 0..NBlocks : c[k] = e[k]
  BY <1>3 DEF T
<1>5. c = [k \in 0..NBlocks |-> c[k]] /\ e = [k \in 0..NBlocks |-> e[k]]
  BY DEF IsChain
<1> QED  BY <1>4, <1>5

LEMMA ChainIsChain ==
  ASSUME NEW d \in Disks, NEW ino \in Inodes
  PROVE  IsChain(d, ino, Chain(d, ino))
<1> DEFINE first == d.inodes[ino].first_block
           g == [s \in Nat \X Links |-> Follow(d, s[2])]
           after(h) == [i \in 0..NBlocks |-> IF i = 0 THEN first ELSE Follow(d, h[i - 1])]
           c == CHOOSE h : h = after(h)
<1>1. first \in Links /\ \A x \in Links : Follow(d, x) \in Links
  BY DiskTypes
<1>2. \E h : h = after(h)
  <2>1. g \in StepsOn(Links)
    BY <1>1 DEF StepsOn
  <2>2. \A n \in Nat, x \in Links : g[<<n, x>>] = Follow(d, x)
    OBVIOUS
  <2> HIDE DEF g
  <2>3. PICK f : f \in Iterations(Links, first, g)
    BY <1>1, <2>1, Iteration
  <2> DEFINE h == [i \in 0..NBlocks |-> f[i]]
  <2>4. ASSUME NEW i \in 0..NBlocks
        PROVE  h[i] = after(h)[i]
    <3>1. CASE i = 0
      BY <2>3, <3>1 DEF Iterations
    <3>2. CASE i # 0
      <4>1. i - 1 \in Nat /\ i - 1 \in 0..NBlocks /\ (i - 1) + 1 = i
        BY <3>2, RamFSAssumption
      <4>2. f[i - 1] \in Links /\ f[(i - 1) + 1] = g[<<i - 1, f[i - 1]>>]
        BY <2>3, <4>1 DEF Iterations
      <4> QED  BY <2>2, <3>2, <4>1, <4>2
    <3> QED  BY <3>1, <3>2
  <2>5. h = [i \in 0..NBlocks |-> h[i]] /\ after(h) = [i \in 0..NBlocks |-> after(h)[i]]
    OBVIOUS
  <2>6. h = after(h)
    BY <2>4, <2>5
  <2> QED  BY <2>6
<1>3. c = after(c)
  <2> HIDE DEF after
  <2> QED  BY <1>2
<1>4. Chain(d, ino) = c
  BY DEF Chain
<1> HIDE DEF c
<1>5. c[0] = first /\ \A k \in 0..(NBlocks - 1) : c[k + 1] = Follow(d, c[k])
  <2>1. after(c)[0] = first
    BY RamFSAssumption
  <2>2. ASSUME NEW k \in 0..(NBlocks - 1)
        PROVE  after(c)[k + 1] = Follow(d, c[k])
    <3>1. k + 1 \in 0..NBlocks /\ k + 1 # 0 /\ (k + 1) - 1 = k
      BY RamFSAssumption
    <3> QED  BY <3>1
  <2> HIDE DEF after
  <2> QED  BY <1>3, <2>1, <2>2
<1>6. DOMAIN c = 0..NBlocks /\ c = [i \in 0..NBlocks |-> c[i]]
  <2>1. DOMAIN after(c) = 0..NBlocks /\ after(c) = [i \in 0..NBlocks |-> after(c)[i]]
    OBVIOUS
  <2> HIDE DEF after
  <2> QED  BY <1>3, <2>1
<1> DEFINE T == {k \in Nat : k \in 0..NBlocks => c[k] \in Links}
<1>7. 0 \in T
  BY <1>1, <1>5
<1>8. ASSUME NEW k \in Nat, k \in T
      PROVE  k + 1 \in T
  <2>1. SUFFICES ASSUME k + 1 \in 0..NBlocks PROVE c[k + 1] \in Links
        OBVIOUS
  <2>2. k \in 0..(NBlocks - 1) /\ c[k] \in Links
    BY <1>8, <2>1, RamFSAssumption
  <2> QED  BY <1>1, <1>5, <2>2
<1>9. Nat \subseteq T
  <2> HIDE DEF T
  <2> QED  BY <1>7, <1>8, SetInduction
<1>10. \A k \in 0..NBlocks : c[k] \in Links
  BY <1>9
<1> QED  BY <1>4, <1>5, <1>6, <1>10 DEF IsChain

LEMMA ChainIs ==
  ASSUME NEW d \in Disks, NEW ino \in Inodes, NEW c, IsChain(d, ino, c)
  PROVE  Chain(d, ino) = c
<1> QED  BY ChainIsChain, ChainsAgree

(* A disk whose chains end, share no block, and are the allocated blocks; whose
   free inodes are empty. *)
Ends(d) == \A i \in Inodes : Chain(d, i)[NBlocks] = RAMFS_END
Apart(d) ==
  \A i, j \in Inodes : \A k, l \in 0..NBlocks :
    Chain(d, i)[k] # RAMFS_END /\ Chain(d, i)[k] = Chain(d, j)[l] => i = j /\ k = l
Owned(d) ==
  \A b \in Blocks :
    b \in d.block_bitmap <=> \E i \in Inodes : \E k \in 0..NBlocks : Chain(d, i)[k] = b
FreeIsEmpty(d) ==
  \A i \in Inodes : IF i \in d.inode_bitmap THEN d.inodes[i].type # "FREE"
                    ELSE d.inodes[i] = FreeInode
Sound(d) == d \in Disks /\ Ends(d) /\ Apart(d) /\ Owned(d) /\ FreeIsEmpty(d)

LEMMA EndNotBlock == RAMFS_END \notin Blocks /\ RAMFS_END \in Links /\ Links \ {RAMFS_END} = Blocks
<1> QED  BY RamFSAssumption DEF RAMFS_END, Blocks, Links

(* A chain that ends has a length: up to it blocks, from it the end. *)
LEMMA Lengths ==
  ASSUME NEW d \in Disks, NEW ino \in Inodes, Chain(d, ino)[NBlocks] = RAMFS_END
  PROVE  /\ ChainLength(d, ino) \in 0..NBlocks
         /\ \A k \in 0..NBlocks : Chain(d, ino)[k] # RAMFS_END <=> k < ChainLength(d, ino)
<1> DEFINE c == Chain(d, ino)
           S == {k \in 0..NBlocks : c[k] = RAMFS_END}
<1>1. IsChain(d, ino, c)
  BY ChainIsChain
<1> HIDE DEF c
<1>2. PICK n \in S : \A k \in S : n <= k
  <2>1. S \subseteq Nat /\ NBlocks \in S
    BY RamFSAssumption DEF c
  <2> QED  BY <2>1, Least
<1>3. \A k \in 0..NBlocks : k < n => c[k] # RAMFS_END
  BY <1>2
<1> DEFINE T == {k \in Nat : n <= k /\ k <= NBlocks => c[k] = RAMFS_END}
<1>4. 0 \in T
  BY <1>2
<1>5. ASSUME NEW k \in Nat, k \in T
      PROVE  k + 1 \in T
  <2>1. SUFFICES ASSUME n <= k + 1, k + 1 <= NBlocks PROVE c[k + 1] = RAMFS_END
        OBVIOUS
  <2>2. CASE n = k + 1
    BY <1>2, <2>2
  <2>3. CASE n # k + 1
    <3>1. k \in 0..(NBlocks - 1) /\ c[k] = RAMFS_END
      BY <1>2, <1>5, <2>1, <2>3, RamFSAssumption
    <3> QED  BY <1>1, <3>1 DEF IsChain, Follow
  <2> QED  BY <2>2, <2>3
<1>6. Nat \subseteq T
  <2> HIDE DEF T
  <2> QED  BY <1>4, <1>5, SetInduction
<1>7. \A k \in 0..NBlocks : c[k] # RAMFS_END <=> k < n
  BY <1>2, <1>3, <1>6
<1>8. {k \in 0..(NBlocks - 1) : c[k] # RAMFS_END} = 0..(n - 1)
  BY <1>2, <1>7, RamFSAssumption
<1>9. Cardinality(0..(n - 1)) = n
  <2>1. n \in Nat
    BY <1>2
  <2>2. Cardinality(0..(n - 1)) = IF 0 > n - 1 THEN 0 ELSE n - 1 - 0 + 1
    BY <2>1, FS_Interval
  <2> QED  BY <2>1, <2>2
<1>10. ChainLength(d, ino) = n
  BY <1>8, <1>9 DEF ChainLength, c
<1> QED  BY <1>2, <1>7, <1>10 DEF c

(* A disk with a chain that follows another table the same way has that chain. *)
LEMMA SameChain ==
  ASSUME NEW d \in Disks, NEW e \in Disks, NEW ino \in Inodes,
         e.inodes[ino].first_block = d.inodes[ino].first_block,
         \A k \in 0..(NBlocks - 1) :
           Chain(d, ino)[k] # RAMFS_END => e.fat[Chain(d, ino)[k]] = d.fat[Chain(d, ino)[k]]
  PROVE  Chain(e, ino) = Chain(d, ino)
<1>1. IsChain(d, ino, Chain(d, ino))
  BY ChainIsChain
<1>2. IsChain(e, ino, Chain(d, ino))
  BY <1>1 DEF IsChain, Follow
<1> QED  BY <1>2, ChainIs

(* With a block free, no chain has all of them. *)
LEMMA RoomInChain ==
  ASSUME NEW d, Sound(d), NEW ino \in Inodes, NEW b \in FreeBlocks(d)
  PROVE  ChainLength(d, ino) < NBlocks
<1> DEFINE c == Chain(d, ino)
           n == ChainLength(d, ino)
<1>1. n \in 0..NBlocks /\ \A k \in 0..NBlocks : c[k] # RAMFS_END <=> k < n
  BY Lengths DEF Sound, Ends
<1>2. IsChain(d, ino, c)
  BY ChainIsChain DEF Sound
<1> SUFFICES ASSUME n = NBlocks PROVE FALSE
    BY <1>1, RamFSAssumption
<1> DEFINE f == [k \in 0..(NBlocks - 1) |-> c[k]]
<1>3. \A k, l \in 0..(NBlocks - 1) : k # l => f[k] # f[l]
  <2>1. \A k, l \in 0..NBlocks : c[k] # RAMFS_END /\ c[k] = c[l] => k = l
    BY DEF Sound, Apart
  <2> QED  BY <1>1, <2>1, RamFSAssumption
<1>4. f \in [0..(NBlocks - 1) -> Blocks \ {b}]
  <2>1. ASSUME NEW k \in 0..(NBlocks - 1)
        PROVE  c[k] \in Blocks \ {b}
    <3>1. k \in 0..NBlocks /\ c[k] # RAMFS_END /\ c[k] \in Links
      BY <1>1, <1>2, RamFSAssumption DEF IsChain
    <3>2. c[k] \in Blocks
      BY <3>1, EndNotBlock
    <3>3. c[k] \in d.block_bitmap
      BY <3>1, <3>2 DEF Sound, Owned
    <3> QED  BY <3>2, <3>3 DEF FreeBlocks
  <2> QED  BY <2>1
<1>5. IsFiniteSet(Blocks) /\ Cardinality(Blocks) = NBlocks
  BY RamFSAssumption, FS_Interval DEF Blocks
<1> DEFINE B == Blocks \ {b}
<1>6. IsFiniteSet(B) /\ Cardinality(B) = NBlocks - 1
  <2>1. b \in Blocks
    BY DEF FreeBlocks
  <2>2. IsFiniteSet(B) /\ Cardinality(B) = Cardinality(Blocks) - 1
    BY <1>5, <2>1, FS_RemoveElement, Zenon
  <2> QED  BY <1>5, <2>2
<1>7. IsFiniteSet(0..(NBlocks - 1)) /\ Cardinality(0..(NBlocks - 1)) = NBlocks
  BY <1>5 DEF Blocks
<1>8. \E x, y \in 0..(NBlocks - 1) : x # y /\ f[x] = f[y]
  <2> DEFINE S == 0..(NBlocks - 1)
  <2>1. f \in [S -> B]
    BY <1>4
  <2>2. IsFiniteSet(S) /\ Cardinality(B) < Cardinality(S)
    BY <1>6, <1>7, RamFSAssumption
  <2> HIDE DEF f, B, S
  <2>3. \E x, y \in S : x # y /\ f[x] = f[y]
    BY <1>6, <2>1, <2>2, FS_PigeonHole
  <2> QED  BY <2>3 DEF S
<1> HIDE DEF f
<1> QED  BY <1>3, <1>8

LEMMA InodeFields ==
  ASSUME NEW p \in Pools, NEW ino \in Inodes
  PROVE  /\ \A x \in Links :
              LET q == [p EXCEPT ![ino].first_block = x]
              IN  /\ q \in Pools /\ \A i \in Inodes \ {ino} : q[i] = p[i]
                  /\ q[ino].type = p[ino].type /\ q[ino].size = p[ino].size
                  /\ q[ino].first_block = x
         /\ \A n \in Nat :
              LET q == [p EXCEPT ![ino].size = n]
              IN  /\ q \in Pools /\ \A i \in Inodes \ {ino} : q[i] = p[i]
                  /\ q[ino].type = p[ino].type /\ q[ino].size = n
                  /\ q[ino].first_block = p[ino].first_block
<1>1. p[ino] \in InodeRecords
  BY DEF Pools
<1>2. ASSUME NEW x \in Links
      PROVE  LET q == [p EXCEPT ![ino].first_block = x]
             IN  /\ q \in Pools /\ \A i \in Inodes \ {ino} : q[i] = p[i]
                 /\ q[ino].type = p[ino].type /\ q[ino].size = p[ino].size
                 /\ q[ino].first_block = x
  <2> DEFINE r == [p[ino] EXCEPT !.first_block = x]
             q == [p EXCEPT ![ino] = r]
  <2>1. r \in InodeRecords /\ r.type = p[ino].type /\ r.size = p[ino].size /\ r.first_block = x
    BY <1>1 DEF InodeRecords, Links
  <2> HIDE DEF r
  <2>2. q \in Pools /\ q[ino] = r /\ \A i \in Inodes \ {ino} : q[i] = p[i]
    BY <2>1 DEF Pools
  <2>3. [p EXCEPT ![ino].first_block = x] = q
    BY DEF r
  <2> HIDE DEF q
  <2> QED  BY <2>1, <2>2, <2>3
<1>3. ASSUME NEW n \in Nat
      PROVE  LET q == [p EXCEPT ![ino].size = n]
             IN  /\ q \in Pools /\ \A i \in Inodes \ {ino} : q[i] = p[i]
                 /\ q[ino].type = p[ino].type /\ q[ino].size = n
                 /\ q[ino].first_block = p[ino].first_block
  <2> DEFINE r == [p[ino] EXCEPT !.size = n]
             q == [p EXCEPT ![ino] = r]
  <2>1. /\ r \in InodeRecords /\ r.type = p[ino].type /\ r.size = n
        /\ r.first_block = p[ino].first_block
    BY <1>1 DEF InodeRecords
  <2> HIDE DEF r
  <2>2. q \in Pools /\ q[ino] = r /\ \A i \in Inodes \ {ino} : q[i] = p[i]
    BY <2>1 DEF Pools
  <2>3. [p EXCEPT ![ino].size = n] = q
    BY DEF r
  <2> HIDE DEF q
  <2> QED  BY <2>1, <2>2, <2>3
<1> QED  BY <1>2, <1>3

LEMMA FreeBlock ==
  ASSUME NEW d, FreeBlocks(d) # {}
  PROVE  MinOf(FreeBlocks(d)) \in FreeBlocks(d)
<1>1. FreeBlocks(d) \in SUBSET Nat
  BY RamFSAssumption DEF FreeBlocks, Blocks
<1> QED  BY <1>1, MinIsThere

LEMMA AppendedIs ==
  ASSUME NEW d, Sound(d), NEW ino \in Inodes, FreeBlocks(d) # {},
         NEW b, b = MinOf(FreeBlocks(d)), NEW n, n = ChainLength(d, ino)
  PROVE  LET e == Appended(d, ino) IN
         /\ e \in Disks /\ b \in FreeBlocks(d)
         /\ e.block_bitmap = d.block_bitmap \cup {b} /\ e.inode_bitmap = d.inode_bitmap
         /\ e.data_blocks = [d.data_blocks EXCEPT ![b] = ZeroBlock]
         /\ \A i \in Inodes \ {ino} : e.inodes[i] = d.inodes[i]
         /\ e.inodes[ino].type = d.inodes[ino].type /\ e.inodes[ino].size = d.inodes[ino].size
         /\ e.inodes[ino].first_block = IF n = 0 THEN b ELSE d.inodes[ino].first_block
         /\ e.fat = IF n = 0 THEN [d.fat EXCEPT ![b] = RAMFS_END]
                    ELSE [[d.fat EXCEPT ![b] = RAMFS_END] EXCEPT ![Chain(d, ino)[n - 1]] = b]
<1> DEFINE e == Appended(d, ino)
           t == block_alloc(d)
           f == [t.fat EXCEPT ![Chain(d, ino)[n - 1]] = b]
           p == [t.inodes EXCEPT ![ino].first_block = b]
<1>1. b \in FreeBlocks(d) /\ b \in Blocks /\ b \in Links
  BY FreeBlock DEF FreeBlocks, Links
<1>2. /\ t \in Disks
      /\ t.fat = [d.fat EXCEPT ![b] = RAMFS_END] /\ t.block_bitmap = d.block_bitmap \cup {b}
      /\ t.data_blocks = [d.data_blocks EXCEPT ![b] = ZeroBlock]
      /\ t.inodes = d.inodes /\ t.inode_bitmap = d.inode_bitmap
  BY <1>1, BlockAllocIs DEF Sound
<1>3. t.fat \in Fats /\ t.inodes \in Pools
  BY <1>2, DiskTypes
<1>4. CASE n = 0
  <2>1. e = [t EXCEPT !.inodes[ino].first_block = b]
    BY <1>4 DEF Appended
  <2>2. /\ p \in Pools /\ \A i \in Inodes \ {ino} : p[i] = t.inodes[i]
        /\ p[ino].type = t.inodes[ino].type /\ p[ino].size = t.inodes[ino].size
        /\ p[ino].first_block = b
    BY <1>1, <1>3, InodeFields
  <2>3. e = [t EXCEPT !.inodes = p]
    BY <2>1
  <2> HIDE DEF e, t, p
  <2>4. e \in Disks
    BY <1>2, <2>2, <2>3, ReplacedFields
  <2>5. /\ e.inodes = p /\ e.fat = t.fat /\ e.block_bitmap = t.block_bitmap
        /\ e.data_blocks = t.data_blocks /\ e.inode_bitmap = t.inode_bitmap
    BY <1>2, <2>3 DEF Disks
  <2>6. /\ e.block_bitmap = d.block_bitmap \cup {b} /\ e.inode_bitmap = d.inode_bitmap
        /\ e.data_blocks = [d.data_blocks EXCEPT ![b] = ZeroBlock]
        /\ e.fat = [d.fat EXCEPT ![b] = RAMFS_END]
    BY <1>2, <2>5
  <2>7. /\ \A i \in Inodes \ {ino} : e.inodes[i] = d.inodes[i]
        /\ e.inodes[ino].type = d.inodes[ino].type /\ e.inodes[ino].size = d.inodes[ino].size
        /\ e.inodes[ino].first_block = b
    BY <1>2, <2>2, <2>5
  <2> QED  BY <1>1, <1>4, <2>4, <2>6, <2>7 DEF e
<1>5. CASE n # 0
  <2>1. e = [t EXCEPT !.fat[Chain(d, ino)[n - 1]] = b]
    BY <1>5 DEF Appended
  <2>2. f \in Fats
    BY <1>1, <1>3 DEF Fats
  <2>3. e = [t EXCEPT !.fat = f]
    BY <2>1
  <2> HIDE DEF e, t, f
  <2>4. e \in Disks
    BY <1>2, <2>2, <2>3, ReplacedFields
  <2>5. /\ e.inodes = t.inodes /\ e.fat = f /\ e.block_bitmap = t.block_bitmap
        /\ e.data_blocks = t.data_blocks /\ e.inode_bitmap = t.inode_bitmap
    BY <1>2, <2>3 DEF Disks
  <2>6. /\ e.block_bitmap = d.block_bitmap \cup {b} /\ e.inode_bitmap = d.inode_bitmap
        /\ e.data_blocks = [d.data_blocks EXCEPT ![b] = ZeroBlock]
        /\ e.fat = [[d.fat EXCEPT ![b] = RAMFS_END] EXCEPT ![Chain(d, ino)[n - 1]] = b]
    BY <1>2, <2>5 DEF f
  <2> QED  BY <1>1, <1>2, <1>5, <2>4, <2>5, <2>6 DEF e
<1> QED  BY <1>4, <1>5

(* Disk e is d with the chain of an inode longer, by blocks of zeros. *)
Grown(d, e, ino) ==
  /\ e.inode_bitmap = d.inode_bitmap /\ d.block_bitmap \subseteq e.block_bitmap
  /\ \A i \in Inodes : /\ e.inodes[i].type = d.inodes[i].type
                       /\ e.inodes[i].size = d.inodes[i].size
  /\ \A i \in Inodes \ {ino} : e.inodes[i] = d.inodes[i] /\ Chain(e, i) = Chain(d, i)
  /\ ChainLength(d, ino) <= ChainLength(e, ino)
  /\ \A k \in 0..(ChainLength(d, ino) - 1) : Chain(e, ino)[k] = Chain(d, ino)[k]
  /\ \A b \in d.block_bitmap : e.data_blocks[b] = d.data_blocks[b]
  /\ \A k \in ChainLength(d, ino)..(ChainLength(e, ino) - 1) :
       e.data_blocks[Chain(e, ino)[k]] = ZeroBlock

LEMMA AppendedKeeps ==
  ASSUME NEW d, Sound(d), NEW ino \in d.inode_bitmap, FreeBlocks(d) # {}
  PROVE  /\ Sound(Appended(d, ino)) /\ Grown(d, Appended(d, ino), ino)
         /\ ChainLength(Appended(d, ino), ino) = ChainLength(d, ino) + 1
<1> USE RamFSAssumption
<1> DEFINE e == Appended(d, ino)
           b == MinOf(FreeBlocks(d))
           n == ChainLength(d, ino)
           c == Chain(d, ino)
           a == [k \in 0..NBlocks |-> IF k = n THEN b ELSE c[k]]
<1>1. d \in Disks /\ ino \in Inodes
  BY DiskTypes DEF Sound, InodeBitmaps
<1>2. n \in 0..(NBlocks - 1) /\ \A k \in 0..NBlocks : c[k] # RAMFS_END <=> k < n
  BY <1>1, Lengths, RoomInChain, FreeBlock DEF Sound, Ends
<1>3. IsChain(d, ino, c)
  BY <1>1, ChainIsChain
<1>4. /\ e \in Disks /\ b \in FreeBlocks(d)
      /\ e.block_bitmap = d.block_bitmap \cup {b} /\ e.inode_bitmap = d.inode_bitmap
      /\ e.data_blocks = [d.data_blocks EXCEPT ![b] = ZeroBlock]
      /\ \A i \in Inodes \ {ino} : e.inodes[i] = d.inodes[i]
      /\ e.inodes[ino].type = d.inodes[ino].type /\ e.inodes[ino].size = d.inodes[ino].size
      /\ e.inodes[ino].first_block = IF n = 0 THEN b ELSE d.inodes[ino].first_block
      /\ e.fat = IF n = 0 THEN [d.fat EXCEPT ![b] = RAMFS_END]
                 ELSE [[d.fat EXCEPT ![b] = RAMFS_END] EXCEPT ![c[n - 1]] = b]
  BY <1>1, AppendedIs
<1> HIDE DEF e, b, n, c
<1>5. b \in Blocks /\ b \notin d.block_bitmap /\ b # RAMFS_END
  BY <1>4, EndNotBlock DEF FreeBlocks
<1>6. \A i \in Inodes : \A k \in 0..NBlocks : Chain(d, i)[k] # b
  BY <1>5 DEF Sound, Owned
<1>7. d.fat \in Fats
  BY <1>1, DiskTypes
<1>8. \A x \in Blocks : x # b /\ (n > 0 => x # c[n - 1]) => e.fat[x] = d.fat[x]
  BY <1>2, <1>4, <1>7 DEF Fats
<1>9. /\ n > 0 => c[n - 1] \in Blocks /\ c[n - 1] # b /\ e.fat[c[n - 1]] = b
      /\ e.fat[b] = RAMFS_END
  <2>1. CASE n = 0
    BY <1>4, <1>5, <1>7, <2>1 DEF Fats
  <2>2. CASE n # 0
    <3>1. n - 1 \in 0..NBlocks /\ n - 1 < n
      BY <1>2, <2>2
    <3>2. c[n - 1] # RAMFS_END /\ c[n - 1] \in Links /\ c[n - 1] # b
      BY <1>1, <1>2, <1>3, <1>6, <3>1 DEF IsChain, c
    <3>3. c[n - 1] \in Blocks
      BY <3>2, EndNotBlock
    <3> QED  BY <1>4, <1>5, <1>7, <2>2, <3>2, <3>3 DEF Fats
  <2> QED  BY <2>1, <2>2
<1>10. \A k, l \in 0..NBlocks : c[k] # RAMFS_END /\ c[k] = c[l] => k = l
  BY <1>1 DEF Sound, Apart, c
<1>11. IsChain(e, ino, a)
  <2>1. a \in [0..NBlocks -> Links]
    BY <1>3, <1>5 DEF IsChain, Links
  <2>2. a[0] = e.inodes[ino].first_block
    BY <1>2, <1>3, <1>4 DEF IsChain
  <2>3. ASSUME NEW k \in 0..(NBlocks - 1)
        PROVE  a[k + 1] = Follow(e, a[k])
    <3>1. k \in 0..NBlocks /\ k + 1 \in 0..NBlocks /\ c[k + 1] = Follow(d, c[k])
      BY <1>3 DEF IsChain
    <3>2. CASE k + 1 = n
      <4>1. a[k + 1] = b /\ a[k] = c[n - 1] /\ n > 0 /\ k < n
        BY <1>2, <3>1, <3>2
      <4>2. a[k] # RAMFS_END
        BY <1>2, <3>1, <3>2, <4>1
      <4> QED  BY <1>9, <4>1, <4>2 DEF Follow
    <3>3. CASE k = n
      <4>1. a[k] = b /\ a[k + 1] = c[k + 1] /\ ~(k + 1 < n)
        BY <1>2, <3>1, <3>3
      <4>2. c[k + 1] = RAMFS_END
        BY <1>2, <3>1, <4>1
      <4> QED  BY <1>5, <1>9, <4>1, <4>2 DEF Follow
    <3>4. CASE k + 1 < n
      <4>1. /\ a[k] = c[k] /\ a[k + 1] = c[k + 1] /\ k < n /\ n > 0 /\ n - 1 \in 0..NBlocks
            /\ k # n - 1
        BY <1>2, <3>1, <3>4
      <4>2. c[k] # RAMFS_END /\ c[k] # b /\ c[k] # c[n - 1] /\ c[k] \in Links
        BY <1>1, <1>2, <1>3, <1>6, <1>10, <3>1, <4>1 DEF IsChain, c
      <4>3. c[k] \in Blocks
        BY <4>2, EndNotBlock
      <4> QED  BY <1>8, <3>1, <4>1, <4>2, <4>3 DEF Follow
    <3>5. CASE k > n
      <4>1. a[k] = c[k] /\ a[k + 1] = c[k + 1] /\ ~(k < n)
        BY <1>2, <3>1, <3>5
      <4>2. c[k] = RAMFS_END
        BY <1>2, <3>1, <4>1
      <4> QED  BY <3>1, <4>1, <4>2 DEF Follow
    <3> QED  BY <1>2, <3>2, <3>3, <3>4, <3>5
  <2> HIDE DEF a
  <2> QED  BY <2>1, <2>2, <2>3 DEF IsChain
<1>12. Chain(e, ino) = a
  BY <1>1, <1>4, <1>11, ChainIs
<1>13. ASSUME NEW i \in Inodes \ {ino}
       PROVE  Chain(e, i) = Chain(d, i)
  <2>1. ASSUME NEW k \in 0..(NBlocks - 1), Chain(d, i)[k] # RAMFS_END
        PROVE  e.fat[Chain(d, i)[k]] = d.fat[Chain(d, i)[k]]
    <3>1. k \in 0..NBlocks /\ Chain(d, i)[k] \in Links
      BY <1>1, ChainIsChain DEF IsChain
    <3>2. Chain(d, i)[k] \in Blocks /\ Chain(d, i)[k] # b
      BY <1>6, <2>1, <3>1, EndNotBlock
    <3>3. n > 0 => Chain(d, i)[k] # c[n - 1]
      <4>1. n > 0 => n - 1 \in 0..NBlocks
        BY <1>2
      <4> QED  BY <1>1, <2>1, <3>1, <4>1 DEF Sound, Apart, c
    <3> QED  BY <1>8, <3>2, <3>3
  <2> QED  BY <1>1, <1>4, <2>1, SameChain
<1>14. Ends(e)
  <2>1. a[NBlocks] = c[NBlocks]
    BY <1>2
  <2>2. c[NBlocks] = RAMFS_END
    BY <1>1 DEF Sound, Ends, c
  <2>3. ASSUME NEW i \in Inodes
        PROVE  Chain(e, i)[NBlocks] = RAMFS_END
    <3>1. CASE i = ino
      BY <1>12, <2>1, <2>2, <3>1
    <3>2. CASE i # ino
      BY <1>13, <3>2 DEF Sound, Ends
    <3> QED  BY <3>1, <3>2
  <2> QED  BY <2>3 DEF Ends
<1>15. /\ \A k \in 0..NBlocks : a[k] = IF k = n THEN b ELSE c[k]
       /\ n \in 0..NBlocks
  BY <1>2
<1> HIDE DEF a
<1>16. Apart(e)
  <2>1. SUFFICES ASSUME NEW i \in Inodes, NEW j \in Inodes, NEW k \in 0..NBlocks, NEW l \in 0..NBlocks,
                        Chain(e, i)[k] # RAMFS_END, Chain(e, i)[k] = Chain(e, j)[l]
                 PROVE  i = j /\ k = l
        BY DEF Apart
  <2>2. Chain(e, i)[k] = IF i = ino /\ k = n THEN b ELSE Chain(d, i)[k]
    BY <1>12, <1>13, <1>15 DEF c
  <2>3. Chain(e, j)[l] = IF j = ino /\ l = n THEN b ELSE Chain(d, j)[l]
    BY <1>12, <1>13, <1>15 DEF c
  <2> QED  BY <1>6, <2>1, <2>2, <2>3 DEF Sound, Apart
<1>17. Owned(e)
  <2>1. ASSUME NEW x \in Blocks, x \in e.block_bitmap
        PROVE  \E i \in Inodes : \E k \in 0..NBlocks : Chain(e, i)[k] = x
    <3>1. CASE x = b
      BY <1>1, <1>12, <1>15, <3>1
    <3>2. CASE x # b
      <4>1. PICK i \in Inodes, k \in 0..NBlocks : Chain(d, i)[k] = x
        BY <1>4, <2>1, <3>2 DEF Sound, Owned
      <4>2. x # RAMFS_END
        BY EndNotBlock
      <4>3. CASE i = ino
        <5>1. k # n
          BY <1>2, <4>1, <4>2, <4>3 DEF c
        <5>2. Chain(e, ino)[k] = x
          BY <1>12, <1>15, <4>1, <4>3, <5>1 DEF c
        <5> QED  BY <4>3, <5>2
      <4>4. CASE i # ino
        BY <1>13, <4>1, <4>4
      <4> QED  BY <4>3, <4>4
    <3> QED  BY <3>1, <3>2
  <2>2. ASSUME NEW x \in Blocks, NEW i \in Inodes, NEW k \in 0..NBlocks, Chain(e, i)[k] = x
        PROVE  x \in e.block_bitmap
    <3>1. CASE i = ino /\ k = n
      BY <1>4, <1>12, <1>15, <2>2, <3>1
    <3>2. CASE ~(i = ino /\ k = n)
      <4>1. Chain(d, i)[k] = x
        BY <1>12, <1>13, <1>15, <2>2, <3>2 DEF c
      <4> QED  BY <1>4, <4>1 DEF Sound, Owned
    <3> QED  BY <3>1, <3>2
  <2> QED  BY <2>1, <2>2 DEF Owned
<1>18. FreeIsEmpty(e)
  BY <1>1, <1>4 DEF Sound, FreeIsEmpty
<1>19. Sound(e)
  BY <1>4, <1>14, <1>16, <1>17, <1>18 DEF Sound
<1>20. ChainLength(e, ino) = n + 1
  <2>1. Chain(e, ino)[NBlocks] = RAMFS_END
    BY <1>1, <1>14 DEF Ends
  <2>2. /\ ChainLength(e, ino) \in 0..NBlocks
        /\ \A k \in 0..NBlocks : a[k] # RAMFS_END <=> k < ChainLength(e, ino)
    BY <1>1, <1>4, <1>12, <2>1, Lengths
  <2> DEFINE m == ChainLength(e, ino)
  <2> HIDE DEF m
  <2>3. \A k \in 0..NBlocks : k < m <=> k < n + 1
    BY <1>2, <1>5, <1>15, <2>2 DEF m
  <2>4. m \in 0..NBlocks
    BY <2>2 DEF m
  <2>5. m = n + 1
    BY <1>2, <2>3, <2>4
  <2> QED  BY <2>5 DEF m
<1>21. Grown(d, e, ino)
  <2>1. \A i \in Inodes : e.inodes[i].type = d.inodes[i].type /\ e.inodes[i].size = d.inodes[i].size
    BY <1>4
  <2>2. \A k \in 0..(n - 1) : Chain(e, ino)[k] = Chain(d, ino)[k]
    BY <1>2, <1>12, <1>15 DEF c
  <2>3. d.data_blocks \in Stores
    BY <1>1, DiskTypes
  <2>4. \A x \in d.block_bitmap : e.data_blocks[x] = d.data_blocks[x]
    <3>1. d.block_bitmap \subseteq Blocks
      BY <1>1, DiskTypes DEF Bitmaps
    <3> QED  BY <1>4, <1>5, <2>3, <3>1 DEF Stores
  <2>5. \A k \in n..((n + 1) - 1) : e.data_blocks[Chain(e, ino)[k]] = ZeroBlock
    <3>1. \A k \in n..((n + 1) - 1) : k = n /\ k \in 0..NBlocks
      BY <1>15
    <3>2. Chain(e, ino)[n] = b
      BY <1>12, <1>15
    <3>3. e.data_blocks[b] = ZeroBlock
      BY <1>4, <1>5, <2>3 DEF Stores
    <3> QED  BY <3>1, <3>2, <3>3
  <2>6. n <= n + 1
    BY <1>2
  <2> QED  BY <1>4, <1>13, <1>20, <2>1, <2>2, <2>4, <2>5, <2>6 DEF Grown, n
<1> QED  BY <1>19, <1>20, <1>21 DEF e, n

LEMMA GrownFromItself ==
  ASSUME NEW d, Sound(d), NEW ino \in Inodes
  PROVE  Grown(d, d, ino)
<1>1. ChainLength(d, ino) \in 0..NBlocks
  BY Lengths DEF Sound, Ends
<1> DEFINE n == ChainLength(d, ino)
<1> HIDE DEF n
<1>2. n <= n /\ n..(n - 1) = {}
  BY <1>1, RamFSAssumption DEF n
<1> QED  BY <1>2 DEF Grown, n

LEMMA GrownOn ==
  ASSUME NEW d, NEW e, NEW f, Sound(d), Sound(e), Sound(f), NEW ino \in Inodes,
         Grown(d, e, ino), Grown(e, f, ino)
  PROVE  Grown(d, f, ino)
<1> USE RamFSAssumption
<1>1. /\ ChainLength(d, ino) \in 0..NBlocks /\ ChainLength(e, ino) \in 0..NBlocks
      /\ ChainLength(f, ino) \in 0..NBlocks
      /\ \A k \in 0..NBlocks : Chain(e, ino)[k] # RAMFS_END <=> k < ChainLength(e, ino)
  BY Lengths DEF Sound, Ends
<1> DEFINE l == ChainLength(d, ino)
           m == ChainLength(e, ino)
           n == ChainLength(f, ino)
<1> HIDE DEF l, m, n
<1>2. /\ l \in 0..NBlocks /\ m \in 0..NBlocks /\ n \in 0..NBlocks /\ l <= m /\ m <= n
      /\ \A k \in 0..NBlocks : Chain(e, ino)[k] # RAMFS_END <=> k < m
  BY <1>1 DEF l, m, n, Grown
<1>3. /\ \A k \in 0..(l - 1) : Chain(e, ino)[k] = Chain(d, ino)[k]
      /\ \A k \in 0..(m - 1) : Chain(f, ino)[k] = Chain(e, ino)[k]
      /\ \A k \in l..(m - 1) : e.data_blocks[Chain(e, ino)[k]] = ZeroBlock
      /\ \A k \in m..(n - 1) : f.data_blocks[Chain(f, ino)[k]] = ZeroBlock
      /\ \A b \in e.block_bitmap : f.data_blocks[b] = e.data_blocks[b]
  BY DEF Grown, l, m, n
<1>4. \A k \in 0..(l - 1) : Chain(f, ino)[k] = Chain(d, ino)[k]
  BY <1>2, <1>3
<1>5. ASSUME NEW k \in l..(n - 1)
      PROVE  f.data_blocks[Chain(f, ino)[k]] = ZeroBlock
  <2>1. CASE k < m
    <3>1. k \in 0..NBlocks /\ k \in 0..(m - 1) /\ k \in l..(m - 1)
      BY <1>2, <2>1
    <3>2. Chain(e, ino)[k] \in e.block_bitmap
      <4>1. Chain(e, ino)[k] # RAMFS_END /\ Chain(e, ino)[k] \in Links
        BY <1>2, <2>1, <3>1, ChainIsChain DEF IsChain, Sound
      <4>2. Chain(e, ino)[k] \in Blocks
        BY <4>1, EndNotBlock
      <4> QED  BY <3>1, <4>2 DEF Sound, Owned
    <3> QED  BY <1>3, <3>1, <3>2
  <2>2. CASE k >= m
    BY <1>2, <1>3, <2>2
  <2> QED  BY <1>2, <2>1, <2>2
<1>6. l <= n
  BY <1>2
<1> QED  BY <1>4, <1>5, <1>6 DEF Grown, l, n

(* However far the walk wants the chain to go. *)
(* The stores that Extended goes through. *)
ExtendsBy(d, ino, k, a) ==
  /\ a[0] = d /\ Extended(d, ino, k) = a[k]
  /\ \A i \in Nat : i <= k => Sound(a[i]) /\ Grown(d, a[i], ino)
  /\ \A i \in Nat : i + 1 \in 0..k => a[i + 1] = Appended(a[i], ino)

LEMMA ExtendedBy ==
  ASSUME NEW d, Sound(d), NEW ino \in d.inode_bitmap, NEW k \in Nat
  PROVE  \E a : ExtendsBy(d, ino, k, a)
<1> DEFINE S == {e \in Disks : Sound(e) /\ Grown(d, e, ino)}
           g == [s \in Nat \X S |-> Appended(s[2], ino)]
           after(h) == [i \in 0..k |-> IF i = 0 THEN d ELSE Appended(h[i - 1], ino)]
           a == CHOOSE h : h = after(h)
<1>1. ino \in Inodes /\ d \in S
  <2>1. d \in Disks
    BY DEF Sound
  <2>2. ino \in Inodes
    BY <2>1, DiskTypes DEF InodeBitmaps
  <2> QED  BY <2>1, <2>2, GrownFromItself
<1>2. ASSUME NEW e \in S
      PROVE  Appended(e, ino) \in S
  <2>1. CASE FreeBlocks(e) = {}
    BY <2>1 DEF Appended
  <2>2. CASE FreeBlocks(e) # {}
    <3>1. ino \in e.inode_bitmap
      BY DEF Grown
    <3>2. Sound(Appended(e, ino)) /\ Grown(e, Appended(e, ino), ino)
      BY <2>2, <3>1, AppendedKeeps
    <3>3. Grown(d, Appended(e, ino), ino)
      BY <1>1, <3>2, GrownOn
    <3> QED  BY <3>2, <3>3 DEF Sound
  <2> QED  BY <2>1, <2>2
<1> HIDE DEF S
<1>3. \E h : h = after(h)
  <2>1. g \in StepsOn(S)
    BY <1>2 DEF StepsOn
  <2>2. \A n \in Nat, x \in S : g[<<n, x>>] = Appended(x, ino)
    OBVIOUS
  <2> HIDE DEF g
  <2>3. PICK f : f \in Iterations(S, d, g)
    BY <1>1, <2>1, Iteration
  <2> DEFINE h == [i \in 0..k |-> f[i]]
  <2>4. ASSUME NEW i \in 0..k
        PROVE  h[i] = after(h)[i]
    <3>1. CASE i = 0
      BY <2>3, <3>1 DEF Iterations
    <3>2. CASE i # 0
      <4>1. i - 1 \in Nat /\ i - 1 \in 0..k /\ (i - 1) + 1 = i
        BY <3>2
      <4>2. f[i - 1] \in S /\ f[(i - 1) + 1] = g[<<i - 1, f[i - 1]>>]
        BY <2>3, <4>1 DEF Iterations
      <4> QED  BY <2>2, <3>2, <4>1, <4>2
    <3> QED  BY <3>1, <3>2
  <2>5. h = [i \in 0..k |-> h[i]] /\ after(h) = [i \in 0..k |-> after(h)[i]]
    OBVIOUS
  <2>6. h = after(h)
    BY <2>4, <2>5
  <2> QED  BY <2>6
<1>4. a = after(a)
  <2> HIDE DEF after
  <2> QED  BY <1>3
<1>5. Extended(d, ino, k) = a[k]
  BY DEF Extended
<1> HIDE DEF a
<1>6. /\ a[0] = d
      /\ \A i \in Nat : i + 1 \in 0..k => a[i + 1] = Appended(a[i], ino)
  <2>1. after(a)[0] = d
    OBVIOUS
  <2>2. ASSUME NEW i \in Nat, i + 1 \in 0..k
        PROVE  after(a)[i + 1] = Appended(a[i], ino)
    <3>1. i + 1 # 0 /\ (i + 1) - 1 = i
      OBVIOUS
    <3> QED  BY <2>2, <3>1
  <2> HIDE DEF after
  <2> QED  BY <1>4, <2>1, <2>2
<1> DEFINE T == {i \in Nat : i <= k => a[i] \in S}
<1>7. 0 \in T
  BY <1>1, <1>6
<1>8. ASSUME NEW i \in Nat, i \in T
      PROVE  i + 1 \in T
  BY <1>2, <1>6, <1>8
<1>9. Nat \subseteq T
  <2> HIDE DEF T
  <2> QED  BY <1>7, <1>8, SetInduction
<1>10. \A i \in Nat : i <= k => Sound(a[i]) /\ Grown(d, a[i], ino)
  BY <1>9 DEF S
<1>11. ExtendsBy(d, ino, k, a)
  BY <1>5, <1>6, <1>10 DEF ExtendsBy
<1> QED  BY <1>11

LEMMA ExtendedKeeps ==
  ASSUME NEW d, Sound(d), NEW ino \in d.inode_bitmap, NEW k \in Nat
  PROVE  Sound(Extended(d, ino, k)) /\ Grown(d, Extended(d, ino, k), ino)
<1>1. PICK a : ExtendsBy(d, ino, k, a)
  BY ExtendedBy
<1> QED  BY <1>1 DEF ExtendsBy

(* A chain grows if there is a block to grow by. *)
LEMMA ExtendedGrows ==
  ASSUME NEW d, Sound(d), NEW ino \in d.inode_bitmap, NEW k \in Nat, k # 0, FreeBlocks(d) # {}
  PROVE  ChainLength(Extended(d, ino, k), ino) > ChainLength(d, ino)
<1>0. PICK a : ExtendsBy(d, ino, k, a)
  BY ExtendedBy
<1>1. /\ a[0] = d /\ Extended(d, ino, k) = a[k]
      /\ \A i \in Nat : i <= k => Sound(a[i]) /\ Grown(d, a[i], ino)
      /\ \A i \in Nat : i + 1 \in 0..k => a[i + 1] = Appended(a[i], ino)
  BY <1>0 DEF ExtendsBy
<1> DEFINE len(i) == ChainLength(a[i], ino)
           T == {i \in Nat : i + 1 <= k => len(i + 1) > len(0)}
<1>2. ino \in Inodes
  BY DiskTypes DEF Sound, InodeBitmaps
<1>3. ASSUME NEW i \in Nat, i <= k
      PROVE  len(i) \in Nat /\ ino \in a[i].inode_bitmap /\ Sound(a[i])
  <2>1. Sound(a[i]) /\ ino \in a[i].inode_bitmap
    BY <1>1, <1>3 DEF Grown
  <2> QED  BY <1>2, <2>1, Lengths DEF Sound, Ends
<1>4. ASSUME NEW i \in Nat, i + 1 <= k
      PROVE  len(i + 1) >= len(i) /\ (FreeBlocks(a[i]) # {} => len(i + 1) = len(i) + 1)
  <2>1. a[i + 1] = Appended(a[i], ino) /\ i <= k
    BY <1>1, <1>4
  <2>2. CASE FreeBlocks(a[i]) = {}
    <3>1. a[i + 1] = a[i]
      BY <2>1, <2>2 DEF Appended
    <3> QED  BY <1>3, <2>1, <2>2, <3>1
  <2>3. CASE FreeBlocks(a[i]) # {}
    <3>1. ChainLength(Appended(a[i], ino), ino) = ChainLength(a[i], ino) + 1
      BY <1>3, <2>1, <2>3, AppendedKeeps
    <3> QED  BY <1>3, <2>1, <3>1
  <2> QED  BY <2>2, <2>3
<1> HIDE DEF len
<1>5. 0 \in T
  <2>1. FreeBlocks(a[0]) # {}
    BY <1>1
  <2> QED  BY <1>3, <1>4, <2>1
<1>6. ASSUME NEW i \in Nat, i \in T
      PROVE  i + 1 \in T
  <2> SUFFICES ASSUME (i + 1) + 1 <= k
               PROVE  len((i + 1) + 1) > len(0)
    OBVIOUS
  <2>1. i + 1 \in Nat /\ i + 1 <= k /\ len(i + 1) > len(0)
    BY <1>6
  <2>2. len((i + 1) + 1) >= len(i + 1)
    BY <1>4, <2>1
  <2>3. len(0) \in Nat /\ len(i + 1) \in Nat /\ len((i + 1) + 1) \in Nat
    BY <1>3, <2>1
  <2> QED  BY <2>1, <2>2, <2>3
<1>7. Nat \subseteq T
  <2> HIDE DEF T
  <2> QED  BY <1>5, <1>6, SetInduction
<1>8. len(k) > len(0)
  <2>1. k - 1 \in Nat /\ (k - 1) + 1 = k
    OBVIOUS
  <2> QED  BY <1>7, <2>1
<1> QED  BY <1>1, <1>8 DEF len

LEMMA ChainFreeIs ==
  ASSUME NEW d, Sound(d), NEW ino \in Inodes
  PROVE  LET e == chain_free(d, ino)
             freed == ChainBlocks(d, ino) IN
         /\ e \in Disks /\ freed = {b \in Blocks : \E k \in 0..NBlocks : Chain(d, ino)[k] = b}
         /\ e.block_bitmap = d.block_bitmap \ freed
         /\ \A b \in Blocks : e.fat[b] = IF b \in freed THEN RAMFS_END ELSE d.fat[b]
         /\ e.data_blocks = d.data_blocks /\ e.inodes = d.inodes
         /\ e.inode_bitmap = d.inode_bitmap
<1> DEFINE e == chain_free(d, ino)
           freed == ChainBlocks(d, ino)
           m == d.block_bitmap \ freed
           f == [b \in Blocks |-> IF b \in freed THEN RAMFS_END ELSE d.fat[b]]
<1>1. d \in Disks /\ d.fat \in Fats /\ d.block_bitmap \in Bitmaps
  BY DiskTypes DEF Sound
<1>2. f \in Fats /\ m \in Bitmaps
  BY <1>1 DEF Fats, Bitmaps
<1>3. freed = {b \in Blocks : \E k \in 0..NBlocks : Chain(d, ino)[k] = b}
  <2>1. Chain(d, ino)[NBlocks] = RAMFS_END
    BY DEF Sound, Ends
  <2>2. \A k \in 0..NBlocks : Chain(d, ino)[k] \in Links
    BY <1>1, ChainIsChain DEF IsChain
  <2>3. \A k \in 0..NBlocks : k \in 0..(NBlocks - 1) \/ k = NBlocks
    BY RamFSAssumption
  <2> QED  BY <2>1, <2>2, <2>3, EndNotBlock, RamFSAssumption DEF ChainBlocks
<1>4. e = [d EXCEPT !.block_bitmap = m, !.fat = f]
  BY <1>1 DEF chain_free, Disks
<1> HIDE DEF e, m, f, freed
<1>5. e = [[d EXCEPT !.block_bitmap = m] EXCEPT !.fat = f]
  BY <1>4
<1>6. [d EXCEPT !.block_bitmap = m] \in Disks
  BY <1>1, <1>2, ReplacedFields
<1>7. e \in Disks
  BY <1>2, <1>5, <1>6, ReplacedFields
<1>8. /\ e.fat = f /\ e.block_bitmap = m /\ e.data_blocks = d.data_blocks /\ e.inodes = d.inodes
      /\ e.inode_bitmap = d.inode_bitmap
  BY <1>1, <1>4 DEF Disks
<1>9. \A b \in Blocks : e.fat[b] = IF b \in freed THEN RAMFS_END ELSE d.fat[b]
  BY <1>8 DEF f
<1> QED  BY <1>3, <1>7, <1>8, <1>9 DEF e, m, freed

(* Disk e is d with an inode changed and its chain given back. *)
Dropped(d, e, ino) ==
  /\ e.block_bitmap = d.block_bitmap \ ChainBlocks(d, ino)
  /\ \A i \in Inodes \ {ino} : e.inodes[i] = d.inodes[i] /\ Chain(e, i) = Chain(d, i)
  /\ ChainLength(e, ino) = 0
  /\ e.data_blocks = d.data_blocks

LEMMA DroppedChain ==
  ASSUME NEW d, Sound(d), NEW ino \in Inodes, NEW e \in Disks,
         e.block_bitmap = chain_free(d, ino).block_bitmap, e.fat = chain_free(d, ino).fat,
         e.data_blocks = d.data_blocks,
         \A i \in Inodes \ {ino} : e.inodes[i] = d.inodes[i],
         e.inodes[ino].first_block = RAMFS_END, FreeIsEmpty(e)
  PROVE  Sound(e) /\ Dropped(d, e, ino)
<1> USE RamFSAssumption
<1> DEFINE freed == ChainBlocks(d, ino)
<1>1. /\ d \in Disks /\ freed = {b \in Blocks : \E k \in 0..NBlocks : Chain(d, ino)[k] = b}
      /\ e.block_bitmap = d.block_bitmap \ freed
      /\ \A b \in Blocks : e.fat[b] = IF b \in freed THEN RAMFS_END ELSE d.fat[b]
  BY ChainFreeIs DEF Sound
<1> HIDE DEF freed
<1>2. ASSUME NEW i \in Inodes \ {ino}
      PROVE  Chain(e, i) = Chain(d, i)
  <2>1. ASSUME NEW k \in 0..(NBlocks - 1), Chain(d, i)[k] # RAMFS_END
        PROVE  e.fat[Chain(d, i)[k]] = d.fat[Chain(d, i)[k]]
    <3>1. k \in 0..NBlocks /\ Chain(d, i)[k] \in Blocks
      BY <1>1, <2>1, ChainIsChain, EndNotBlock DEF IsChain
    <3>2. Chain(d, i)[k] \notin freed
      BY <1>1, <2>1, <3>1 DEF Sound, Apart
    <3> QED  BY <1>1, <3>1, <3>2
  <2> QED  BY <1>1, <2>1, SameChain
<1>3. Chain(e, ino) = [k \in 0..NBlocks |-> RAMFS_END]
  <2>1. IsChain(e, ino, [k \in 0..NBlocks |-> RAMFS_END])
    BY EndNotBlock DEF IsChain, Follow
  <2> QED  BY <2>1, ChainIs
<1>4. \A k \in 0..NBlocks : Chain(e, ino)[k] = RAMFS_END
  BY <1>3
<1>5. Ends(e)
  BY <1>2, <1>4 DEF Sound, Ends
<1>6. Apart(e)
  <2>1. SUFFICES ASSUME NEW i \in Inodes, NEW j \in Inodes, NEW k \in 0..NBlocks, NEW l \in 0..NBlocks,
                        Chain(e, i)[k] # RAMFS_END, Chain(e, i)[k] = Chain(e, j)[l]
                 PROVE  i = j /\ k = l
        BY DEF Apart
  <2>2. i # ino /\ j # ino
    BY <1>4, <2>1
  <2> QED  BY <1>2, <2>1, <2>2 DEF Sound, Apart
<1>7. Owned(e)
  <2>1. ASSUME NEW x \in Blocks, x \in e.block_bitmap
        PROVE  \E i \in Inodes : \E k \in 0..NBlocks : Chain(e, i)[k] = x
    <3>1. PICK i \in Inodes, k \in 0..NBlocks : Chain(d, i)[k] = x
      BY <1>1, <2>1 DEF Sound, Owned
    <3>2. i # ino
      BY <1>1, <2>1, <3>1
    <3> QED  BY <1>2, <3>1, <3>2
  <2>2. ASSUME NEW x \in Blocks, NEW i \in Inodes, NEW k \in 0..NBlocks, Chain(e, i)[k] = x
        PROVE  x \in e.block_bitmap
    <3>1. x # RAMFS_END
      BY EndNotBlock
    <3>2. i # ino /\ Chain(d, i)[k] = x
      BY <1>2, <1>4, <2>2, <3>1
    <3>3. x \in d.block_bitmap
      BY <3>2 DEF Sound, Owned
    <3>4. x \notin freed
      BY <1>1, <3>1, <3>2 DEF Sound, Apart
    <3> QED  BY <1>1, <3>3, <3>4
  <2> QED  BY <2>1, <2>2 DEF Owned
<1>8. ChainLength(e, ino) = 0
  <2>1. {k \in 0..(NBlocks - 1) : Chain(e, ino)[k] # RAMFS_END} = {}
    BY <1>4
  <2> QED  BY <2>1, FS_EmptySet DEF ChainLength
<1>9. Sound(e)
  BY <1>5, <1>6, <1>7 DEF Sound
<1> QED  BY <1>1, <1>2, <1>8, <1>9 DEF Dropped, freed

LEMMA TruncateKeeps ==
  ASSUME NEW d, Sound(d), NEW ino \in d.inode_bitmap
  PROVE  LET e == chain_truncate(d, ino) IN
         /\ Sound(e) /\ Dropped(d, e, ino) /\ e.inode_bitmap = d.inode_bitmap
         /\ e.inodes[ino].type = d.inodes[ino].type /\ e.inodes[ino].size = 0
<1> DEFINE e == chain_truncate(d, ino)
           t == chain_free(d, ino)
           p == [t.inodes EXCEPT ![ino].first_block = RAMFS_END]
           q == [p EXCEPT ![ino].size = 0]
<1>1. d \in Disks /\ ino \in Inodes
  BY DiskTypes DEF Sound, InodeBitmaps
<1>2. /\ t \in Disks /\ t.data_blocks = d.data_blocks /\ t.inodes = d.inodes
      /\ t.inode_bitmap = d.inode_bitmap
  BY <1>1, ChainFreeIs
<1>3. t.inodes \in Pools
  BY <1>2, DiskTypes
<1>4. /\ p \in Pools /\ \A i \in Inodes \ {ino} : p[i] = t.inodes[i]
      /\ p[ino].type = t.inodes[ino].type /\ p[ino].first_block = RAMFS_END
  BY <1>1, <1>3, InodeFields, EndNotBlock
<1>5. e = [t EXCEPT !.inodes = q]
  BY <1>2 DEF chain_truncate, Disks
<1> HIDE DEF p, t, e
<1>6. /\ q \in Pools /\ \A i \in Inodes \ {ino} : q[i] = p[i]
      /\ q[ino].type = p[ino].type /\ q[ino].first_block = RAMFS_END /\ q[ino].size = 0
  BY <1>1, <1>4, InodeFields
<1> HIDE DEF q
<1>7. e \in Disks
  BY <1>2, <1>5, <1>6, ReplacedFields
<1>8. /\ e.inodes = q /\ e.fat = t.fat /\ e.block_bitmap = t.block_bitmap
      /\ e.data_blocks = t.data_blocks /\ e.inode_bitmap = t.inode_bitmap
  BY <1>2, <1>5 DEF Disks
<1>9. FreeIsEmpty(e)
  BY <1>1, <1>2, <1>4, <1>6, <1>8 DEF Sound, FreeIsEmpty
<1>10. \A i \in Inodes \ {ino} : e.inodes[i] = d.inodes[i]
  BY <1>2, <1>4, <1>6, <1>8
<1>11. Sound(e) /\ Dropped(d, e, ino)
  BY <1>1, <1>2, <1>6, <1>7, <1>8, <1>9, <1>10, DroppedChain DEF t
<1> QED  BY <1>2, <1>4, <1>6, <1>8, <1>11 DEF e

LEMMA InodeFreeKeeps ==
  ASSUME NEW d, Sound(d), NEW ino \in Inodes
  PROVE  LET e == inode_free(d, ino) IN
         /\ Sound(e) /\ Dropped(d, e, ino) /\ e.inode_bitmap = d.inode_bitmap \ {ino}
         /\ e.inodes[ino] = FreeInode
<1> DEFINE e == inode_free(d, ino)
           t == chain_free(d, ino)
           p == [t.inodes EXCEPT ![ino] = FreeInode]
           q == t.inode_bitmap \ {ino}
<1>1. d \in Disks
  BY DEF Sound
<1>2. /\ t \in Disks /\ t.data_blocks = d.data_blocks /\ t.inodes = d.inodes
      /\ t.inode_bitmap = d.inode_bitmap
  BY <1>1, ChainFreeIs
<1>3. t.inodes \in Pools /\ t.inode_bitmap \in InodeBitmaps
  BY <1>2, DiskTypes
<1>4. FreeInode \in InodeRecords /\ FreeInode.first_block = RAMFS_END
  BY DEF FreeInode, InodeRecords, Types
<1>5. /\ p \in Pools /\ \A i \in Inodes \ {ino} : p[i] = t.inodes[i] /\ p[ino] = FreeInode
      /\ q \in InodeBitmaps
  BY <1>3, <1>4 DEF Pools, InodeBitmaps
<1>6. e = [[t EXCEPT !.inodes = p] EXCEPT !.inode_bitmap = q]
  BY <1>2 DEF inode_free, Disks
<1> HIDE DEF p, t, e
<1>7. [t EXCEPT !.inodes = p] \in Disks
  BY <1>2, <1>5, ReplacedFields
<1>8. e \in Disks
  BY <1>5, <1>6, <1>7, ReplacedFields
<1>9. /\ e.inodes = p /\ e.fat = t.fat /\ e.block_bitmap = t.block_bitmap
      /\ e.data_blocks = t.data_blocks /\ e.inode_bitmap = t.inode_bitmap \ {ino}
  BY <1>2, <1>6 DEF Disks
<1>10. e.inodes[ino] = FreeInode /\ \A i \in Inodes \ {ino} : e.inodes[i] = d.inodes[i]
  <2>1. p[ino] = FreeInode
    BY <1>3 DEF p, Pools
  <2> QED  BY <1>2, <1>5, <1>9, <2>1
<1>11. FreeIsEmpty(e)
  BY <1>1, <1>2, <1>9, <1>10 DEF Sound, FreeIsEmpty
<1>12. Sound(e) /\ Dropped(d, e, ino)
  BY <1>1, <1>2, <1>4, <1>8, <1>9, <1>10, <1>11, DroppedChain DEF t
<1> QED  BY <1>2, <1>9, <1>10, <1>12 DEF e

LEMMA InodeAllocKeeps ==
  ASSUME NEW d, Sound(d), ~NoInodes(d), NEW type \in {"FILE", "DIR"}
  PROVE  LET e == inode_alloc(d, type)
             n == NextInode(d) IN
         /\ Sound(e) /\ n \in Inodes \ d.inode_bitmap
         /\ e.inode_bitmap = d.inode_bitmap \cup {n}
         /\ \A i \in Inodes \ {n} : e.inodes[i] = d.inodes[i]
         /\ e.inodes[n].type = type /\ e.inodes[n].size = 0
         /\ \A i \in Inodes : Chain(e, i) = Chain(d, i)
         /\ e.data_blocks = d.data_blocks /\ e.block_bitmap = d.block_bitmap
         /\ ChainLength(e, n) = 0
<1> DEFINE e == inode_alloc(d, type)
           n == NextInode(d)
           r == [FreeInode EXCEPT !.type = type]
           p == [d.inodes EXCEPT ![n] = r]
           q == d.inode_bitmap \cup {n}
<1>1. d \in Disks /\ d.inodes \in Pools /\ d.inode_bitmap \in InodeBitmaps
  BY DiskTypes DEF Sound
<1>2. n \in Inodes \ d.inode_bitmap
  <2>1. Inodes \subseteq Nat
    BY ApiAssumption DEF Inodes
  <2>2. d.inode_bitmap \subseteq Inodes /\ d.inode_bitmap # Inodes
    BY <1>1 DEF InodeBitmaps, NoInodes
  <2>3. Inodes \ d.inode_bitmap \in SUBSET Nat /\ Inodes \ d.inode_bitmap # {}
    BY <2>1, <2>2, Zenon
  <2> QED  BY <2>3, MinIsThere DEF NextInode
<1>3. r \in InodeRecords /\ r.type = type /\ r.size = 0 /\ r.first_block = RAMFS_END
  BY DEF FreeInode, InodeRecords, Types
<1>4. e = [[d EXCEPT !.inode_bitmap = q] EXCEPT !.inodes = p]
  BY <1>1 DEF inode_alloc, Disks
<1> HIDE DEF r, n
<1>5. /\ p \in Pools /\ \A i \in Inodes \ {n} : p[i] = d.inodes[i] /\ p[n] = r
      /\ q \in InodeBitmaps /\ p[n] = r
  BY <1>1, <1>2, <1>3 DEF Pools, InodeBitmaps
<1> HIDE DEF p, q, e
<1>6. [d EXCEPT !.inode_bitmap = q] \in Disks
  BY <1>1, <1>5, ReplacedFields
<1>7. e \in Disks
  BY <1>4, <1>5, <1>6, ReplacedFields
<1>8. /\ e.inodes = p /\ e.fat = d.fat /\ e.block_bitmap = d.block_bitmap
      /\ e.data_blocks = d.data_blocks /\ e.inode_bitmap = q
  BY <1>1, <1>4 DEF Disks
<1>9. \A i \in Inodes : e.inodes[i].first_block = d.inodes[i].first_block
  <2>1. d.inodes[n] = FreeInode
    BY <1>1, <1>2 DEF Sound, FreeIsEmpty
  <2>2. FreeInode.first_block = RAMFS_END
    BY DEF FreeInode
  <2> QED  BY <1>3, <1>5, <1>8, <2>1, <2>2
<1>10. \A i \in Inodes : Chain(e, i) = Chain(d, i)
  BY <1>1, <1>7, <1>8, <1>9, SameChain
<1>11. Sound(e)
  <2>1. Ends(e) /\ Apart(e) /\ Owned(e)
    BY <1>8, <1>10 DEF Sound, Ends, Apart, Owned
  <2>2. FreeIsEmpty(e)
    BY <1>1, <1>2, <1>3, <1>5, <1>8 DEF Sound, FreeIsEmpty, q
  <2> QED  BY <1>7, <2>1, <2>2 DEF Sound
<1>12. ChainLength(e, n) = 0
  <2>1. /\ ChainLength(e, n) \in 0..NBlocks
        /\ \A k \in 0..NBlocks : Chain(e, n)[k] # RAMFS_END <=> k < ChainLength(e, n)
    BY <1>2, <1>7, <1>11, Lengths DEF Sound, Ends
  <2>2. Chain(e, n)[0] = RAMFS_END
    BY <1>2, <1>3, <1>5, <1>7, <1>8, ChainIsChain DEF IsChain
  <2> QED  BY <2>1, <2>2, RamFSAssumption
<1> QED  BY <1>2, <1>3, <1>5, <1>8, <1>10, <1>11, <1>12 DEF e, n, q

(***************************************************************************)
(* Cells                                                                   *)
(***************************************************************************)
LEMMA Addressing ==
  ASSUME NEW d, Sound(d), NEW ino \in Inodes, NEW i \in 0..(Backed(d, ino) - 1)
  PROVE  /\ i \div BlockSize \in 0..(ChainLength(d, ino) - 1)
         /\ i \div BlockSize \in 0..(NBlocks - 1)
         /\ i % BlockSize \in Offsets
         /\ Chain(d, ino)[i \div BlockSize] \in Blocks
         /\ i = BlockSize * (i \div BlockSize) + (i % BlockSize)
<1> DEFINE n == ChainLength(d, ino)
           k == i \div BlockSize
<1>1. n \in 0..NBlocks /\ \A l \in 0..NBlocks : Chain(d, ino)[l] # RAMFS_END <=> l < n
  BY Lengths DEF Sound, Ends
<1> HIDE DEF n
<1>2. n \in Nat /\ Backed(d, ino) = BlockSize * n /\ BlockSize * n \in Nat
  BY <1>1, RamFSAssumption DEF Backed, n
<1>3. i \in Nat /\ i < BlockSize * n
  BY <1>2
<1>4. /\ k \in Nat /\ i % BlockSize \in 0..(BlockSize - 1)
      /\ i = BlockSize * k + (i % BlockSize)
  BY <1>3, Division
<1>5. k < n
  <2>1. SUFFICES ASSUME n <= k PROVE FALSE
        BY <1>2, <1>4
  <2>2. BlockSize * n <= BlockSize * k
    <3> HIDE DEF k
    <3>1. n < k => BlockSize * n + BlockSize <= BlockSize * k /\ BlockSize * k \in Nat
      <4>1. k \in Nat /\ BlockSize * k \in Nat
        BY <1>4, RamFSAssumption
      <4> QED  BY <1>2, <4>1, Product
    <3>2. n = k \/ n < k
      BY <1>2, <1>4, <2>1
    <3> QED  BY <1>2, <3>1, <3>2, RamFSAssumption
  <2>3. BlockSize * k \in Nat
    BY <1>4, RamFSAssumption
  <2> HIDE DEF k
  <2> QED  BY <1>2, <1>3, <1>4, <2>2, <2>3, RamFSAssumption
<1> HIDE DEF k
<1>6. k \in 0..(n - 1) /\ k \in 0..(NBlocks - 1) /\ k \in 0..NBlocks
  BY <1>1, <1>4, <1>5, RamFSAssumption
<1>7. Chain(d, ino)[k] \in Blocks
  <2>1. Chain(d, ino)[k] # RAMFS_END /\ Chain(d, ino)[k] \in Links
    BY <1>1, <1>5, <1>6, ChainIsChain DEF IsChain, Sound
  <2> QED  BY <2>1, EndNotBlock
<1> QED  BY <1>4, <1>6, <1>7 DEF k, n, Offsets


LEMMA BackedIsNat ==
  ASSUME NEW d, Sound(d), NEW ino \in Inodes
  PROVE  Backed(d, ino) \in Nat
<1>1. ChainLength(d, ino) \in Nat
  BY Lengths, RamFSAssumption DEF Sound, Ends
<1> QED  BY <1>1, RamFSAssumption DEF Backed

LEMMA CellTypes ==
  ASSUME NEW d, Sound(d), NEW ino \in Inodes, NEW i \in 0..(Backed(d, ino) - 1)
  PROVE  CellAt(d, ino, i) \in Contents
<1>1. Chain(d, ino)[i \div BlockSize] \in Blocks /\ i % BlockSize \in Offsets
  BY Addressing
<1>2. d.data_blocks \in Stores
  BY DiskTypes DEF Sound
<1> QED  BY <1>1, <1>2 DEF CellAt, Stores

(* Disk e is d with n cells stored from an offset of an inode. *)
IsData(cells) == Len(cells) \in Nat /\ \A k \in 1..Len(cells) : cells[k] \in Contents

Kept(d, e, ino) ==
  /\ e.inode_bitmap = d.inode_bitmap
  /\ \A i \in Inodes : e.inodes[i].type = d.inodes[i].type
  /\ \A i \in Inodes \ {ino} :
       /\ e.inodes[i].size = d.inodes[i].size /\ ChainLength(e, i) = ChainLength(d, i)
       /\ \A k \in 0..(Backed(d, i) - 1) : CellAt(e, i, k) = CellAt(d, i, k)

LEMMA StoredKeeps ==
  ASSUME NEW d, Sound(d), NEW ino \in d.inode_bitmap, NEW offset \in Nat, NEW cells, IsData(cells)
  PROVE  LET w == Stored(d, ino, offset, cells)
             e == w.disk
             n == w.result.n IN
         /\ Sound(e) /\ Kept(d, e, ino) /\ w.result.err = "OK"
         /\ n = Smaller(Len(cells), Larger(0, Backed(d, ino) - offset))
         /\ ChainLength(e, ino) = ChainLength(d, ino)
         /\ e.inodes[ino].size = Larger(d.inodes[ino].size, offset + n)
         /\ \A i \in 0..(Backed(d, ino) - 1) :
              CellAt(e, ino, i) = IF i \in offset..(offset + n - 1) THEN cells[i - offset + 1]
                                  ELSE CellAt(d, ino, i)
<1> USE RamFSAssumption
<1> DEFINE c == Chain(d, ino)
           total == Smaller(Len(cells), Larger(0, Backed(d, ino) - offset))
           size == Larger(d.inodes[ino].size, offset + total)
           Position(b) == CHOOSE k \in 0..(NBlocks - 1) : c[k] = b
           Index(b, o) == Position(b) * BlockSize + o - offset + 1
           written == ChainBlocks(d, ino)
           s == [b \in Blocks |->
                   IF b \notin written THEN d.data_blocks[b]
                   ELSE [o \in 0..(BlockSize - 1) |->
                           IF Index(b, o) \in 1..total THEN cells[Index(b, o)]
                           ELSE d.data_blocks[b][o]]]
           p == [d.inodes EXCEPT ![ino].size = size]
           w == Stored(d, ino, offset, cells)
           e == w.disk
<1>1. /\ d \in Disks /\ ino \in Inodes /\ d.data_blocks \in Stores /\ d.inodes \in Pools
      /\ d.inodes[ino].size \in Nat
  BY DiskTypes DEF Sound, InodeBitmaps
<1>2. Backed(d, ino) \in Nat
  BY <1>1, BackedIsNat
<1>3. total \in 0..Len(cells) /\ total \in Nat /\ size \in Nat
  BY <1>1, <1>2 DEF IsData, Smaller, Larger
<1>4. w = [disk |-> [d EXCEPT !.data_blocks = s, !.inodes = p], result |-> Success(total, <<>>)]
  BY <1>1 DEF Stored, Disks
<1>5. e = [[d EXCEPT !.data_blocks = s] EXCEPT !.inodes = p]
  <2> HIDE DEF s, p, w, total
  <2> QED  BY <1>4
<1>6. w.result.n = total /\ w.result.err = "OK"
  <2> HIDE DEF s, p, w, total
  <2>1. w.result = Success(total, <<>>)
    BY <1>4
  <2> QED  BY <2>1 DEF Success
<1>7. s \in Stores
  <2>1. ASSUME NEW b \in Blocks, NEW o \in Offsets
        PROVE  Index(b, o) \in 1..total => cells[Index(b, o)] \in Contents
    <3> DEFINE x == Index(b, o)
    <3> HIDE DEF x, total
    <3> SUFFICES ASSUME x \in 1..total PROVE cells[x] \in Contents
        BY DEF x
    <3> QED  BY <1>3 DEF IsData
  <2> HIDE DEF Index, written, total
  <2>2. \A b \in Blocks, o \in Offsets : d.data_blocks[b][o] \in Contents
    BY <1>1 DEF Stores
  <2>3. ASSUME NEW b \in Blocks
        PROVE  s[b] \in [Offsets -> Contents]
    BY <1>1, <2>1, <2>2 DEF Stores, Offsets
  <2> QED  BY <2>3 DEF Stores
<1>8. /\ p \in Pools /\ \A i \in Inodes \ {ino} : p[i] = d.inodes[i]
      /\ p[ino].type = d.inodes[ino].type /\ p[ino].size = size
      /\ p[ino].first_block = d.inodes[ino].first_block
  <2> HIDE DEF size
  <2> QED  BY <1>1, <1>3, InodeFields
<1>9. /\ e \in Disks /\ e.inodes = p /\ e.data_blocks = s /\ e.fat = d.fat
      /\ e.block_bitmap = d.block_bitmap /\ e.inode_bitmap = d.inode_bitmap
  <2> HIDE DEF s, p, w
  <2>1. [d EXCEPT !.data_blocks = s] \in Disks
    BY <1>1, <1>7, ReplacedFields
  <2>2. e \in Disks
    BY <1>5, <1>8, <2>1, ReplacedFields
  <2> QED  BY <1>1, <1>5, <2>2 DEF Disks
<1>10. \A i \in Inodes : Chain(e, i) = Chain(d, i)
  <2> HIDE DEF e, p, s
  <2>1. \A i \in Inodes : e.inodes[i].first_block = d.inodes[i].first_block
    BY <1>8, <1>9
  <2> QED  BY <1>1, <1>9, <2>1, SameChain
<1>11. Sound(e)
  <2> HIDE DEF e, p, s
  <2>1. Ends(e) /\ Apart(e) /\ Owned(e)
    BY <1>9, <1>10 DEF Sound, Ends, Apart, Owned
  <2>2. FreeIsEmpty(e)
    BY <1>1, <1>8, <1>9 DEF Sound, FreeIsEmpty
  <2> QED  BY <1>9, <2>1, <2>2 DEF Sound
<1>12. \A i \in Inodes : ChainLength(e, i) = ChainLength(d, i) /\ Backed(e, i) = Backed(d, i)
  BY <1>10 DEF ChainLength, Backed
<1>13. ASSUME NEW i \in Inodes \ {ino}, NEW k \in 0..(Backed(d, i) - 1)
       PROVE  CellAt(e, i, k) = CellAt(d, i, k)
  <2> DEFINE b == Chain(d, i)[k \div BlockSize]
  <2>1. b \in Blocks /\ k \div BlockSize \in 0..(NBlocks - 1)
    BY Addressing
  <2>2. b \notin written
    <3>1. \A l \in 0..(NBlocks - 1) : c[l] # b
      <4>1. \A l \in 0..(NBlocks - 1) : l \in 0..NBlocks
        OBVIOUS
      <4> QED  BY <1>1, <2>1, <4>1, EndNotBlock DEF Sound, Apart
    <3> QED  BY <3>1 DEF ChainBlocks
  <2> HIDE DEF b, written
  <2>3. s[b] = d.data_blocks[b]
    BY <2>1, <2>2
  <2> HIDE DEF s
  <2> QED  BY <1>9, <1>10, <2>3 DEF CellAt, b
<1>14. ASSUME NEW i \in 0..(Backed(d, ino) - 1)
       PROVE  CellAt(e, ino, i) = IF i \in offset..(offset + total - 1) THEN cells[i - offset + 1]
                                  ELSE CellAt(d, ino, i)
  <2> DEFINE k == i \div BlockSize
             o == i % BlockSize
             b == c[k]
  <2>1. /\ k \in 0..(NBlocks - 1) /\ o \in Offsets /\ b \in Blocks
        /\ i = BlockSize * k + o
    BY <1>1, Addressing
  <2>2. Position(b) = k
    <3>1. \A l \in 0..(NBlocks - 1) : c[l] = b => l = k
      <4>1. \A l \in 0..(NBlocks - 1) : l \in 0..NBlocks
        OBVIOUS
      <4> QED  BY <1>1, <2>1, <4>1, EndNotBlock DEF Sound, Apart
    <3> QED  BY <2>1, <3>1
  <2>3. b \in written
    BY <2>1, EndNotBlock DEF ChainBlocks
  <2> HIDE DEF b, k, o, written, Position
  <2>4. Index(b, o) = i - offset + 1
    <3>1. k \in Int /\ o \in Int /\ BlockSize * k = k * BlockSize /\ BlockSize * k \in Int
      BY <2>1 DEF Offsets
    <3> QED  BY <2>1, <2>2, <3>1
  <2> HIDE DEF Index
  <2>5. s[b][o] = IF Index(b, o) \in 1..total THEN cells[Index(b, o)] ELSE d.data_blocks[b][o]
    BY <2>1, <2>3 DEF Offsets
  <2>6. CellAt(e, ino, i) = s[b][o] /\ CellAt(d, ino, i) = d.data_blocks[b][o]
    <3> HIDE DEF s
    <3> QED  BY <1>1, <1>9, <1>10 DEF CellAt, b, k, o
  <2> HIDE DEF s
  <2>7. Index(b, o) \in 1..total <=> i \in offset..(offset + total - 1)
    <3> HIDE DEF total
    <3> QED  BY <1>2, <1>3, <2>4
  <2> HIDE DEF total
  <2> QED  BY <2>4, <2>5, <2>6, <2>7
<1> HIDE DEF s, p, total
<1>15. Kept(d, e, ino)
  BY <1>8, <1>9, <1>12, <1>13 DEF Kept
<1>16. total = Smaller(Len(cells), Larger(0, Backed(d, ino) - offset))
  BY DEF total
<1>17. e.inodes[ino].size = size
  BY <1>8, <1>9
<1> HIDE DEF e, w
<1> QED  BY <1>1, <1>6, <1>11, <1>12, <1>14, <1>15, <1>16, <1>17 DEF e, w

LEMMA AddressIn ==
  ASSUME NEW d, Sound(d), NEW ino \in Inodes, NEW i \in Nat
  PROVE  i < Backed(d, ino) <=> i \div BlockSize < ChainLength(d, ino)
<1> USE RamFSAssumption
<1> DEFINE n == ChainLength(d, ino)
           k == i \div BlockSize
<1>1. n \in Nat /\ Backed(d, ino) = BlockSize * n /\ Backed(d, ino) \in Nat
  BY Lengths, BackedIsNat DEF Sound, Ends, Backed
<1>2. k \in Nat /\ i % BlockSize \in 0..(BlockSize - 1) /\ i = BlockSize * k + (i % BlockSize)
  BY Division
<1>3. i < Backed(d, ino) => k < n
  BY <1>1, Addressing
<1>4. ASSUME k < n PROVE i < Backed(d, ino)
  <2> HIDE DEF k, n
  <2>1. BlockSize * k + BlockSize <= BlockSize * n /\ BlockSize * k \in Nat
    BY <1>1, <1>2, <1>4, Product
  <2> QED  BY <1>1, <1>2, <2>1
<1> QED  BY <1>3, <1>4

(* What a longer chain of zeros does to the cells. *)
LEMMA GrownCells ==
  ASSUME NEW d, NEW e, Sound(d), Sound(e), NEW ino \in Inodes, Grown(d, e, ino)
  PROVE  /\ Kept(d, e, ino) /\ Backed(d, ino) <= Backed(e, ino)
         /\ \A i \in 0..(Backed(e, ino) - 1) :
              CellAt(e, ino, i) = IF i < Backed(d, ino) THEN CellAt(d, ino, i) ELSE Zero
<1> USE RamFSAssumption
<1>1. \A i \in Inodes : Backed(d, i) \in Nat /\ Backed(e, i) \in Nat
  BY BackedIsNat
<1>2. ASSUME NEW i \in Inodes, NEW k \in 0..(Backed(d, i) - 1)
      PROVE  CellAt(e, i, k) = CellAt(d, i, k)
  <2> DEFINE p == k \div BlockSize
  <2>1. p \in 0..(ChainLength(d, i) - 1) /\ p \in 0..NBlocks /\ Chain(d, i)[p] \in Blocks
    BY Addressing
  <2> HIDE DEF p
  <2>2. Chain(d, i)[p] \in d.block_bitmap
    BY <2>1 DEF Sound, Owned
  <2>3. Chain(e, i)[p] = Chain(d, i)[p]
    BY <2>1 DEF Grown
  <2>4. e.data_blocks[Chain(d, i)[p]] = d.data_blocks[Chain(d, i)[p]]
    BY <2>2 DEF Grown
  <2> QED  BY <2>3, <2>4 DEF CellAt, p
<1>3. ASSUME NEW i \in Inodes \ {ino}
      PROVE  ChainLength(e, i) = ChainLength(d, i)
  BY DEF Grown, ChainLength
<1>4. Kept(d, e, ino)
  BY <1>2, <1>3 DEF Kept, Grown
<1>5. Backed(d, ino) <= Backed(e, ino)
  <2> DEFINE l == ChainLength(d, ino)
             m == ChainLength(e, ino)
  <2>1. l \in Nat /\ m \in Nat /\ l <= m
    BY Lengths DEF Sound, Ends, Grown
  <2> HIDE DEF l, m
  <2>2. l < m => BlockSize * l + BlockSize <= BlockSize * m
    BY <2>1, Product
  <2>3. BlockSize * l \in Nat /\ BlockSize * m \in Nat
    BY <2>1
  <2>4. BlockSize * l <= BlockSize * m
    BY <2>1, <2>2, <2>3
  <2> QED  BY <2>1, <2>4 DEF Backed, l, m
<1>6. ASSUME NEW i \in 0..(Backed(e, ino) - 1)
      PROVE  CellAt(e, ino, i) = IF i < Backed(d, ino) THEN CellAt(d, ino, i) ELSE Zero
  <2>1. CASE i < Backed(d, ino)
    <3>1. i \in 0..(Backed(d, ino) - 1)
      BY <1>1, <2>1
    <3> QED  BY <1>2, <2>1, <3>1
  <2>2. CASE ~(i < Backed(d, ino))
    <3> DEFINE p == i \div BlockSize
    <3>1. p \in 0..(ChainLength(e, ino) - 1) /\ i % BlockSize \in Offsets
      BY Addressing
    <3>2. i \in Nat /\ ~(p < ChainLength(d, ino))
      BY <1>1, <2>2, AddressIn
    <3>3. ChainLength(d, ino) \in Nat /\ ChainLength(e, ino) \in Nat
      BY Lengths DEF Sound, Ends
    <3> HIDE DEF p
    <3>4. p \in ChainLength(d, ino)..(ChainLength(e, ino) - 1)
      BY <3>1, <3>2, <3>3
    <3>5. e.data_blocks[Chain(e, ino)[p]] = ZeroBlock
      BY <3>4 DEF Grown
    <3> QED  BY <2>2, <3>1, <3>5 DEF CellAt, ZeroBlock, Offsets, p
  <2> QED  BY <2>1, <2>2
<1> QED  BY <1>4, <1>5, <1>6

LEMMA KeptOn ==
  ASSUME NEW d, NEW e, NEW f, NEW ino, Kept(d, e, ino), Kept(e, f, ino)
  PROVE  Kept(d, f, ino)
<1>1. \A i \in Inodes \ {ino} : Backed(e, i) = Backed(d, i)
  BY DEF Kept, Backed
<1> QED  BY <1>1 DEF Kept

(* A write to an inode: it stores its cells from the offset on, as many as
   there is room for, and any gap before them is zero. *)
LEMMA WriteKeeps ==
  ASSUME NEW d, Sound(d), NEW ino \in d.inode_bitmap, NEW offset \in Nat, NEW cells, IsData(cells)
  PROVE  LET w == chain_write(d, ino, offset, cells)
             e == w.disk
             n == w.result.n IN
         /\ Sound(e) /\ Kept(d, e, ino)
         /\ w.result.err \in {"OK", "NO_SPACE"} /\ n \in 0..Len(cells)
         /\ Backed(d, ino) <= Backed(e, ino) /\ (n > 0 => offset + n <= Backed(e, ino))
         /\ w.result.err = "OK" => e.inodes[ino].size = Larger(d.inodes[ino].size, offset + n)
         /\ w.result.err # "OK" => e.inodes[ino].size = d.inodes[ino].size /\ n = 0
         /\ \A i \in 0..(Backed(e, ino) - 1) :
              CellAt(e, ino, i) = IF i \in offset..(offset + n - 1) THEN cells[i - offset + 1]
                                  ELSE IF i < Backed(d, ino) THEN CellAt(d, ino, i) ELSE Zero
<1> USE RamFSAssumption
<1> DEFINE want == BlocksTo(offset, Len(cells)) - ChainLength(d, ino)
           k == Larger(0, want)
           f == Extended(d, ino, k)
           w == chain_write(d, ino, offset, cells)
<1>1. ino \in Inodes
  BY DiskTypes DEF Sound, InodeBitmaps
<1>2. k \in Nat
  <2>1. ChainLength(d, ino) \in Int
    BY <1>1, Lengths DEF Sound, Ends
  <2>2. BlocksTo(offset, Len(cells)) \in Int
    BY DEF BlocksTo, IsData
  <2> QED  BY <2>1, <2>2 DEF Larger
<1>3. w = IF ChainLength(f, ino) < offset \div BlockSize
          THEN [disk |-> f, result |-> Failure("NO_SPACE")] ELSE Stored(f, ino, offset, cells)
  BY DEF chain_write
<1> HIDE DEF k
<1>4. Sound(f) /\ Grown(d, f, ino)
  BY <1>2, ExtendedKeeps
<1> HIDE DEF f, w
<1>5. /\ Kept(d, f, ino) /\ Backed(d, ino) <= Backed(f, ino)
      /\ \A i \in 0..(Backed(f, ino) - 1) :
           CellAt(f, ino, i) = IF i < Backed(d, ino) THEN CellAt(d, ino, i) ELSE Zero
  BY <1>1, <1>4, GrownCells
<1>6. f.inodes[ino].size = d.inodes[ino].size /\ ino \in f.inode_bitmap
  BY <1>1, <1>4 DEF Grown
<1>7. CASE ChainLength(f, ino) < offset \div BlockSize
  <2>1. w.disk = f /\ w.result.n = 0 /\ w.result.err = "NO_SPACE"
    BY <1>3, <1>7 DEF Failure
  <2>2. offset..(offset + 0 - 1) = {} /\ 0 \in 0..Len(cells)
    BY DEF IsData
  <2> QED  BY <1>4, <1>5, <1>6, <2>1, <2>2 DEF w
<1>8. CASE ~(ChainLength(f, ino) < offset \div BlockSize)
  <2> DEFINE e == w.disk
             n == w.result.n
  <2>1. /\ Sound(e) /\ Kept(f, e, ino) /\ w.result.err = "OK"
        /\ n = Smaller(Len(cells), Larger(0, Backed(f, ino) - offset))
        /\ ChainLength(e, ino) = ChainLength(f, ino)
        /\ e.inodes[ino].size = Larger(f.inodes[ino].size, offset + n)
        /\ \A i \in 0..(Backed(f, ino) - 1) :
             CellAt(e, ino, i) = IF i \in offset..(offset + n - 1) THEN cells[i - offset + 1]
                                 ELSE CellAt(f, ino, i)
    BY <1>3, <1>4, <1>6, <1>8, StoredKeeps
  <2> HIDE DEF e, n
  <2>2. Backed(e, ino) = Backed(f, ino) /\ Backed(f, ino) \in Nat
    BY <1>1, <1>4, <2>1, BackedIsNat DEF Backed
  <2>3. n \in 0..Len(cells) /\ (n > 0 => offset + n <= Backed(e, ino))
    BY <2>1, <2>2 DEF Smaller, Larger, IsData
  <2>4. Kept(d, e, ino)
    BY <1>5, <2>1, KeptOn
  <2>5. \A i \in 0..(Backed(e, ino) - 1) :
          CellAt(e, ino, i) = IF i \in offset..(offset + n - 1) THEN cells[i - offset + 1]
                              ELSE IF i < Backed(d, ino) THEN CellAt(d, ino, i) ELSE Zero
    BY <1>5, <2>1, <2>2
  <2> QED  BY <1>5, <1>6, <2>1, <2>2, <2>3, <2>4, <2>5 DEF e, n, w
<1> QED  BY <1>7, <1>8

(***************************************************************************)
(* The namespace                                                           *)
(***************************************************************************)
Size(d, ino) == d.inodes[ino].size
Dirs(d) == {i \in d.inode_bitmap : d.inodes[i].type = "DIR"}
Live(d, dir, i) == dir \in Dirs(d) /\ i \in 0..(Size(d, dir) - 1) /\ CellAt(d, dir, i) # Hole

ZeroBeyond(d) ==
  \A ino \in d.inode_bitmap : \A i \in Size(d, ino)..(Backed(d, ino) - 1) : CellAt(d, ino, i) = Zero
Readable(d) == \A dir \in Dirs(d) : Size(d, dir) <= Backed(d, dir)
Linked(d) ==
  \A dir \in Dirs(d), i \in Nat :
    Live(d, dir, i) => /\ CellAt(d, dir, i) \in Dirents
                       /\ CellAt(d, dir, i).inode \in d.inode_bitmap \ {ROOT_INODE}
Unique(d) ==
  \A dir, other \in Dirs(d), i, j \in Nat :
    /\ Live(d, dir, i) /\ Live(d, other, j)
    /\ \/ CellAt(d, dir, i).inode = CellAt(d, other, j).inode
       \/ dir = other /\ CellAt(d, dir, i).name = CellAt(d, other, j).name
    => dir = other /\ i = j
Named(d) ==
  \A ino \in d.inode_bitmap \ {ROOT_INODE} :
    \E dir \in Dirs(d), i \in Nat : Live(d, dir, i) /\ CellAt(d, dir, i).inode = ino
Bounded(d) == \A dir \in Dirs(d) : Size(d, dir) < NInodes

Stock(d) == Sound(d) /\ ZeroBeyond(d) /\ Readable(d)
Tree(d) == ROOT_INODE \in Dirs(d) /\ Linked(d) /\ Unique(d) /\ Named(d) /\ Bounded(d)

(* Disk e has the inodes, or the directories, and their cells as d has them:
   chains may be longer. *)
SameInode(d, e, i) ==
  /\ Size(e, i) = Size(d, i) /\ Backed(d, i) <= Backed(e, i)
  /\ \A k \in 0..(Backed(d, i) - 1) : CellAt(e, i, k) = CellAt(d, i, k)
Same(d, e) ==
  /\ e.inode_bitmap = d.inode_bitmap
  /\ \A i \in d.inode_bitmap : e.inodes[i].type = d.inodes[i].type /\ SameInode(d, e, i)
SameDirs(d, e) ==
  /\ e.inode_bitmap = d.inode_bitmap
  /\ \A i \in d.inode_bitmap : e.inodes[i].type = d.inodes[i].type
  /\ \A i \in Dirs(d) : SameInode(d, e, i)

LEMMA BitmapTypes ==
  ASSUME NEW d, Sound(d)
  PROVE  /\ d \in Disks /\ d.inode_bitmap \subseteq Inodes /\ Dirs(d) \subseteq Inodes
         /\ Dirs(d) \subseteq d.inode_bitmap
         /\ \A i \in Inodes : Size(d, i) \in Nat /\ Backed(d, i) \in Nat
<1>1. d \in Disks
  BY DEF Sound
<1>2. d.inode_bitmap \subseteq Inodes
  BY <1>1, DiskTypes DEF InodeBitmaps
<1>3. \A i \in Inodes : Size(d, i) \in Nat /\ Backed(d, i) \in Nat
  BY <1>1, DiskTypes, BackedIsNat DEF Size
<1> QED  BY <1>1, <1>2, <1>3 DEF Dirs

LEMMA SameDirsKeepTree ==
  ASSUME NEW d, NEW e, Stock(d), Tree(d), Sound(e), SameDirs(d, e)
  PROVE  /\ Tree(e) /\ Readable(e) /\ Dirs(e) = Dirs(d)
         /\ \A dir \in Dirs(d), i \in Nat : /\ Live(e, dir, i) <=> Live(d, dir, i)
                                            /\ Live(d, dir, i) => CellAt(e, dir, i) = CellAt(d, dir, i)
<1>1. Dirs(e) = Dirs(d)
  BY DEF Dirs, SameDirs
<1>2. /\ d.inode_bitmap \subseteq Inodes /\ Dirs(d) \subseteq d.inode_bitmap
      /\ \A i \in Inodes : /\ Size(d, i) \in Nat /\ Backed(d, i) \in Nat /\ Size(e, i) \in Nat
                           /\ Backed(e, i) \in Nat
  BY BitmapTypes DEF Stock
<1>3. \A dir \in Dirs(d) : Size(e, dir) = Size(d, dir) /\ Backed(d, dir) <= Backed(e, dir)
  BY <1>2 DEF SameDirs, SameInode
<1>4. ASSUME NEW dir \in Dirs(d), NEW i \in Nat, i \in 0..(Size(d, dir) - 1)
      PROVE  CellAt(e, dir, i) = CellAt(d, dir, i)
  <2>1. dir \in Inodes /\ dir \in d.inode_bitmap /\ Size(d, dir) <= Backed(d, dir)
    BY <1>2 DEF Stock, Readable
  <2>2. i \in 0..(Backed(d, dir) - 1)
    BY <1>2, <1>4, <2>1
  <2> QED  BY <2>1, <2>2 DEF SameDirs, SameInode
<1>5. ASSUME NEW dir \in Dirs(d), NEW i \in Nat
      PROVE  /\ Live(e, dir, i) <=> Live(d, dir, i)
             /\ Live(d, dir, i) => CellAt(e, dir, i) = CellAt(d, dir, i)
  BY <1>1, <1>3, <1>4 DEF Live
<1>6. Readable(e)
  <2>1. \A dir \in Dirs(d) : Size(d, dir) <= Backed(d, dir)
    BY DEF Stock, Readable
  <2>2. ASSUME NEW dir \in Dirs(d)
        PROVE  Size(e, dir) <= Backed(e, dir)
    <3>1. dir \in Inodes
      BY <1>2
    <3> QED  BY <1>2, <1>3, <2>1, <3>1
  <2> QED  BY <1>1, <2>2 DEF Readable
<1>7. Linked(e)
  BY <1>1, <1>5 DEF Linked, Tree, SameDirs
<1>8. Unique(e)
  BY <1>1, <1>5 DEF Unique, Tree
<1>9. Named(e)
  BY <1>1, <1>5 DEF Named, Tree, SameDirs
<1>10. Bounded(e)
  BY <1>1, <1>3 DEF Bounded, Tree
<1> QED  BY <1>1, <1>5, <1>6, <1>7, <1>8, <1>9, <1>10 DEF Tree

(* A write keeps what lies beyond the end zero. *)
LEMMA WriteKeepsZero ==
  ASSUME NEW d, Sound(d), ZeroBeyond(d), NEW ino \in d.inode_bitmap, NEW offset \in Nat,
         NEW cells, IsData(cells)
  PROVE  ZeroBeyond(chain_write(d, ino, offset, cells).disk)
<1> DEFINE w == chain_write(d, ino, offset, cells)
           e == w.disk
           n == w.result.n
<1>1. /\ Sound(e) /\ Kept(d, e, ino) /\ n \in 0..Len(cells)
      /\ Backed(d, ino) <= Backed(e, ino)
      /\ w.result.err = "OK" => Size(e, ino) = Larger(Size(d, ino), offset + n)
      /\ w.result.err # "OK" => Size(e, ino) = Size(d, ino) /\ n = 0
      /\ \A i \in 0..(Backed(e, ino) - 1) :
           CellAt(e, ino, i) = IF i \in offset..(offset + n - 1) THEN cells[i - offset + 1]
                               ELSE IF i < Backed(d, ino) THEN CellAt(d, ino, i) ELSE Zero
  BY WriteKeeps DEF Size
<1> HIDE DEF w, e, n
<1>2. /\ d.inode_bitmap \subseteq Inodes /\ e.inode_bitmap = d.inode_bitmap
      /\ \A i \in Inodes : /\ Size(d, i) \in Nat /\ Backed(d, i) \in Nat /\ Size(e, i) \in Nat
                           /\ Backed(e, i) \in Nat
  BY <1>1, BitmapTypes DEF Kept
<1>3. ASSUME NEW i \in Size(e, ino)..(Backed(e, ino) - 1)
      PROVE  CellAt(e, ino, i) = Zero
  <2>1. i \in 0..(Backed(e, ino) - 1) /\ i >= Size(d, ino) /\ i \notin offset..(offset + n - 1)
    <3>1. ino \in Inodes /\ n \in Nat
      BY <1>1, <1>2 DEF IsData
    <3>2. CASE w.result.err = "OK"
      <4>1. Size(e, ino) >= Size(d, ino) /\ Size(e, ino) >= offset + n
        BY <1>1, <1>2, <3>1, <3>2 DEF Larger
      <4> QED  BY <1>2, <3>1, <4>1
    <3>3. CASE w.result.err # "OK"
      BY <1>1, <1>2, <3>1, <3>3
    <3> QED  BY <3>2, <3>3
  <2>2. i < Backed(d, ino) => CellAt(d, ino, i) = Zero
    <3>1. i < Backed(d, ino) => i \in Size(d, ino)..(Backed(d, ino) - 1)
      BY <1>2, <2>1
    <3> QED  BY <3>1 DEF ZeroBeyond
  <2> QED  BY <1>1, <2>1, <2>2
<1>4. ASSUME NEW j \in d.inode_bitmap, j # ino, NEW i \in Size(e, j)..(Backed(e, j) - 1)
      PROVE  CellAt(e, j, i) = Zero
  <2>1. j \in Inodes \ {ino}
    BY <1>2, <1>4
  <2>2. /\ Size(e, j) = Size(d, j) /\ Backed(e, j) = Backed(d, j)
        /\ \A k \in 0..(Backed(d, j) - 1) : CellAt(e, j, k) = CellAt(d, j, k)
    BY <1>1, <2>1 DEF Kept, Size, Backed
  <2>3. i \in 0..(Backed(d, j) - 1)
    BY <1>2, <2>1, <2>2
  <2> QED  BY <2>2, <2>3 DEF ZeroBeyond
<1> QED  BY <1>2, <1>3, <1>4 DEF ZeroBeyond, e, w

(* The write of one dirent, in a slot or at the end of the array. *)
LEMMA EntryWritten ==
  ASSUME NEW d, Stock(d), NEW dir \in Dirs(d), NEW slot \in 0..Size(d, dir), NEW cell \in Contents
  PROVE  LET w == chain_write(d, dir, slot, <<cell>>)
             e == w.disk IN
         /\ Sound(e) /\ ZeroBeyond(e)
         /\ w.result.n # 1 => Same(d, e)
         /\ w.result.n = 1 =>
              /\ Stock(e) /\ Kept(d, e, dir) /\ Backed(d, dir) <= Backed(e, dir)
              /\ Size(e, dir) = Larger(Size(d, dir), slot + 1)
              /\ \A i \in 0..(Size(e, dir) - 1) :
                   CellAt(e, dir, i) = IF i = slot THEN cell ELSE CellAt(d, dir, i)
<1> DEFINE cells == <<cell>>
           w == chain_write(d, dir, slot, cells)
           e == w.disk
           n == w.result.n
<1>1. /\ Sound(d) /\ ZeroBeyond(d) /\ Readable(d) /\ dir \in d.inode_bitmap /\ dir \in Inodes
      /\ \A i \in Inodes : Size(d, i) \in Nat /\ Backed(d, i) \in Nat
  BY BitmapTypes DEF Stock
<1>2. IsData(cells) /\ Len(cells) = 1 /\ cells[1] = cell /\ slot \in Nat
  BY <1>1 DEF IsData
<1> HIDE DEF cells
<1>3. /\ Sound(e) /\ Kept(d, e, dir) /\ n \in 0..1
      /\ Backed(d, dir) <= Backed(e, dir) /\ (n > 0 => slot + n <= Backed(e, dir))
      /\ w.result.err = "OK" => Size(e, dir) = Larger(Size(d, dir), slot + n)
      /\ w.result.err # "OK" => Size(e, dir) = Size(d, dir) /\ n = 0
      /\ \A i \in 0..(Backed(e, dir) - 1) :
           CellAt(e, dir, i) = IF i \in slot..(slot + n - 1) THEN cells[i - slot + 1]
                               ELSE IF i < Backed(d, dir) THEN CellAt(d, dir, i) ELSE Zero
  <2>1. /\ Sound(e) /\ Kept(d, e, dir) /\ n \in 0..Len(cells)
        /\ Backed(d, dir) <= Backed(e, dir) /\ (n > 0 => slot + n <= Backed(e, dir))
        /\ w.result.err = "OK" => Size(e, dir) = Larger(Size(d, dir), slot + n)
        /\ w.result.err # "OK" => Size(e, dir) = Size(d, dir) /\ n = 0
        /\ \A i \in 0..(Backed(e, dir) - 1) :
             CellAt(e, dir, i) = IF i \in slot..(slot + n - 1) THEN cells[i - slot + 1]
                                 ELSE IF i < Backed(d, dir) THEN CellAt(d, dir, i) ELSE Zero
    <3>1. /\ Sound(e) /\ Kept(d, e, dir) /\ n \in 0..Len(cells)
          /\ Backed(d, dir) <= Backed(e, dir) /\ (n > 0 => slot + n <= Backed(e, dir))
          /\ w.result.err = "OK" => e.inodes[dir].size = Larger(d.inodes[dir].size, slot + n)
          /\ w.result.err # "OK" => e.inodes[dir].size = d.inodes[dir].size /\ n = 0
          /\ \A i \in 0..(Backed(e, dir) - 1) :
               CellAt(e, dir, i) = IF i \in slot..(slot + n - 1) THEN cells[i - slot + 1]
                                   ELSE IF i < Backed(d, dir) THEN CellAt(d, dir, i) ELSE Zero
      <4>1. Sound(d) /\ dir \in d.inode_bitmap
        BY <1>1
      <4>2. IsData(cells) /\ slot \in Nat
        BY <1>2
      <4> HIDE <1>1, <1>2
      <4> QED  BY <4>1, <4>2, WriteKeeps
    <3> HIDE DEF w, e, n
    <3> QED  BY <3>1 DEF Size
  <2> QED  BY <1>2, <2>1
<1>4. ZeroBeyond(e)
  BY <1>1, <1>2, WriteKeepsZero
<1> HIDE DEF w, e, n
<1>5. /\ e.inode_bitmap = d.inode_bitmap /\ d.inode_bitmap \subseteq Inodes
      /\ \A i \in Inodes : /\ Size(e, i) \in Nat /\ Backed(e, i) \in Nat
                           /\ e.inodes[i].type = d.inodes[i].type
      /\ \A i \in Inodes \ {dir} :
           /\ Size(e, i) = Size(d, i) /\ Backed(e, i) = Backed(d, i)
           /\ \A k \in 0..(Backed(d, i) - 1) : CellAt(e, i, k) = CellAt(d, i, k)
  BY <1>1, <1>3, BitmapTypes DEF Kept, Size, Backed
<1>6. Dirs(e) = Dirs(d)
  BY <1>5 DEF Dirs
<1>7. ASSUME n # 1
      PROVE  Same(d, e)
  <2>1. n = 0 /\ Size(e, dir) = Size(d, dir)
    BY <1>1, <1>2, <1>3, <1>7 DEF Larger
  <2>2. \A k \in 0..(Backed(d, dir) - 1) : CellAt(e, dir, k) = CellAt(d, dir, k)
    BY <1>1, <1>2, <1>3, <1>5, <2>1
  <2> QED  BY <1>1, <1>3, <1>5, <2>1, <2>2 DEF Same, SameInode
<1>8. ASSUME n = 1
      PROVE  /\ Size(e, dir) = Larger(Size(d, dir), slot + 1) /\ Size(e, dir) <= Backed(e, dir)
             /\ \A i \in 0..(Size(e, dir) - 1) :
                  CellAt(e, dir, i) = IF i = slot THEN cell ELSE CellAt(d, dir, i)
  <2>1. Size(e, dir) = Larger(Size(d, dir), slot + 1) /\ slot + 1 <= Backed(e, dir)
    BY <1>3, <1>8
  <2>2. Size(d, dir) <= Backed(d, dir)
    BY <1>1 DEF Readable
  <2>3. Size(e, dir) <= Backed(e, dir)
    BY <1>1, <1>2, <1>3, <1>5, <2>1, <2>2 DEF Larger
  <2>4. ASSUME NEW i \in 0..(Size(e, dir) - 1)
        PROVE  CellAt(e, dir, i) = IF i = slot THEN cell ELSE CellAt(d, dir, i)
    <3>1. i \in 0..(Backed(e, dir) - 1)
      BY <1>1, <1>5, <2>3
    <3>2. i \in slot..(slot + n - 1) <=> i = slot
      BY <1>1, <1>2, <1>5, <1>8
    <3>3. i # slot => i < Size(d, dir)
      BY <1>1, <1>2, <1>5, <2>1 DEF Larger
    <3>4. i # slot => i < Backed(d, dir)
      BY <1>1, <1>5, <2>2, <3>3
    <3>5. i = slot => cells[i - slot + 1] = cell
      <4>1. i = slot => i - slot + 1 = 1
        BY <1>2
      <4> QED  BY <1>2, <4>1
    <3> QED  BY <1>3, <3>1, <3>2, <3>4, <3>5
  <2> QED  BY <2>1, <2>3, <2>4
<1>9. ASSUME n = 1
      PROVE  Stock(e)
  <2>1. Readable(e)
    <3>1. ASSUME NEW i \in Dirs(d), i # dir
          PROVE  Size(e, i) <= Backed(e, i)
      <4>1. i \in Inodes \ {dir}
        BY <3>1, BitmapTypes DEF Stock
      <4> QED  BY <1>1, <1>5, <4>1 DEF Readable
    <3> QED  BY <1>6, <1>8, <1>9, <3>1 DEF Readable
  <2> QED  BY <1>3, <1>4, <2>1 DEF Stock
<1> QED  BY <1>3, <1>4, <1>7, <1>8, <1>9 DEF w, e, n, cells

LEMMA DirentNotHole == \A cell \in Dirents : cell # Hole
<1> QED  BY RamFSAssumption

LEMMA SlotsAre ==
  ASSUME NEW d, Stock(d), NEW dir \in Dirs(d)
  PROVE  Slots(d, dir) = 0..(Size(d, dir) - 1) /\ ~Unreadable(d, dir) /\ IsDir(d, dir)
<1>1. /\ Size(d, dir) \in Nat /\ Backed(d, dir) \in Nat /\ Size(d, dir) <= Backed(d, dir)
      /\ dir \in d.inode_bitmap
  BY BitmapTypes DEF Stock, Readable
<1> QED  BY <1>1 DEF Slots, Unreadable, IsDir, Size, Dirs, Smaller

(* What dir_find finds: the inode of the one live dirent of that name. *)
LEMMA DirFind ==
  ASSUME NEW d, Stock(d), Linked(d), Unique(d), NEW dir, NEW name
  PROVE  /\ dir \notin Dirs(d) => dir_find(d, dir, name) = Failure("NOT_DIR")
         /\ \A i \in Nat : Live(d, dir, i) /\ CellAt(d, dir, i).name = name =>
              /\ dir_find(d, dir, name) = Success(CellAt(d, dir, i).inode, <<>>)
              /\ SlotsNamed(d, dir, name) = {i}
         /\ dir \in Dirs(d) /\ (\A i \in Nat : Live(d, dir, i) => CellAt(d, dir, i).name # name) =>
              dir_find(d, dir, name) = Failure("NOT_FOUND") /\ SlotsNamed(d, dir, name) = {}
<1>1. ASSUME dir \notin Dirs(d)
      PROVE  dir_find(d, dir, name) = Failure("NOT_DIR")
  BY <1>1 DEF dir_find, IsDir, Dirs
<1>2. ASSUME dir \in Dirs(d)
      PROVE  /\ SlotsNamed(d, dir, name)
                = {i \in Nat : Live(d, dir, i) /\ CellAt(d, dir, i).name = name}
             /\ ~Unreadable(d, dir) /\ IsDir(d, dir) /\ Size(d, dir) \in Nat
  <2>1. Slots(d, dir) = 0..(Size(d, dir) - 1) /\ ~Unreadable(d, dir) /\ IsDir(d, dir)
    BY <1>2, SlotsAre
  <2>2. Size(d, dir) \in Nat
    BY <1>2, BitmapTypes DEF Stock
  <2>3. ASSUME NEW i \in 0..(Size(d, dir) - 1)
        PROVE  IsDirent(CellAt(d, dir, i)) <=> Live(d, dir, i)
    BY <1>2, <2>2, <2>3, DirentNotHole DEF IsDirent, Live, Linked
  <2> QED  BY <1>2, <2>1, <2>2, <2>3 DEF SlotsNamed, Live
<1>3. ASSUME NEW i \in Nat, Live(d, dir, i), CellAt(d, dir, i).name = name
      PROVE  /\ dir_find(d, dir, name) = Success(CellAt(d, dir, i).inode, <<>>)
             /\ SlotsNamed(d, dir, name) = {i}
  <2>1. dir \in Dirs(d)
    BY <1>3 DEF Live
  <2>2. SlotsNamed(d, dir, name) = {i}
    BY <1>2, <1>3, <2>1 DEF Unique
  <2>3. MinOf({i}) = i
    BY DEF MinOf
  <2> QED  BY <1>2, <2>1, <2>2, <2>3 DEF dir_find
<1>4. ASSUME dir \in Dirs(d), \A i \in Nat : Live(d, dir, i) => CellAt(d, dir, i).name # name
      PROVE  dir_find(d, dir, name) = Failure("NOT_FOUND") /\ SlotsNamed(d, dir, name) = {}
  <2>1. SlotsNamed(d, dir, name) = {}
    BY <1>2, <1>4
  <2> QED  BY <1>2, <1>4, <2>1 DEF dir_find
<1> QED  BY <1>1, <1>3, <1>4


(***************************************************************************)
(* Paths                                                                   *)
(***************************************************************************)
(* Directory dir has a live dirent of that name for inode ino. *)
Entry(d, dir, name, ino) == \E k \in Nat : Live(d, dir, k) /\ CellAt(d, dir, k) = Dirent(name, ino)

(* Dirents lead from the root along path to inode ino. *)
Resolves(d, path, ino) ==
  \E w \in [0..Len(path) -> Inodes] :
    /\ w[0] = ROOT_INODE /\ w[Len(path)] = ino
    /\ \A i \in 1..Len(path) : path[i] \notin LongNames /\ Entry(d, w[i - 1], path[i], w[i])
Reachable(d) == \A ino \in d.inode_bitmap : \E path \in AbsolutePaths : Resolves(d, path, ino)

LEMMA PathTypes ==
  ASSUME NEW path \in AbsolutePaths
  PROVE  /\ path \in Seq(Names) /\ Len(path) \in 0..Depth /\ path # BadPath
         /\ \A i \in 1..Len(path) : path[i] \in Names
<1>1. PICK n \in 0..Depth : path \in [1..n -> Names]
  BY DEF AbsolutePaths
<1>2. n \in Nat
  BY ApiAssumption
<1>3. path \in Seq(Names) /\ Len(path) = n
  BY <1>1, <1>2
<1> QED  BY <1>1, <1>3, ApiAssumption

LEMMA ParentTypes ==
  ASSUME NEW path \in AbsolutePaths, path # <<>>
  PROVE  /\ Parent(path) \in AbsolutePaths /\ Len(path) - 1 \in Nat /\ Len(path) - 1 <= Depth
         /\ Len(Parent(path)) = Len(path) - 1 /\ Leaf(path) \in Names
         /\ \A i \in 1..(Len(path) - 1) : Parent(path)[i] = path[i]
<1> DEFINE n == Len(path)
<1>1. path \in Seq(Names) /\ n \in 0..Depth /\ \A i \in 1..n : path[i] \in Names
  BY PathTypes
<1>2. n # 0
  BY <1>1, EmptySeq
<1>3. n - 1 \in Nat /\ n - 1 \in 0..Depth /\ n \in 1..n
  BY <1>1, <1>2, ApiAssumption
<1> HIDE DEF n
<1>4. \A i \in 1..(n - 1) : path[i] \in Names
  BY <1>1, <1>3
<1>5. /\ Parent(path) \in Seq(Names) /\ Len(Parent(path)) = n - 1
      /\ \A i \in 1..(n - 1) : Parent(path)[i] = path[i]
  <2>1. /\ SubSeq(path, 1, n - 1) \in Seq(Names)
        /\ Len(SubSeq(path, 1, n - 1)) = IF 1 <= n - 1 THEN (n - 1) - 1 + 1 ELSE 0
        /\ \A i \in 1..((n - 1) - 1 + 1) : SubSeq(path, 1, n - 1)[i] = path[1 + i - 1]
    BY <1>3, <1>4, SubSeqProperties
  <2>2. (n - 1) - 1 + 1 = n - 1 /\ \A i \in 1..(n - 1) : 1 + i - 1 = i
    BY <1>3
  <2>3. Parent(path) = SubSeq(path, 1, n - 1)
    BY DEF Parent, n
  <2> QED  BY <1>3, <2>1, <2>2, <2>3
<1>6. Parent(path) \in [1..(n - 1) -> Names]
  BY <1>3, <1>5, LenProperties
<1>7. Parent(path) \in AbsolutePaths
  BY <1>3, <1>6 DEF AbsolutePaths
<1>8. Leaf(path) \in Names
  BY <1>1, <1>3 DEF Leaf, n
<1> QED  BY <1>3, <1>5, <1>7, <1>8 DEF n


(* What a walk is after each component, and the walk itself. *)
Arrivals == [err : Errors, n : Inodes, data : {<<>>}]
IsWalk(d, path, w) ==
  /\ w \in [0..Len(path) -> Arrivals] /\ w[0] = Success(ROOT_INODE, <<>>)
  /\ \A i \in Nat : i + 1 \in 1..Len(path) => w[i + 1] = Descend(d, w[i], path[i + 1])

(* One component goes through a live dirent of that name, or fails. *)
LEMMA DescendIs ==
  ASSUME NEW d, Stock(d), Linked(d), Unique(d), NEW at \in Arrivals, NEW name \in Names
  PROVE  LET to == Descend(d, at, name) IN
         /\ to \in Arrivals
         /\ \A ino \in Inodes : at.err = "OK" /\ name \notin LongNames /\ Entry(d, at.n, name, ino) =>
              to = Success(ino, <<>>)
         /\ to.err = "OK" => /\ at.err = "OK" /\ name \notin LongNames
                             /\ Entry(d, at.n, name, to.n) /\ to.data = <<>>
<1> DEFINE to == Descend(d, at, name)
<1>1. 0 \in Inodes /\ d.inode_bitmap \subseteq Inodes
  BY ApiAssumption, BitmapTypes DEF Inodes, Stock
<1>2. \A err \in Errors : Failure(err) \in Arrivals /\ Failure(err).err = err
  BY <1>1 DEF Failure, Arrivals
<1>3. \A ino \in Inodes : Success(ino, <<>>) \in Arrivals /\ Success(ino, <<>>).err = "OK"
  BY DEF Success, Arrivals, Errors
<1>4. CASE at.err # "OK"
  BY <1>4 DEF Descend
<1>5. CASE at.err = "OK" /\ name \in LongNames
  BY <1>2, <1>5 DEF Descend, Failure, Errors
<1>6. CASE at.err = "OK" /\ name \notin LongNames
  <2>1. to = dir_find(d, at.n, name)
    BY <1>6 DEF Descend
  <2>2. ASSUME NEW i \in Nat, Live(d, at.n, i), CellAt(d, at.n, i).name = name
        PROVE  /\ to = Success(CellAt(d, at.n, i).inode, <<>>) /\ CellAt(d, at.n, i).inode \in Inodes
               /\ Entry(d, at.n, name, CellAt(d, at.n, i).inode)
    <3>1. to = Success(CellAt(d, at.n, i).inode, <<>>)
      BY <2>1, <2>2, DirFind
    <3>2. CellAt(d, at.n, i) \in Dirents /\ CellAt(d, at.n, i).inode \in d.inode_bitmap
      BY <2>2 DEF Linked, Live
    <3>3. CellAt(d, at.n, i) = Dirent(name, CellAt(d, at.n, i).inode)
      BY <2>2, <3>2 DEF Dirents, Dirent
    <3> QED  BY <1>1, <2>2, <3>1, <3>2, <3>3 DEF Entry
  <2>3. CASE at.n \notin Dirs(d)
    <3>1. to = Failure("NOT_DIR")
      BY <2>1, <2>3, DirFind
    <3>2. \A ino \in Inodes : ~Entry(d, at.n, name, ino)
      BY <2>3 DEF Entry, Live
    <3> QED  BY <1>2, <3>1, <3>2 DEF Errors
  <2>4. CASE \E i \in Nat : Live(d, at.n, i) /\ CellAt(d, at.n, i).name = name
    <3>1. PICK i \in Nat : Live(d, at.n, i) /\ CellAt(d, at.n, i).name = name
      BY <2>4
    <3>2. to = Success(CellAt(d, at.n, i).inode, <<>>) /\ CellAt(d, at.n, i).inode \in Inodes
      BY <2>2, <3>1
    <3>3. ASSUME NEW ino \in Inodes, Entry(d, at.n, name, ino)
          PROVE  to = Success(ino, <<>>)
      <4>1. PICK k \in Nat : Live(d, at.n, k) /\ CellAt(d, at.n, k) = Dirent(name, ino)
        BY <3>3 DEF Entry
      <4>2. CellAt(d, at.n, k).name = name /\ CellAt(d, at.n, k).inode = ino
        BY <4>1 DEF Dirent
      <4> QED  BY <2>2, <4>1, <4>2
    <3>4. to.n = CellAt(d, at.n, i).inode /\ to.data = <<>>
      BY <3>2 DEF Success
    <3> QED  BY <1>3, <1>6, <2>2, <3>1, <3>2, <3>3, <3>4
  <2>5. CASE at.n \in Dirs(d) /\ ~\E i \in Nat : Live(d, at.n, i) /\ CellAt(d, at.n, i).name = name
    <3>1. to = Failure("NOT_FOUND")
      BY <2>1, <2>5, DirFind
    <3>2. \A ino \in Inodes : ~Entry(d, at.n, name, ino)
      BY <2>5 DEF Entry, Dirent
    <3> QED  BY <1>2, <3>1, <3>2 DEF Errors
  <2> QED  BY <2>3, <2>4, <2>5
<1> QED  BY <1>4, <1>5, <1>6

LEMMA WalkIs ==
  ASSUME NEW d, Stock(d), Linked(d), Unique(d), NEW path \in AbsolutePaths
  PROVE  \E w : IsWalk(d, path, w) /\ path_resolve(d, path) = w[Len(path)]
<1> DEFINE n == Len(path)
           step == [s \in Nat \X Arrivals |-> IF s[1] + 1 \in 1..n THEN Descend(d, s[2], path[s[1] + 1])
                                              ELSE s[2]]
           root == Success(ROOT_INODE, <<>>)
           after(h) == [i \in 0..n |-> IF i = 0 THEN root ELSE Descend(d, h[i - 1], path[i])]
           w == CHOOSE h : h = after(h)
<1>1. n \in Nat /\ path # BadPath /\ \A i \in 1..n : path[i] \in Names
  BY PathTypes, ApiAssumption
<1>2. root \in Arrivals
  BY ApiAssumption DEF Success, Arrivals, Inodes, ROOT_INODE, Errors
<1>3. path_resolve(d, path) = w[n]
  BY <1>1 DEF path_resolve
<1> HIDE DEF n, root
<1>4. \E h : h = after(h)
  <2>1. step \in StepsOn(Arrivals)
    <3>1. ASSUME NEW i \in Nat, NEW at \in Arrivals
          PROVE  (IF i + 1 \in 1..n THEN Descend(d, at, path[i + 1]) ELSE at) \in Arrivals
      BY <1>1, DescendIs
    <3> QED  BY <3>1 DEF StepsOn
  <2>2. \A i \in Nat, at \in Arrivals :
          i + 1 \in 1..n => step[<<i, at>>] = Descend(d, at, path[i + 1])
    OBVIOUS
  <2> HIDE DEF step
  <2>3. PICK f : f \in Iterations(Arrivals, root, step)
    BY <1>2, <2>1, Iteration
  <2> DEFINE h == [i \in 0..n |-> f[i]]
  <2>4. ASSUME NEW i \in 0..n
        PROVE  h[i] = after(h)[i]
    <3>1. CASE i = 0
      BY <2>3, <3>1 DEF Iterations
    <3>2. CASE i # 0
      <4>1. i - 1 \in Nat /\ i - 1 \in 0..n /\ (i - 1) + 1 = i /\ i \in 1..n
        BY <1>1, <3>2
      <4>2. f[i - 1] \in Arrivals /\ f[(i - 1) + 1] = step[<<i - 1, f[i - 1]>>]
        BY <2>3, <4>1 DEF Iterations
      <4> QED  BY <2>2, <3>2, <4>1, <4>2
    <3> QED  BY <3>1, <3>2
  <2>5. h = [i \in 0..n |-> h[i]] /\ after(h) = [i \in 0..n |-> after(h)[i]]
    OBVIOUS
  <2>6. h = after(h)
    BY <2>4, <2>5
  <2> QED  BY <2>6
<1>5. w = after(w)
  <2> HIDE DEF after
  <2> QED  BY <1>4
<1> HIDE DEF w
<1>6. w[0] = root /\ \A i \in Nat : i + 1 \in 1..n => w[i + 1] = Descend(d, w[i], path[i + 1])
  <2>1. after(w)[0] = root
    BY <1>1
  <2>2. ASSUME NEW i \in Nat, i + 1 \in 1..n
        PROVE  after(w)[i + 1] = Descend(d, w[i], path[i + 1])
    <3>1. i + 1 # 0 /\ (i + 1) - 1 = i /\ i + 1 \in 0..n
      BY <2>2
    <3> QED  BY <2>2, <3>1
  <2> HIDE DEF after
  <2> QED  BY <1>5, <2>1, <2>2
<1> DEFINE T == {i \in Nat : i <= n => w[i] \in Arrivals}
<1>7. 0 \in T
  BY <1>2, <1>6
<1>8. ASSUME NEW i \in Nat, i \in T
      PROVE  i + 1 \in T
  <2>1. SUFFICES ASSUME i + 1 <= n PROVE w[i + 1] \in Arrivals
        OBVIOUS
  <2>2. w[i] \in Arrivals /\ i + 1 \in 1..n
    BY <1>1, <1>8, <2>1
  <2> HIDE DEF T
  <2> QED  BY <1>1, <1>6, <2>2, DescendIs
<1>9. Nat \subseteq T
  <2> HIDE DEF T
  <2> QED  BY <1>7, <1>8, SetInduction
<1>10. w \in [0..n -> Arrivals]
  <2>1. \A i \in 0..n : w[i] \in Arrivals
    BY <1>1, <1>9
  <2>2. w = [i \in 0..n |-> w[i]]
    <3>1. after(w) = [i \in 0..n |-> after(w)[i]]
      OBVIOUS
    <3> HIDE DEF after
    <3> QED  BY <1>5, <3>1
  <2> QED  BY <2>1, <2>2
<1>11. IsWalk(d, path, w)
  <2> HIDE DEF T
  <2> QED  BY <1>6, <1>10 DEF IsWalk, n, root
<1> QED  BY <1>3, <1>11 DEF n


(* path_resolve finds what the dirents lead to, and nothing else. *)
LEMMA ResolveIs ==
  ASSUME NEW d, Stock(d), Linked(d), Unique(d), NEW path \in AbsolutePaths
  PROVE  /\ path_resolve(d, path) \in Arrivals
         /\ \A ino \in Inodes : Resolves(d, path, ino) => path_resolve(d, path) = Success(ino, <<>>)
         /\ path_resolve(d, path).err = "OK" =>
              /\ Resolves(d, path, path_resolve(d, path).n)
              /\ path_resolve(d, path).data = <<>>
<1> DEFINE n == Len(path)
<1>1. PICK w : IsWalk(d, path, w) /\ path_resolve(d, path) = w[n]
  BY WalkIs
<1>2. n \in Nat /\ \A i \in 1..n : path[i] \in Names
  BY PathTypes, ApiAssumption
<1> HIDE DEF n
<1>3. /\ w \in [0..n -> Arrivals] /\ w[0] = Success(ROOT_INODE, <<>>)
      /\ \A i \in Nat : i + 1 \in 1..n => w[i + 1] = Descend(d, w[i], path[i + 1])
  BY <1>1 DEF IsWalk, n
<1>4. \A i \in 0..n : w[i] \in Arrivals /\ w[i].n \in Inodes
  BY <1>3 DEF Arrivals
<1>5. ASSUME NEW ino \in Inodes, Resolves(d, path, ino)
      PROVE  w[n] = Success(ino, <<>>)
  <2>1. PICK v \in [0..n -> Inodes] :
          /\ v[0] = ROOT_INODE /\ v[n] = ino
          /\ \A i \in 1..n : path[i] \notin LongNames /\ Entry(d, v[i - 1], path[i], v[i])
    BY <1>5 DEF Resolves, n
  <2> DEFINE T == {i \in Nat : i <= n => w[i] = Success(v[i], <<>>)}
  <2>2. 0 \in T
    BY <1>3, <2>1
  <2>3. ASSUME NEW i \in Nat, i \in T
        PROVE  i + 1 \in T
    <3>1. SUFFICES ASSUME i + 1 <= n PROVE w[i + 1] = Success(v[i + 1], <<>>)
          OBVIOUS
    <3>2. i + 1 \in 1..n /\ i \in 0..n /\ (i + 1) - 1 = i /\ i + 1 \in 0..n
      BY <1>2, <3>1
    <3>3. w[i] = Success(v[i], <<>>) /\ w[i] \in Arrivals
      BY <1>2, <1>4, <2>3, <3>1
    <3>4. w[i].err = "OK" /\ w[i].n = v[i]
      BY <3>3 DEF Success
    <3>5. path[i + 1] \notin LongNames /\ Entry(d, v[i], path[i + 1], v[i + 1])
      BY <2>1, <3>2
    <3>6. w[i + 1] = Descend(d, w[i], path[i + 1]) /\ path[i + 1] \in Names /\ v[i + 1] \in Inodes
      BY <1>2, <1>3, <2>1, <3>2
    <3> QED  BY <3>3, <3>4, <3>5, <3>6, DescendIs
  <2> HIDE DEF T
  <2>4. n \in T
    BY <1>2, <2>2, <2>3, SetInduction
  <2> QED  BY <1>2, <2>1, <2>4 DEF T
<1>6. ASSUME w[n].err = "OK"
      PROVE  Resolves(d, path, w[n].n) /\ w[n].data = <<>>
  <2> DEFINE v == [i \in 0..n |-> w[i].n]
             T == {i \in Nat : i <= n /\ w[i].err = "OK" =>
                     \A j \in 1..i : /\ path[j] \notin LongNames
                                     /\ Entry(d, w[j - 1].n, path[j], w[j].n)}
  <2>1. 0 \in T
    OBVIOUS
  <2>2. ASSUME NEW i \in Nat, i \in T
        PROVE  i + 1 \in T
    <3>1. SUFFICES ASSUME i + 1 <= n, w[i + 1].err = "OK"
                   PROVE  \A j \in 1..(i + 1) : /\ path[j] \notin LongNames
                                                /\ Entry(d, w[j - 1].n, path[j], w[j].n)
          OBVIOUS
    <3>2. i + 1 \in 1..n /\ i \in 0..n
      BY <1>2, <3>1
    <3>3. w[i + 1] = Descend(d, w[i], path[i + 1]) /\ path[i + 1] \in Names /\ w[i] \in Arrivals
      BY <1>2, <1>3, <3>2
    <3>4. /\ w[i].err = "OK" /\ path[i + 1] \notin LongNames
          /\ Entry(d, w[i].n, path[i + 1], w[i + 1].n)
      BY <3>1, <3>3, DescendIs
    <3>5. \A j \in 1..i : path[j] \notin LongNames /\ Entry(d, w[j - 1].n, path[j], w[j].n)
      BY <1>2, <2>2, <3>1, <3>4
    <3>6. \A j \in 1..(i + 1) : j \in 1..i \/ (j = i + 1 /\ j - 1 = i)
      OBVIOUS
    <3> QED  BY <3>4, <3>5, <3>6
  <2> HIDE DEF T
  <2>3. n \in T
    BY <1>2, <2>1, <2>2, SetInduction
  <2>4. \A j \in 1..n : path[j] \notin LongNames /\ Entry(d, w[j - 1].n, path[j], w[j].n)
    BY <1>2, <1>6, <2>3 DEF T
  <2>5. v \in [0..n -> Inodes] /\ v[0] = ROOT_INODE /\ v[n] = w[n].n
    BY <1>2, <1>3, <1>4 DEF Success
  <2>6. \A j \in 1..n : v[j - 1] = w[j - 1].n /\ v[j] = w[j].n
    BY <1>2
  <2> HIDE DEF v
  <2>7. \A j \in 1..n : path[j] \notin LongNames /\ Entry(d, v[j - 1], path[j], v[j])
    BY <2>4, <2>6
  <2>8. Resolves(d, path, w[n].n)
    BY <2>5, <2>7 DEF Resolves, n
  <2>9. w[n].data = <<>>
    BY <1>2, <1>4 DEF Arrivals
  <2> QED  BY <2>8, <2>9
<1> QED  BY <1>1, <1>2, <1>4, <1>5, <1>6

LEMMA ResolvedIsThere ==
  ASSUME NEW d, Stock(d), Linked(d), ROOT_INODE \in Dirs(d), NEW path \in AbsolutePaths,
         NEW ino \in Inodes, Resolves(d, path, ino)
  PROVE  ino \in d.inode_bitmap
<1>1. PICK w \in [0..Len(path) -> Inodes] :
        /\ w[0] = ROOT_INODE /\ w[Len(path)] = ino
        /\ \A i \in 1..Len(path) : path[i] \notin LongNames /\ Entry(d, w[i - 1], path[i], w[i])
  BY DEF Resolves
<1>2. Len(path) \in Nat
  BY PathTypes, ApiAssumption
<1>3. CASE Len(path) = 0
  BY <1>1, <1>3, BitmapTypes DEF Stock
<1>4. CASE Len(path) # 0
  <2>1. Len(path) \in 1..Len(path)
    BY <1>2, <1>4
  <2>2. Entry(d, w[Len(path) - 1], path[Len(path)], ino)
    BY <1>1, <2>1
  <2>3. PICK k \in Nat : /\ Live(d, w[Len(path) - 1], k)
                         /\ CellAt(d, w[Len(path) - 1], k) = Dirent(path[Len(path)], ino)
    BY <2>2 DEF Entry
  <2> QED  BY <2>3 DEF Linked, Live, Dirent
<1> QED  BY <1>3, <1>4


(***************************************************************************)
(* A new entry                                                             *)
(***************************************************************************)
(* inode_alloc leaves the tree as it was, but for an inode with no name. *)
LEMMA NewInode ==
  ASSUME NEW d, Stock(d), Tree(d), ~NoInodes(d), NEW type \in {"FILE", "DIR"}
  PROVE  LET t == inode_alloc(d, type)
             n == NextInode(d) IN
         /\ Stock(t) /\ Linked(t) /\ Unique(t) /\ n \in Inodes \ d.inode_bitmap
         /\ t.inode_bitmap = d.inode_bitmap \cup {n}
         /\ t.inodes[n].type = type /\ Size(t, n) = 0
         /\ Dirs(d) = Dirs(t) \ {n} /\ ROOT_INODE \in d.inode_bitmap
         /\ \A i \in Inodes \ {n} :
              /\ t.inodes[i] = d.inodes[i] /\ Size(t, i) = Size(d, i) /\ Backed(t, i) = Backed(d, i)
              /\ \A k \in Nat : CellAt(t, i, k) = CellAt(d, i, k)
         /\ \A dir : \A i \in Nat : Live(t, dir, i) <=> Live(d, dir, i)
<1> DEFINE t == inode_alloc(d, type)
           n == NextInode(d)
<1>1. /\ Sound(t) /\ n \in Inodes \ d.inode_bitmap
      /\ t.inode_bitmap = d.inode_bitmap \cup {n}
      /\ \A i \in Inodes \ {n} : t.inodes[i] = d.inodes[i]
      /\ t.inodes[n].type = type /\ t.inodes[n].size = 0
      /\ \A i \in Inodes : Chain(t, i) = Chain(d, i)
      /\ t.data_blocks = d.data_blocks /\ ChainLength(t, n) = 0
  BY InodeAllocKeeps DEF Stock
<1> HIDE DEF t, n
<1>2. /\ d.inode_bitmap \subseteq Inodes /\ Dirs(d) \subseteq d.inode_bitmap
      /\ ROOT_INODE \in d.inode_bitmap
      /\ \A i \in Inodes : Size(d, i) \in Nat /\ Backed(d, i) \in Nat
  BY BitmapTypes DEF Stock, Tree
<1>3. \A i \in Inodes \ {n} :
        /\ t.inodes[i] = d.inodes[i] /\ Size(t, i) = Size(d, i) /\ Backed(t, i) = Backed(d, i)
        /\ \A k \in Nat : CellAt(t, i, k) = CellAt(d, i, k)
  <2>1. ASSUME NEW i \in Inodes \ {n}
        PROVE  Backed(t, i) = Backed(d, i)
    BY <1>1 DEF Backed, ChainLength
  <2>2. ASSUME NEW i \in Inodes \ {n}, NEW k \in Nat
        PROVE  CellAt(t, i, k) = CellAt(d, i, k)
    BY <1>1 DEF CellAt
  <2> QED  BY <1>1, <2>1, <2>2 DEF Size
<1>4. Size(t, n) = 0 /\ Backed(t, n) = 0
  BY <1>1, RamFSAssumption DEF Size, Backed
<1>5. Dirs(d) = Dirs(t) \ {n}
  BY <1>1, <1>2 DEF Dirs
<1>6. ASSUME NEW dir, NEW i \in Nat
      PROVE  /\ Live(t, dir, i) <=> Live(d, dir, i)
             /\ Live(d, dir, i) => dir \in Inodes \ {n} /\ CellAt(t, dir, i) = CellAt(d, dir, i)
  <2>1. CASE dir = n
    BY <1>1, <1>2, <1>4, <2>1 DEF Live
  <2>2. CASE dir # n
    BY <1>1, <1>2, <1>3, <1>5, <2>2 DEF Live, Dirs
  <2> QED  BY <2>1, <2>2
<1>7. ZeroBeyond(t)
  <2>1. ASSUME NEW i \in t.inode_bitmap, NEW k \in Size(t, i)..(Backed(t, i) - 1)
        PROVE  CellAt(t, i, k) = Zero
    <3>1. i # n
      BY <1>4, <2>1
    <3>2. i \in d.inode_bitmap /\ i \in Inodes \ {n}
      BY <1>1, <1>2, <3>1
    <3>3. k \in Size(d, i)..(Backed(d, i) - 1) /\ k \in Nat
      BY <1>2, <1>3, <2>1, <3>2
    <3> QED  BY <1>3, <3>2, <3>3 DEF Stock, ZeroBeyond
  <2> QED  BY <2>1 DEF ZeroBeyond
<1>8. Readable(t)
  <2>1. ASSUME NEW dir \in Dirs(t)
        PROVE  Size(t, dir) <= Backed(t, dir)
    <3>1. CASE dir = n
      BY <1>4, <3>1
    <3>2. CASE dir # n
      BY <1>2, <1>3, <1>5, <3>2 DEF Stock, Readable
    <3> QED  BY <3>1, <3>2
  <2> QED  BY <2>1 DEF Readable
<1>9. Linked(t)
  BY <1>1, <1>6 DEF Tree, Linked, Live
<1>10. Unique(t)
  BY <1>1, <1>6 DEF Tree, Unique, Live
<1> QED  BY <1>1, <1>2, <1>3, <1>4, <1>5, <1>6, <1>7, <1>8, <1>9, <1>10 DEF Stock, t, n

(* A directory without a hole has fewer slots than there are inodes to name. *)
LEMMA LiveFit ==
  ASSUME NEW d, Stock(d), Linked(d), Unique(d), NEW dir \in Dirs(d), NEW n \in Inodes \ {ROOT_INODE},
         \A i \in 0..(Size(d, dir) - 1) : Live(d, dir, i) /\ CellAt(d, dir, i).inode # n
  PROVE  Size(d, dir) + 1 < NInodes
<1> DEFINE s == Size(d, dir)
           S == 0..(s - 1)
           T == (Inodes \ {ROOT_INODE}) \ {n}
           f == [i \in S |-> CellAt(d, dir, i).inode]
<1>1. s \in Nat /\ d.inode_bitmap \subseteq Inodes
  BY BitmapTypes DEF Stock
<1>2. f \in [S -> T]
  BY <1>1 DEF Linked
<1>3. \A i, j \in S : f[i] = f[j] => i = j
  BY <1>1 DEF Unique
<1>4. f \in Injection(S, T)
  <2> HIDE DEF f, S, T
  <2> QED  BY <1>2, <1>3 DEF Injection, IsInjective
<1>5. IsFiniteSet(T) /\ Cardinality(T) = NInodes - 2
  <2>1. IsFiniteSet(Inodes) /\ Cardinality(Inodes) = NInodes
    BY ApiAssumption, FS_Interval DEF Inodes
  <2>2. ROOT_INODE \in Inodes
    BY ApiAssumption DEF Inodes, ROOT_INODE
  <2>3. IsFiniteSet(Inodes \ {ROOT_INODE}) /\ Cardinality(Inodes \ {ROOT_INODE}) = NInodes - 1
    BY <2>1, <2>2, FS_RemoveElement
  <2>4. NInodes \in Nat
    BY ApiAssumption
  <2> QED  BY <2>3, <2>4, FS_RemoveElement
<1>6. Cardinality(S) = s
  BY <1>1, FS_Interval
<1>7. Cardinality(S) <= Cardinality(T)
  <2> HIDE DEF f, S, T
  <2> QED  BY <1>4, <1>5, FS_Injection
<1> HIDE DEF S, T
<1> QED  BY <1>1, <1>5, <1>6, <1>7, ApiAssumption


(* dir_add to a directory that does not have the name. *)
LEMMA DirAdd ==
  ASSUME NEW d, Stock(d), Linked(d), Unique(d), NEW p \in Dirs(d),
         NEW name \in Names \ LongNames, NEW n \in Inodes,
         \A i \in Nat : Live(d, p, i) => CellAt(d, p, i).name # name
  PROVE  LET a == dir_add(d, p, name, n)
             e == a.disk IN
         /\ Sound(e) /\ ZeroBeyond(e) /\ a.err \in {"OK", "NO_SPACE"}
         /\ a.err # "OK" => Same(d, e)
         /\ a.err = "OK" =>
              /\ Stock(e) /\ Kept(d, e, p) /\ Backed(d, p) <= Backed(e, p)
              /\ \/ Size(e, p) = Size(d, p)
                 \/ /\ Size(e, p) = Size(d, p) + 1
                    /\ \A i \in 0..(Size(d, p) - 1) : Live(d, p, i)
              /\ \E slot \in Nat :
                   /\ ~Live(d, p, slot) /\ slot < Size(e, p)
                   /\ CellAt(e, p, slot) = Dirent(name, n)
                   /\ \A i \in 0..(Size(e, p) - 1) : i # slot =>
                        i < Size(d, p) /\ CellAt(e, p, i) = CellAt(d, p, i)
<1> DEFINE holes == HoleSlots(d, p)
           size == Size(d, p)
           slot == IF holes # {} THEN MinOf(holes) ELSE size
           cell == Dirent(name, n)
           w == chain_write(d, p, slot, <<cell>>)
           a == dir_add(d, p, name, n)
           e == w.disk
<1>1. size \in Nat /\ Slots(d, p) = 0..(size - 1) /\ ~Unreadable(d, p) /\ IsDir(d, p)
  BY SlotsAre, BitmapTypes DEF Stock
<1>2. dir_find(d, p, name) = Failure("NOT_FOUND")
  BY DirFind
<1>3. a = OneWritten(w, "NO_SPACE")
  BY <1>1, <1>2 DEF dir_add, Failure, Size
<1>4. holes = {i \in 0..(size - 1) : CellAt(d, p, i) = Hole} /\ holes \in SUBSET Nat
  BY <1>1 DEF HoleSlots
<1>5. /\ slot \in 0..size
      /\ \/ slot \in holes
         \/ slot = size /\ \A i \in 0..(size - 1) : Live(d, p, i)
  <2>1. CASE holes # {}
    <3>1. slot \in holes
      BY <1>4, <2>1, MinIsThere
    <3> QED  BY <1>1, <1>4, <3>1
  <2>2. CASE holes = {}
    BY <1>1, <1>4, <2>2 DEF Live
  <2> QED  BY <2>1, <2>2
<1>6. ~Live(d, p, slot)
  BY <1>1, <1>4, <1>5 DEF Live
<1>7. cell \in Contents
  BY DEF Dirent, Dirents, Contents
<1> HIDE DEF slot, cell, a
<1>8. /\ Sound(e) /\ ZeroBeyond(e)
      /\ w.result.n # 1 => Same(d, e)
      /\ w.result.n = 1 =>
           /\ Stock(e) /\ Kept(d, e, p) /\ Backed(d, p) <= Backed(e, p)
           /\ Size(e, p) = Larger(Size(d, p), slot + 1)
           /\ \A i \in 0..(Size(e, p) - 1) :
                CellAt(e, p, i) = IF i = slot THEN cell ELSE CellAt(d, p, i)
  BY <1>5, <1>7, EntryWritten
<1> HIDE DEF w, e, holes, size
<1>9. a.disk = e /\ a.err = IF w.result.n = 1 THEN "OK" ELSE "NO_SPACE"
  BY <1>3 DEF OneWritten, Outcome, e
<1>10. ASSUME w.result.n = 1
       PROVE  /\ \/ Size(e, p) = size
                 \/ Size(e, p) = size + 1 /\ \A i \in 0..(size - 1) : Live(d, p, i)
              /\ slot \in Nat /\ slot < Size(e, p) /\ CellAt(e, p, slot) = cell
              /\ \A i \in 0..(Size(e, p) - 1) : i # slot =>
                        i < size /\ CellAt(e, p, i) = CellAt(d, p, i)
  <2>1. Size(e, p) = Larger(size, slot + 1)
    BY <1>8, <1>10 DEF size
  <2>2. slot < Size(e, p) /\ slot \in Nat /\ slot \in 0..(Size(e, p) - 1)
    BY <1>1, <1>5, <2>1 DEF Larger
  <2>3. \/ Size(e, p) = size
        \/ Size(e, p) = size + 1 /\ \A i \in 0..(size - 1) : Live(d, p, i)
    BY <1>1, <1>4, <1>5, <2>1 DEF Larger
  <2>4. \A i \in 0..(Size(e, p) - 1) : i # slot => i < size
    BY <1>1, <1>5, <2>1 DEF Larger
  <2> QED  BY <1>8, <1>10, <2>2, <2>3, <2>4
<1> QED  BY <1>6, <1>8, <1>9, <1>10 DEF size, cell, a


(* Every inode of d is in e, with its type, and a file with its cells. *)
FilesKept(d, e) ==
  /\ d.inode_bitmap \subseteq e.inode_bitmap
  /\ \A i \in d.inode_bitmap :
       /\ e.inodes[i].type = d.inodes[i].type
       /\ d.inodes[i].type = "FILE" => SameInode(d, e, i)

(* The live dirents of e are those of d and one for n, under name in p. *)
Added(d, e, p, name, n) ==
  \E slot \in Nat :
    /\ ~Live(d, p, slot) /\ CellAt(e, p, slot) = Dirent(name, n)
    /\ \A dir : \A i \in Nat : /\ Live(e, dir, i) <=> Live(d, dir, i) \/ (dir = p /\ i = slot)
                               /\ Live(d, dir, i) => CellAt(e, dir, i) = CellAt(d, dir, i)

(* Every path of d leads to the same inode in e. *)
PathsKept(d, e) ==
  \A path \in AbsolutePaths : \A ino \in Inodes : Resolves(d, path, ino) => Resolves(e, path, ino)

LEMMA ResolvesOn ==
  ASSUME NEW d, NEW e, NEW path \in AbsolutePaths, NEW ino \in Inodes, Resolves(d, path, ino),
         \A dir, i \in Inodes, name \in Names : Entry(d, dir, name, i) => Entry(e, dir, name, i)
  PROVE  Resolves(e, path, ino)
<1>1. PICK w \in [0..Len(path) -> Inodes] :
        /\ w[0] = ROOT_INODE /\ w[Len(path)] = ino
        /\ \A i \in 1..Len(path) : path[i] \notin LongNames /\ Entry(d, w[i - 1], path[i], w[i])
  BY DEF Resolves
<1>2. Len(path) \in Nat /\ \A i \in 1..Len(path) : path[i] \in Names
  BY PathTypes, ApiAssumption
<1>3. ASSUME NEW i \in 1..Len(path)
      PROVE  Entry(e, w[i - 1], path[i], w[i])
  <2>1. i - 1 \in 0..Len(path) /\ i \in 0..Len(path)
    BY <1>2
  <2> QED  BY <1>1, <1>2, <2>1
<1> QED  BY <1>1, <1>3 DEF Resolves

LEMMA ResolvesLeaf ==
  ASSUME NEW d, NEW path \in AbsolutePaths, path # <<>>, NEW p \in Inodes, NEW n \in Inodes,
         Resolves(d, Parent(path), p), Leaf(path) \notin LongNames, Entry(d, p, Leaf(path), n)
  PROVE  Resolves(d, path, n)
<1> DEFINE m == Len(path) - 1
<1>1. m \in Nat /\ Len(Parent(path)) = m /\ \A i \in 1..m : Parent(path)[i] = path[i]
  BY ParentTypes
<1>2. Len(path) = m + 1 /\ Leaf(path) = path[m + 1]
  <2>1. Len(path) \in Nat
    BY PathTypes, ApiAssumption
  <2> QED  BY <2>1 DEF Leaf
<1> HIDE DEF m
<1>3. PICK w \in [0..m -> Inodes] :
        /\ w[0] = ROOT_INODE /\ w[m] = p
        /\ \A i \in 1..m : path[i] \notin LongNames /\ Entry(d, w[i - 1], path[i], w[i])
  BY <1>1 DEF Resolves
<1> DEFINE v == [i \in 0..(m + 1) |-> IF i <= m THEN w[i] ELSE n]
<1>4. v \in [0..(m + 1) -> Inodes] /\ v[0] = ROOT_INODE /\ v[m + 1] = n
  BY <1>1, <1>3
<1>5. ASSUME NEW i \in 1..(m + 1)
      PROVE  path[i] \notin LongNames /\ Entry(d, v[i - 1], path[i], v[i])
  <2>1. CASE i = m + 1
    <3>1. v[i - 1] = p /\ v[i] = n
      BY <1>1, <1>3, <2>1
    <3> QED  BY <1>2, <2>1, <3>1
  <2>2. CASE i # m + 1
    <3>1. i \in 1..m /\ v[i - 1] = w[i - 1] /\ v[i] = w[i]
      BY <1>1, <2>2
    <3> QED  BY <1>3, <3>1
  <2> QED  BY <2>1, <2>2
<1> HIDE DEF v
<1> QED  BY <1>2, <1>4, <1>5 DEF Resolves

(* The tree with one more entry. *)
LEMMA AddedKeepsTree ==
  ASSUME NEW d, Stock(d), Tree(d), Reachable(d), NEW e, Stock(e),
         NEW n \in Inodes \ d.inode_bitmap, e.inode_bitmap = d.inode_bitmap \cup {n},
         Dirs(d) = Dirs(e) \ {n}, Bounded(e),
         NEW path \in AbsolutePaths, path # <<>>, Leaf(path) \notin LongNames,
         NEW p \in Dirs(d), Resolves(d, Parent(path), p),
         \A i \in Nat : Live(d, p, i) => CellAt(d, p, i).name # Leaf(path),
         Added(d, e, p, Leaf(path), n)
  PROVE  Tree(e) /\ Reachable(e) /\ Resolves(e, path, n) /\ PathsKept(d, e)
<1> DEFINE name == Leaf(path)
<1>1. /\ d.inode_bitmap \subseteq Inodes /\ Dirs(d) \subseteq d.inode_bitmap
      /\ ROOT_INODE \in Dirs(d) /\ name \in Names
  BY BitmapTypes, ParentTypes DEF Stock, Tree
<1> HIDE DEF name
<1>0. PICK slot \in Nat :
        /\ ~Live(d, p, slot) /\ CellAt(e, p, slot) = Dirent(name, n)
        /\ \A dir : \A i \in Nat : /\ Live(e, dir, i) <=> Live(d, dir, i) \/ (dir = p /\ i = slot)
                                   /\ Live(d, dir, i) => CellAt(e, dir, i) = CellAt(d, dir, i)
  BY DEF Added, name
<1>2. /\ Live(e, p, slot) /\ CellAt(e, p, slot) = Dirent(name, n)
      /\ \A dir : \A i \in Nat :
           /\ Live(e, dir, i) => Live(d, dir, i) \/ (dir = p /\ i = slot)
           /\ Live(d, dir, i) => Live(e, dir, i) /\ CellAt(e, dir, i) = CellAt(d, dir, i)
  BY <1>0, Zenon
<1>3. Dirent(name, n) \in Dirents /\ Dirent(name, n).name = name /\ Dirent(name, n).inode = n
  BY <1>1 DEF Dirent, Dirents
<1>4. \A dir : \A i \in Nat :
        Live(d, dir, i) => /\ CellAt(d, dir, i) \in Dirents /\ dir \in Dirs(d)
                           /\ CellAt(d, dir, i).inode \in d.inode_bitmap \ {ROOT_INODE}
  BY DEF Tree, Linked, Live
<1>5. n # ROOT_INODE
  BY <1>1
<1>6. Linked(e)
  BY <1>2, <1>3, <1>4, <1>5 DEF Linked
<1>7. Unique(e)
  <2> SUFFICES ASSUME NEW dir, NEW other, NEW i \in Nat, NEW j \in Nat,
                      Live(e, dir, i), Live(e, other, j),
                      \/ CellAt(e, dir, i).inode = CellAt(e, other, j).inode
                      \/ dir = other /\ CellAt(e, dir, i).name = CellAt(e, other, j).name
               PROVE  dir = other /\ i = j
    BY DEF Unique
  <2>1. CASE Live(d, dir, i) /\ Live(d, other, j)
    BY <1>2, <1>4, <2>1 DEF Tree, Unique
  <2>2. CASE Live(d, dir, i) /\ other = p /\ j = slot
    BY <1>2, <1>3, <1>4, <2>2 DEF name
  <2>3. CASE dir = p /\ i = slot /\ Live(d, other, j)
    BY <1>2, <1>3, <1>4, <2>3 DEF name
  <2>4. CASE dir = p /\ i = slot /\ other = p /\ j = slot
    BY <2>4
  <2> QED  BY <1>2, <2>1, <2>2, <2>3, <2>4
<1>8. Named(e)
  <2>1. ASSUME NEW ino \in e.inode_bitmap \ {ROOT_INODE}
        PROVE  \E dir \in Dirs(e), i \in Nat : Live(e, dir, i) /\ CellAt(e, dir, i).inode = ino
    <3>1. CASE ino = n
      BY <1>2, <1>3, <3>1 DEF Live
    <3>2. CASE ino # n
      <4>1. PICK dir \in Dirs(d), i \in Nat : Live(d, dir, i) /\ CellAt(d, dir, i).inode = ino
        BY <2>1, <3>2 DEF Tree, Named
      <4> QED  BY <1>2, <4>1 DEF Live
    <3> QED  BY <3>1, <3>2
  <2> QED  BY <2>1 DEF Named
<1>9. Tree(e)
  BY <1>1, <1>6, <1>7, <1>8 DEF Tree
<1>10. \A dir, i \in Inodes, x \in Names : Entry(d, dir, x, i) => Entry(e, dir, x, i)
  BY <1>2 DEF Entry
<1>11. Resolves(e, path, n)
  <2>1. Entry(e, p, name, n)
    BY <1>2 DEF Entry
  <2>2. Resolves(e, Parent(path), p)
    BY <1>1, <1>10, ResolvesOn, ParentTypes
  <2> QED  BY <1>1, <2>1, <2>2, ResolvesLeaf DEF name
<1>12. Reachable(e)
  <2>1. ASSUME NEW ino \in d.inode_bitmap
        PROVE  \E x \in AbsolutePaths : Resolves(e, x, ino)
    <3>1. PICK x \in AbsolutePaths : Resolves(d, x, ino)
      BY DEF Reachable
    <3>2. Resolves(e, x, ino)
      BY <1>1, <1>10, <3>1, ResolvesOn
    <3> QED  BY <3>2
  <2> QED  BY <1>11, <2>1 DEF Reachable
<1>13. PathsKept(d, e)
  BY <1>10, ResolvesOn DEF PathsKept
<1> QED  BY <1>9, <1>11, <1>12, <1>13


(* What a namespace call keeps. *)
Intact(d) == Stock(d) /\ Tree(d) /\ Reachable(d)

LEMMA SameKeepsIntact ==
  ASSUME NEW d, Intact(d), NEW e, Sound(e), ZeroBeyond(e), SameDirs(d, e)
  PROVE  Intact(e)
<1>1. /\ Tree(e) /\ Readable(e)
      /\ \A dir \in Dirs(d), i \in Nat : /\ Live(e, dir, i) <=> Live(d, dir, i)
                                         /\ Live(d, dir, i) => CellAt(e, dir, i) = CellAt(d, dir, i)
  BY SameDirsKeepTree DEF Intact
<1>2. d.inode_bitmap \subseteq Inodes /\ e.inode_bitmap = d.inode_bitmap
  BY BitmapTypes DEF Intact, Stock, SameDirs
<1>3. \A dir, i \in Inodes, name \in Names : Entry(d, dir, name, i) => Entry(e, dir, name, i)
  <2>1. \A dir : \A i \in Nat : Live(d, dir, i) => dir \in Dirs(d)
    BY DEF Live
  <2> QED  BY <1>1, <2>1 DEF Entry
<1>4. ASSUME NEW ino \in d.inode_bitmap
      PROVE  \E x \in AbsolutePaths : Resolves(e, x, ino)
  <2>1. PICK x \in AbsolutePaths : Resolves(d, x, ino)
    BY DEF Intact, Reachable
  <2>2. Resolves(e, x, ino)
    BY <1>2, <1>3, <2>1, ResolvesOn
  <2> QED  BY <2>2
<1>5. Reachable(e)
  BY <1>2, <1>4 DEF Reachable
<1> QED  BY <1>1, <1>5 DEF Intact, Stock

LEMMA SameIs ==
  ASSUME NEW d, Sound(d), NEW e, Same(d, e)
  PROVE  SameDirs(d, e) /\ FilesKept(d, e)
<1>1. Dirs(d) \subseteq d.inode_bitmap
  BY DEF Dirs
<1> QED  BY <1>1 DEF Same, SameDirs, FilesKept

LEMMA SameAsItself ==
  ASSUME NEW d, Sound(d)
  PROVE  Same(d, d)
<1>1. \A i \in d.inode_bitmap : Backed(d, i) \in Nat
  BY BitmapTypes
<1> QED  BY <1>1 DEF Same, SameInode

(* The entry for the inode inode_alloc took. *)
LEMMA EntryAdded ==
  ASSUME NEW d, Intact(d), ~NoInodes(d), NEW type \in {"FILE", "DIR"},
         NEW path \in AbsolutePaths, path # <<>>, Leaf(path) \notin LongNames,
         NEW p \in Dirs(d), Resolves(d, Parent(path), p),
         \A i \in Nat : Live(d, p, i) => CellAt(d, p, i).name # Leaf(path)
  PROVE  LET n == NextInode(d)
             a == dir_add(inode_alloc(d, type), p, Leaf(path), n)
             e == a.disk IN
         /\ n \in Inodes \ d.inode_bitmap /\ a.err \in {"OK", "NO_SPACE"}
         /\ a.err = "OK" => /\ Intact(e) /\ FilesKept(d, e) /\ Resolves(e, path, n)
                            /\ e.inode_bitmap = d.inode_bitmap \cup {n}
                            /\ e.inodes[n].type = type /\ Size(e, n) = 0 /\ PathsKept(d, e)
<1> DEFINE n == NextInode(d)
           name == Leaf(path)
           t == inode_alloc(d, type)
           a == dir_add(t, p, name, n)
           e == a.disk
<1>1. /\ Stock(t) /\ Linked(t) /\ Unique(t) /\ n \in Inodes \ d.inode_bitmap
      /\ t.inode_bitmap = d.inode_bitmap \cup {n}
      /\ t.inodes[n].type = type /\ Size(t, n) = 0
      /\ Dirs(d) = Dirs(t) \ {n} /\ ROOT_INODE \in d.inode_bitmap
      /\ \A i \in Inodes \ {n} :
           /\ t.inodes[i] = d.inodes[i] /\ Size(t, i) = Size(d, i) /\ Backed(t, i) = Backed(d, i)
           /\ \A k \in Nat : CellAt(t, i, k) = CellAt(d, i, k)
      /\ \A dir : \A i \in Nat : Live(t, dir, i) <=> Live(d, dir, i)
  BY NewInode DEF Intact
<1>2. /\ d.inode_bitmap \subseteq Inodes /\ Dirs(d) \subseteq d.inode_bitmap
      /\ name \in Names \ LongNames
  BY BitmapTypes, ParentTypes DEF Intact, Stock
<1> HIDE DEF t, n, name
<1>3. p \in Dirs(t) /\ p \in Inodes \ {n}
  BY <1>1, <1>2
<1>4. ASSUME NEW dir, NEW i \in Nat, Live(d, dir, i)
      PROVE  dir \in Dirs(d) /\ dir \in Inodes \ {n} /\ CellAt(t, dir, i) = CellAt(d, dir, i)
  BY <1>1, <1>2, <1>4 DEF Live
<1>5. \A i \in Nat : Live(t, p, i) => CellAt(t, p, i).name # name
  BY <1>1, <1>4 DEF name
<1>6. /\ a.err \in {"OK", "NO_SPACE"}
      /\ a.err = "OK" =>
           /\ Stock(e) /\ Kept(t, e, p) /\ Backed(t, p) <= Backed(e, p)
           /\ \/ Size(e, p) = Size(t, p)
              \/ /\ Size(e, p) = Size(t, p) + 1
                 /\ \A i \in 0..(Size(t, p) - 1) : Live(t, p, i)
           /\ \E slot \in Nat :
                /\ ~Live(t, p, slot) /\ slot < Size(e, p)
                /\ CellAt(e, p, slot) = Dirent(name, n)
                /\ \A i \in 0..(Size(e, p) - 1) : i # slot =>
                     i < Size(t, p) /\ CellAt(e, p, i) = CellAt(t, p, i)
  BY <1>1, <1>2, <1>3, <1>5, DirAdd
<1> HIDE DEF a
<1>7. SUFFICES ASSUME a.err = "OK"
               PROVE  /\ Intact(e) /\ FilesKept(d, e) /\ Resolves(e, path, n)
                      /\ e.inode_bitmap = d.inode_bitmap \cup {n}
                      /\ e.inodes[n].type = type /\ Size(e, n) = 0 /\ PathsKept(d, e)
  BY <1>1, <1>6 DEF a, t, n, name
<1> HIDE DEF e
<1>8. /\ e.inode_bitmap = d.inode_bitmap \cup {n}
      /\ \A i \in Inodes : e.inodes[i].type = t.inodes[i].type
      /\ \A i \in Inodes : Size(e, i) \in Nat /\ Backed(e, i) \in Nat /\ Size(t, i) \in Nat
                           /\ Backed(t, i) \in Nat
      /\ Dirs(e) = Dirs(t) /\ e.inodes[n].type = type
  <2>1. /\ e.inode_bitmap = d.inode_bitmap \cup {n}
        /\ \A i \in Inodes : e.inodes[i].type = t.inodes[i].type
    BY <1>1, <1>6, <1>7 DEF Kept
  <2>2. \A i \in Inodes : Size(e, i) \in Nat /\ Backed(e, i) \in Nat /\ Size(t, i) \in Nat
                           /\ Backed(t, i) \in Nat
    BY <1>1, <1>6, <1>7, BitmapTypes DEF Stock
  <2> QED  BY <1>1, <1>2, <2>1, <2>2 DEF Dirs
<1>9. \A i \in Inodes \ {p} :
        /\ Size(e, i) = Size(t, i) /\ Backed(e, i) = Backed(t, i)
        /\ \A k \in 0..(Backed(t, i) - 1) : CellAt(e, i, k) = CellAt(t, i, k)
  BY <1>6, <1>7 DEF Kept, Size, Backed
<1>10. FilesKept(d, e)
  <2>1. ASSUME NEW i \in d.inode_bitmap
        PROVE  /\ e.inodes[i].type = d.inodes[i].type
               /\ d.inodes[i].type = "FILE" => SameInode(d, e, i)
    <3>1. i \in Inodes \ {n}
      BY <1>1, <1>2
    <3>2. d.inodes[i].type = "FILE" => i # p
      BY DEF Dirs
    <3>3. i # p => SameInode(d, e, i)
      <4>1. i # p => i \in Inodes \ {p}
        BY <3>1
      <4>2. \A k \in 0..(Backed(t, i) - 1) : k \in Nat
        BY <1>8, <3>1
      <4> QED  BY <1>1, <1>8, <1>9, <3>1, <4>1, <4>2 DEF SameInode
    <3> QED  BY <1>1, <1>8, <3>1, <3>2, <3>3
  <2> QED  BY <1>8, <2>1 DEF FilesKept
<1>11. Added(d, e, p, name, n)
  <2>1. PICK slot \in Nat :
          /\ ~Live(t, p, slot) /\ slot < Size(e, p)
          /\ CellAt(e, p, slot) = Dirent(name, n)
          /\ \A i \in 0..(Size(e, p) - 1) : i # slot =>
               i < Size(t, p) /\ CellAt(e, p, i) = CellAt(t, p, i)
    BY <1>6, <1>7
  <2>2. ASSUME NEW dir \in Dirs(t), dir # p, NEW i \in Nat
        PROVE  /\ Live(e, dir, i) <=> Live(t, dir, i)
               /\ Live(t, dir, i) => CellAt(e, dir, i) = CellAt(t, dir, i)
    <3>1. dir \in Inodes \ {p} /\ Size(t, dir) <= Backed(t, dir)
      BY <1>1, <2>2, BitmapTypes DEF Stock, Readable
    <3>2. i < Size(t, dir) => CellAt(e, dir, i) = CellAt(t, dir, i)
      BY <1>8, <1>9, <3>1
    <3> QED  BY <1>8, <1>9, <2>2, <3>1, <3>2 DEF Live
  <2>3. ASSUME NEW i \in Nat
        PROVE  /\ Live(e, p, i) <=> Live(t, p, i) \/ i = slot
               /\ Live(t, p, i) => CellAt(e, p, i) = CellAt(t, p, i)
    <3>1. Size(t, p) <= Size(e, p)
      BY <1>3, <1>6, <1>7, <1>8
    <3>2. CASE i = slot
      <4>1. Dirent(name, n) \in Dirents
        BY <1>1, <1>2 DEF Dirent, Dirents
      <4> QED  BY <1>3, <1>8, <2>1, <3>2, <4>1, DirentNotHole DEF Live
    <3>3. CASE i # slot
      BY <1>3, <1>8, <2>1, <3>1, <3>3 DEF Live
    <3> QED  BY <3>2, <3>3
  <2>4. \A dir : \A i \in Nat : (Live(e, dir, i) \/ Live(t, dir, i)) => dir \in Dirs(t)
    BY <1>8 DEF Live
  <2>5. ASSUME NEW dir, NEW i \in Nat
        PROVE  /\ Live(e, dir, i) <=> Live(t, dir, i) \/ (dir = p /\ i = slot)
               /\ Live(t, dir, i) => CellAt(e, dir, i) = CellAt(t, dir, i)
    BY <2>1, <2>2, <2>3, <2>4
  <2>6. ASSUME NEW dir, NEW i \in Nat
        PROVE  /\ Live(e, dir, i) <=> Live(d, dir, i) \/ (dir = p /\ i = slot)
               /\ Live(d, dir, i) => CellAt(e, dir, i) = CellAt(d, dir, i)
    BY <1>1, <1>4, <2>5
  <2>7. ~Live(d, p, slot)
    BY <1>1, <2>1
  <2> QED  BY <2>1, <2>6, <2>7 DEF Added
<1>12. Bounded(e)
  <2>1. ASSUME NEW dir \in Dirs(d), dir # p
        PROVE  Size(e, dir) < NInodes
    BY <1>1, <1>2, <1>9, <2>1 DEF Intact, Tree, Bounded
  <2>2. Size(e, p) < NInodes
    <3>1. CASE Size(e, p) = Size(t, p)
      BY <1>1, <1>3, <3>1 DEF Intact, Tree, Bounded
    <3>2. CASE /\ Size(e, p) = Size(t, p) + 1
               /\ \A i \in 0..(Size(t, p) - 1) : Live(t, p, i)
      <4>1. ASSUME NEW i \in 0..(Size(t, p) - 1)
            PROVE  Live(t, p, i) /\ CellAt(t, p, i).inode # n
        <5>1. Live(t, p, i) /\ i \in Nat
          BY <1>3, <1>8, <3>2
        <5>2. Live(d, p, i)
          BY <1>1, <5>1
        <5>3. CellAt(d, p, i).inode \in d.inode_bitmap
          BY <5>1, <5>2 DEF Intact, Tree, Linked
        <5> QED  BY <1>1, <1>4, <5>1, <5>2, <5>3
      <4>2. n \in Inodes \ {ROOT_INODE}
        BY <1>1
      <4> QED  BY <1>1, <1>3, <3>2, <4>1, <4>2, LiveFit
    <3> QED  BY <1>6, <1>7, <3>1, <3>2
  <2>3. n \in Dirs(e) => Size(e, n) < NInodes
    BY <1>1, <1>3, <1>9, ApiAssumption
  <2> QED  BY <1>1, <1>8, <2>1, <2>2, <2>3 DEF Bounded
<1>13. Stock(e) /\ Dirs(d) = Dirs(e) \ {n}
  BY <1>1, <1>6, <1>7, <1>8
<1>14. Tree(e) /\ Reachable(e) /\ Resolves(e, path, n) /\ PathsKept(d, e)
  BY <1>1, <1>8, <1>11, <1>12, <1>13, AddedKeepsTree DEF Intact, name
<1>15. Size(e, n) = 0
  BY <1>1, <1>3, <1>9
<1> QED  BY <1>8, <1>10, <1>13, <1>14, <1>15 DEF Intact


(* An inode whose record, chain and cells are as they were. *)
Untouched(d, e, i) ==
  /\ e.inodes[i] = d.inodes[i] /\ Size(e, i) = Size(d, i) /\ Backed(e, i) = Backed(d, i)
  /\ \A k \in Nat : CellAt(e, i, k) = CellAt(d, i, k)

LEMMA DroppedCells ==
  ASSUME NEW d, Sound(d), ZeroBeyond(d), NEW ino \in Inodes, NEW e, Sound(e), Dropped(d, e, ino),
         e.inode_bitmap \subseteq d.inode_bitmap
  PROVE  /\ ZeroBeyond(e) /\ Backed(e, ino) = 0
         /\ \A i \in Inodes \ {ino} : Untouched(d, e, i)
<1>1. ASSUME NEW i \in Inodes \ {ino}
      PROVE  Untouched(d, e, i)
  <2>1. e.inodes[i] = d.inodes[i] /\ Chain(e, i) = Chain(d, i) /\ e.data_blocks = d.data_blocks
    BY DEF Dropped
  <2>2. Backed(e, i) = Backed(d, i)
    BY <2>1 DEF Backed, ChainLength
  <2>3. \A k \in Nat : CellAt(e, i, k) = CellAt(d, i, k)
    BY <2>1 DEF CellAt
  <2> QED  BY <2>1, <2>2, <2>3 DEF Untouched, Size
<1>2. Backed(e, ino) = 0
  BY RamFSAssumption DEF Dropped, Backed
<1>3. /\ d.inode_bitmap \subseteq Inodes
      /\ \A i \in Inodes : /\ Size(d, i) \in Nat /\ Backed(d, i) \in Nat
                           /\ Size(e, i) \in Nat /\ Backed(e, i) \in Nat
  BY BitmapTypes
<1>4. ASSUME NEW i \in e.inode_bitmap, NEW k \in Size(e, i)..(Backed(e, i) - 1)
      PROVE  CellAt(e, i, k) = Zero
  <2>1. i # ino
    BY <1>2, <1>3, <1>4
  <2>2. i \in d.inode_bitmap /\ i \in Inodes \ {ino} /\ k \in Nat
    BY <1>3, <1>4, <2>1
  <2>3. k \in Size(d, i)..(Backed(d, i) - 1) /\ CellAt(e, i, k) = CellAt(d, i, k)
    BY <1>1, <1>4, <2>2 DEF Untouched
  <2> QED  BY <2>2, <2>3 DEF ZeroBeyond
<1> QED  BY <1>1, <1>2, <1>4 DEF ZeroBeyond

(* mkdir and create give back the inode of an entry that found no space. *)
LEMMA EntryUndone ==
  ASSUME NEW d, Intact(d), ~NoInodes(d), NEW type \in {"FILE", "DIR"},
         NEW p \in d.inode_bitmap, NEW name \in Names \ LongNames,
         \A i \in Nat : Live(d, p, i) => CellAt(d, p, i).name # name
  PROVE  LET n == NextInode(d)
             a == dir_add(inode_alloc(d, type), p, name, n)
             f == inode_free(a.disk, n) IN
         /\ p \notin Dirs(d) => a.err = "NOT_DIR"
         /\ a.err # "OK" => Sound(f) /\ ZeroBeyond(f) /\ Same(d, f)
<1> DEFINE n == NextInode(d)
           t == inode_alloc(d, type)
           a == dir_add(t, p, name, n)
           e == a.disk
           f == inode_free(e, n)
<1>1. /\ Stock(t) /\ Linked(t) /\ Unique(t) /\ n \in Inodes \ d.inode_bitmap
      /\ t.inode_bitmap = d.inode_bitmap \cup {n} /\ Dirs(d) = Dirs(t) \ {n}
      /\ \A i \in Inodes \ {n} :
           /\ t.inodes[i] = d.inodes[i] /\ Size(t, i) = Size(d, i) /\ Backed(t, i) = Backed(d, i)
           /\ \A k \in Nat : CellAt(t, i, k) = CellAt(d, i, k)
      /\ \A dir : \A i \in Nat : Live(t, dir, i) <=> Live(d, dir, i)
  BY NewInode DEF Intact
<1>2. /\ d.inode_bitmap \subseteq Inodes /\ Dirs(d) \subseteq d.inode_bitmap
  BY BitmapTypes DEF Intact, Stock
<1> HIDE DEF t, n
<1>3. (p \in Dirs(t) <=> p \in Dirs(d)) /\ p \in Inodes \ {n}
  BY <1>1, <1>2
<1>4. \A i \in Nat : Live(t, p, i) => CellAt(t, p, i).name # name
  BY <1>1, <1>3
<1>5. /\ Sound(e) /\ ZeroBeyond(e) /\ (a.err # "OK" => Same(t, e))
      /\ p \notin Dirs(d) => a.err = "NOT_DIR"
  <2>1. CASE p \in Dirs(t)
    <3>1. n \in Inodes
      BY <1>1
    <3> QED  BY <1>1, <1>3, <1>4, <2>1, <3>1, DirAdd
  <2>2. CASE p \notin Dirs(t)
    <3>1. a = Outcome(t, "NOT_DIR")
      BY <2>2 DEF dir_add, IsDir, Dirs
    <3>2. e = t /\ a.err = "NOT_DIR"
      BY <3>1 DEF Outcome
    <3>3. Same(t, t)
      BY <1>1, SameAsItself DEF Stock
    <3> QED  BY <1>1, <3>2, <3>3 DEF Stock
  <2> QED  BY <2>1, <2>2
<1> HIDE DEF a, e
<1>6. Sound(f) /\ Dropped(e, f, n) /\ f.inode_bitmap = e.inode_bitmap \ {n}
  BY <1>1, <1>5, InodeFreeKeeps
<1> HIDE DEF f
<1>7. ZeroBeyond(f) /\ \A i \in Inodes \ {n} : Untouched(e, f, i)
  BY <1>1, <1>5, <1>6, DroppedCells
<1>8. ASSUME a.err # "OK"
      PROVE  Same(d, f)
  <2>1. f.inode_bitmap = d.inode_bitmap
    BY <1>1, <1>5, <1>6, <1>8 DEF Same
  <2>2. ASSUME NEW i \in d.inode_bitmap
        PROVE  f.inodes[i].type = d.inodes[i].type /\ SameInode(d, f, i)
    <3>1. i \in Inodes \ {n} /\ i \in t.inode_bitmap
      BY <1>1, <1>2
    <3>2. e.inodes[i].type = t.inodes[i].type /\ SameInode(t, e, i) /\ Untouched(e, f, i)
      BY <1>5, <1>7, <1>8, <3>1 DEF Same
    <3>3. t.inodes[i] = d.inodes[i] /\ Size(t, i) = Size(d, i) /\ Backed(t, i) = Backed(d, i)
      BY <1>1, <3>1
    <3>4. Backed(d, i) \in Nat /\ \A k \in 0..(Backed(d, i) - 1) : k \in Nat
      BY <3>1, BitmapTypes DEF Intact, Stock
    <3>5. \A k \in Nat : CellAt(t, i, k) = CellAt(d, i, k)
      BY <1>1, <3>1
    <3> QED  BY <3>2, <3>3, <3>4, <3>5 DEF SameInode, Untouched
  <2> QED  BY <2>1, <2>2 DEF Same
<1> QED  BY <1>5, <1>6, <1>7, <1>8 DEF n, t, a, e, f


(* mkdir and create, and the creating half of open. *)
LEMMA AddEntryKeeps ==
  ASSUME NEW d, Intact(d), NEW path \in Paths, NEW type \in {"FILE", "DIR"}
  PROVE  LET r == AddEntry(d, path, type)
             e == r.disk IN
         /\ Intact(e) /\ FilesKept(d, e) /\ r.err \in Errors
         /\ r.err # "OK" => Same(d, e)
         /\ r.err = "OK" => /\ path \in AbsolutePaths /\ PathsKept(d, e)
                            /\ \E n \in Inodes \ d.inode_bitmap :
                                 /\ e.inode_bitmap = d.inode_bitmap \cup {n} /\ Resolves(e, path, n)
                                 /\ e.inodes[n].type = type /\ Size(e, n) = 0
<1> DEFINE r == AddEntry(d, path, type)
           e == r.disk
           parent == path_resolve_parent(d, path)
           name == Leaf(path)
           n == NextInode(d)
           a == dir_add(inode_alloc(d, type), parent.n, name, n)
<1>1. Stock(d) /\ Tree(d) /\ Linked(d) /\ Unique(d) /\ ROOT_INODE \in Dirs(d) /\ Sound(d)
  BY DEF Intact, Stock, Tree
<1>2. Same(d, d) /\ FilesKept(d, d)
  BY <1>1, SameAsItself, SameIs
<1>3. ASSUME NEW err \in Errors \ {"OK"}, r = Outcome(d, err)
      PROVE  /\ Intact(e) /\ FilesKept(d, e) /\ r.err \in Errors /\ r.err # "OK" /\ Same(d, e)
  BY <1>2, <1>3 DEF Outcome
<1>4. CASE SplitError(path) # "OK"
  <2>1. SplitError(path) \in Errors
    BY DEF SplitError, Errors
  <2>2. parent = Failure(SplitError(path))
    BY <1>4 DEF path_resolve_parent
  <2>3. r = Outcome(d, SplitError(path))
    BY <1>4, <2>2 DEF AddEntry, Failure
  <2> QED  BY <1>3, <1>4, <2>1, <2>3
<1>5. CASE SplitError(path) = "OK"
  <2>1. path \in AbsolutePaths /\ path # <<>> /\ name \notin LongNames
    BY <1>5 DEF SplitError, Paths
  <2>2. parent = path_resolve(d, Parent(path)) /\ Parent(path) \in AbsolutePaths /\ name \in Names
    BY <1>5, <2>1, ParentTypes DEF path_resolve_parent
  <2>3. parent \in Arrivals /\ (parent.err = "OK" => Resolves(d, Parent(path), parent.n))
    BY <1>1, <2>2, ResolveIs
  <2>4. parent.err \in Errors /\ parent.n \in Inodes
    BY <2>3 DEF Arrivals
  <2>5. CASE parent.err # "OK"
    <3>1. r = Outcome(d, parent.err)
      BY <2>5 DEF AddEntry
    <3> QED  BY <1>3, <2>4, <2>5, <3>1
  <2>6. CASE parent.err = "OK" /\ dir_find(d, parent.n, name).err = "OK"
    <3>1. r = Outcome(d, "EXISTS")
      BY <2>6 DEF AddEntry
    <3> QED  BY <1>3, <3>1 DEF Errors
  <2>7. CASE parent.err = "OK" /\ dir_find(d, parent.n, name).err # "OK" /\ NoInodes(d)
    <3>1. r = Outcome(d, "NO_INODES")
      BY <2>7 DEF AddEntry
    <3> QED  BY <1>3, <3>1 DEF Errors
  <2>8. CASE parent.err = "OK" /\ dir_find(d, parent.n, name).err # "OK" /\ ~NoInodes(d)
    <3>1. r = IF a.err = "OK" THEN a ELSE Outcome(inode_free(a.disk, n), a.err)
      BY <2>8 DEF AddEntry
    <3>2. parent.n \in d.inode_bitmap
      BY <1>1, <2>2, <2>3, <2>4, <2>8, ResolvedIsThere
    <3>3. \A i \in Nat : Live(d, parent.n, i) => CellAt(d, parent.n, i).name # name
      BY <1>1, <2>8, DirFind DEF Success
    <3>4. /\ parent.n \notin Dirs(d) => a.err = "NOT_DIR"
          /\ a.err # "OK" => /\ Sound(inode_free(a.disk, n)) /\ ZeroBeyond(inode_free(a.disk, n))
                             /\ Same(d, inode_free(a.disk, n))
      BY <2>1, <2>2, <2>8, <3>2, <3>3, EntryUndone
    <3>5. parent.n \in Dirs(d) =>
            /\ n \in Inodes \ d.inode_bitmap /\ a.err \in {"OK", "NO_SPACE"}
            /\ a.err = "OK" => /\ Intact(a.disk) /\ FilesKept(d, a.disk) /\ Resolves(a.disk, path, n)
                               /\ a.disk.inode_bitmap = d.inode_bitmap \cup {n}
                               /\ a.disk.inodes[n].type = type
                               /\ Size(a.disk, n) = 0 /\ PathsKept(d, a.disk)
      BY <2>1, <2>3, <2>8, <3>3, EntryAdded
    <3> HIDE DEF a, n, r, parent
    <3>6. a.err \in {"OK", "NO_SPACE", "NOT_DIR"}
      BY <3>4, <3>5
    <3>7. CASE a.err = "OK"
      <4>1. parent.n \in Dirs(d) /\ r = a
        BY <3>1, <3>4, <3>7
      <4> QED  BY <2>1, <3>5, <3>7, <4>1 DEF Errors, r
    <3>8. CASE a.err # "OK"
      <4>1. r.err = a.err /\ e = inode_free(a.disk, n)
        BY <3>1, <3>8 DEF Outcome
      <4>2. Sound(e) /\ ZeroBeyond(e) /\ Same(d, e)
        BY <3>4, <3>8, <4>1
      <4>3. Intact(e) /\ FilesKept(d, e)
        BY <1>1, <4>2, SameIs, SameKeepsIntact
      <4> QED  BY <3>6, <3>8, <4>1, <4>2, <4>3 DEF Errors, r
    <3> QED  BY <3>7, <3>8
  <2> QED  BY <2>5, <2>6, <2>7, <2>8
<1> QED  BY <1>4, <1>5


(***************************************************************************)
(* An entry removed                                                        *)
(***************************************************************************)
(* Writing a hole over a dirent, and freeing the inode it was for, which has
   no entries of its own. *)
LEMMA EntryRemoved ==
  ASSUME NEW d, Intact(d), NEW p \in Dirs(d), NEW name \in Names, NEW s \in Nat,
         Live(d, p, s), CellAt(d, p, s).name = name,
         NEW target \in Inodes, CellAt(d, p, s).inode = target,
         \A i \in Nat : ~Live(d, target, i)
  PROVE  LET r == dir_remove(d, p, name)
             f == inode_free(r.disk, target) IN
         /\ r.err \in {"OK", "IO"}
         /\ r.err # "OK" => Sound(r.disk) /\ ZeroBeyond(r.disk) /\ Same(d, r.disk)
         /\ r.err = "OK" =>
              /\ Intact(f) /\ f.inode_bitmap = d.inode_bitmap \ {target} /\ PathsKept(f, d)
              /\ \A i \in f.inode_bitmap :
                   /\ f.inodes[i].type = d.inodes[i].type
                   /\ d.inodes[i].type = "FILE" => SameInode(d, f, i)
<1> DEFINE w == chain_write(d, p, s, <<Hole>>)
           r == dir_remove(d, p, name)
           e == w.disk
           f == inode_free(e, target)
<1>1. /\ Stock(d) /\ Tree(d) /\ Linked(d) /\ Unique(d) /\ Named(d) /\ Bounded(d)
      /\ ROOT_INODE \in Dirs(d) /\ Sound(d) /\ ZeroBeyond(d) /\ Reachable(d)
  BY DEF Intact, Stock, Tree
<1>2. /\ d.inode_bitmap \subseteq Inodes /\ Dirs(d) \subseteq d.inode_bitmap
      /\ \A i \in Inodes : Size(d, i) \in Nat /\ Backed(d, i) \in Nat
  BY <1>1, BitmapTypes
<1>3. r = OneWritten(w, "IO")
  <2>1. SlotsNamed(d, p, name) = {s}
    BY <1>1, DirFind
  <2>2. MinOf({s}) = s
    BY DEF MinOf
  <2>3. IsDir(d, p)
    BY DEF IsDir, Dirs
  <2> QED  BY <2>1, <2>2, <2>3 DEF dir_remove
<1>4. s \in 0..Size(d, p) /\ s \in 0..(Size(d, p) - 1)
  BY <1>2 DEF Live
<1>5. /\ Sound(e) /\ ZeroBeyond(e)
      /\ w.result.n # 1 => Same(d, e)
      /\ w.result.n = 1 =>
           /\ Stock(e) /\ Kept(d, e, p) /\ Backed(d, p) <= Backed(e, p)
           /\ Size(e, p) = Larger(Size(d, p), s + 1)
           /\ \A i \in 0..(Size(e, p) - 1) :
                CellAt(e, p, i) = IF i = s THEN Hole ELSE CellAt(d, p, i)
  <2>1. Hole \in Contents
    BY DEF Contents
  <2> QED  BY <1>1, <1>4, <2>1, EntryWritten
<1> HIDE DEF w, e
<1>6. r.disk = e /\ r.err = IF w.result.n = 1 THEN "OK" ELSE "IO"
  BY <1>3 DEF OneWritten, Outcome, e
<1> HIDE DEF r
<1>7. SUFFICES ASSUME w.result.n = 1
               PROVE  /\ Intact(f) /\ f.inode_bitmap = d.inode_bitmap \ {target}
                      /\ PathsKept(f, d)
                      /\ \A i \in f.inode_bitmap :
                           /\ f.inodes[i].type = d.inodes[i].type
                           /\ d.inodes[i].type = "FILE" => SameInode(d, f, i)
  BY <1>5, <1>6 DEF r
<1>8. Sound(f) /\ Dropped(e, f, target) /\ f.inode_bitmap = e.inode_bitmap \ {target}
  BY <1>5, InodeFreeKeeps
<1> HIDE DEF f
<1>9. ZeroBeyond(f) /\ \A i \in Inodes \ {target} : Untouched(e, f, i)
  BY <1>5, <1>8, DroppedCells
<1>10. /\ e.inode_bitmap = d.inode_bitmap /\ f.inode_bitmap = d.inode_bitmap \ {target}
       /\ \A i \in Inodes : e.inodes[i].type = d.inodes[i].type
       /\ \A i \in Inodes \ {p} :
            /\ Size(e, i) = Size(d, i) /\ Backed(e, i) = Backed(d, i)
            /\ \A k \in 0..(Backed(d, i) - 1) : CellAt(e, i, k) = CellAt(d, i, k)
  BY <1>5, <1>7, <1>8 DEF Kept, Size, Backed
<1>11. \A i \in Inodes : Size(e, i) \in Nat /\ Backed(e, i) \in Nat
  BY <1>5, BitmapTypes
<1>12. Size(e, p) = Size(d, p)
  BY <1>2, <1>4, <1>5, <1>7 DEF Larger
<1>13. p # target
  BY DEF Live
<1>14. \A i \in Inodes \ {target} : f.inodes[i].type = d.inodes[i].type
  BY <1>9, <1>10 DEF Untouched
<1>15. Dirs(f) = Dirs(d) \ {target}
  BY <1>2, <1>10, <1>14 DEF Dirs
<1>16. ASSUME NEW i \in f.inode_bitmap
       PROVE  /\ f.inodes[i].type = d.inodes[i].type
              /\ d.inodes[i].type = "FILE" => SameInode(d, f, i)
  <2>1. i \in Inodes \ {target}
    BY <1>2, <1>10
  <2>2. d.inodes[i].type = "FILE" => i # p
    BY DEF Dirs
  <2>3. ASSUME i # p
        PROVE  SameInode(d, f, i)
    <3>1. i \in Inodes \ {p} /\ Untouched(e, f, i)
      BY <1>9, <2>1, <2>3
    <3>2. \A k \in 0..(Backed(d, i) - 1) : k \in Nat
      BY <1>2, <2>1
    <3> QED  BY <1>2, <1>10, <3>1, <3>2 DEF SameInode, Untouched
  <2> QED  BY <1>14, <2>1, <2>2, <2>3
<1>17. ASSUME NEW dir \in Dirs(f)
       PROVE  /\ Size(f, dir) = Size(d, dir) /\ dir \in Dirs(d) /\ Size(f, dir) <= Backed(f, dir)
              /\ \A i \in 0..(Size(d, dir) - 1) :
                   CellAt(f, dir, i) = IF dir = p /\ i = s THEN Hole ELSE CellAt(d, dir, i)
  <2>1. dir \in Dirs(d) /\ dir \in Inodes \ {target} /\ Size(d, dir) <= Backed(d, dir)
    BY <1>1, <1>2, <1>15 DEF Stock, Readable
  <2>2. /\ Untouched(e, f, dir) /\ \A i \in 0..(Size(d, dir) - 1) : i \in Nat
        /\ \A i \in 0..(Size(d, dir) - 1) : i \in 0..(Backed(d, dir) - 1)
    BY <1>2, <1>9, <2>1
  <2>3. CASE dir = p
    BY <1>2, <1>5, <1>7, <1>11, <1>12, <2>1, <2>2, <2>3 DEF Untouched
  <2>4. CASE dir # p
    BY <1>2, <1>10, <2>1, <2>2, <2>4 DEF Untouched
  <2> QED  BY <2>1, <2>3, <2>4
<1>18. ASSUME NEW dir, NEW i \in Nat
       PROVE  /\ Live(f, dir, i) <=> Live(d, dir, i) /\ ~(dir = p /\ i = s)
              /\ Live(f, dir, i) => CellAt(f, dir, i) = CellAt(d, dir, i)
  <2>1. CASE dir \in Dirs(f)
    BY <1>17, <2>1 DEF Live
  <2>2. CASE dir \notin Dirs(f)
    <3>1. dir \notin Dirs(d) \/ dir = target
      BY <1>15, <2>2
    <3> QED  BY <2>2, <3>1 DEF Live
  <2> QED  BY <2>1, <2>2
<1>19. Readable(f) /\ Bounded(f)
  BY <1>1, <1>17 DEF Readable, Bounded
<1>20. \A dir : \A i \in Nat :
         Live(d, dir, i) => /\ CellAt(d, dir, i) \in Dirents /\ dir \in Dirs(d)
                            /\ CellAt(d, dir, i).inode \in d.inode_bitmap \ {ROOT_INODE}
  BY <1>1 DEF Linked, Live
<1>21. \A dir : \A i \in Nat :
         Live(d, dir, i) /\ CellAt(d, dir, i).inode = target => dir = p /\ i = s
  <2>1. ASSUME NEW dir, NEW i \in Nat, Live(d, dir, i), CellAt(d, dir, i).inode = target
        PROVE  dir = p /\ i = s
    BY <1>1, <1>20, <2>1 DEF Unique
  <2> QED  BY <2>1
<1>22. Linked(f)
  BY <1>10, <1>15, <1>18, <1>20, <1>21 DEF Linked
<1>23. Unique(f)
  BY <1>1, <1>15, <1>18 DEF Unique
<1>24. Named(f)
  <2>1. ASSUME NEW ino \in f.inode_bitmap \ {ROOT_INODE}
        PROVE  \E dir \in Dirs(f), i \in Nat : Live(f, dir, i) /\ CellAt(f, dir, i).inode = ino
    <3>1. PICK dir \in Dirs(d), i \in Nat : Live(d, dir, i) /\ CellAt(d, dir, i).inode = ino
      BY <1>1, <1>10, <2>1 DEF Named
    <3>2. ~(dir = p /\ i = s)
      BY <1>10, <2>1, <3>1
    <3>3. Live(f, dir, i) /\ CellAt(f, dir, i).inode = ino
      BY <1>18, <3>1, <3>2
    <3> QED  BY <3>3 DEF Live
  <2> QED  BY <2>1 DEF Named
<1>25. ROOT_INODE \in Dirs(f)
  BY <1>1, <1>15, <1>20
<1>26. Tree(f)
  BY <1>19, <1>22, <1>23, <1>24, <1>25 DEF Tree
<1>27. Reachable(f)
  <2>1. ASSUME NEW ino \in f.inode_bitmap
        PROVE  \E x \in AbsolutePaths : Resolves(f, x, ino)
    <3>1. PICK x \in AbsolutePaths : Resolves(d, x, ino)
      BY <1>1, <1>10 DEF Reachable
    <3>2. PICK v \in [0..Len(x) -> Inodes] :
            /\ v[0] = ROOT_INODE /\ v[Len(x)] = ino
            /\ \A i \in 1..Len(x) : x[i] \notin LongNames /\ Entry(d, v[i - 1], x[i], v[i])
      BY <3>1 DEF Resolves
    <3>3. Len(x) \in Nat
      BY PathTypes, ApiAssumption
    <3>4. ASSUME NEW i \in 1..Len(x)
          PROVE  Entry(f, v[i - 1], x[i], v[i])
      <4>1. v[i] # target
        <5>1. CASE i = Len(x)
          BY <1>10, <2>1, <3>2, <5>1
        <5>2. CASE i # Len(x)
          <6>1. i + 1 \in 1..Len(x) /\ (i + 1) - 1 = i
            BY <3>3, <5>2
          <6>2. Entry(d, v[i], x[i + 1], v[i + 1])
            BY <3>2, <6>1
          <6> QED  BY <6>2 DEF Entry
        <5> QED  BY <5>1, <5>2
      <4>2. Entry(d, v[i - 1], x[i], v[i])
        BY <3>2
      <4>3. PICK k \in Nat : Live(d, v[i - 1], k) /\ CellAt(d, v[i - 1], k) = Dirent(x[i], v[i])
        BY <4>2 DEF Entry
      <4>4. ~(v[i - 1] = p /\ k = s)
        BY <4>1, <4>3 DEF Dirent
      <4>5. Live(f, v[i - 1], k) /\ CellAt(f, v[i - 1], k) = Dirent(x[i], v[i])
        BY <1>18, <4>3, <4>4
      <4> QED  BY <4>5 DEF Entry
    <3>5. Resolves(f, x, ino)
      BY <3>2, <3>4 DEF Resolves
    <3> QED  BY <3>5
  <2> QED  BY <2>1 DEF Reachable
<1>28. PathsKept(f, d)
  <2>1. \A dir, i \in Inodes, x \in Names : Entry(f, dir, x, i) => Entry(d, dir, x, i)
    BY <1>18 DEF Entry
  <2> QED  BY <2>1, ResolvesOn DEF PathsKept
<1> QED  BY <1>8, <1>9, <1>10, <1>16, <1>19, <1>26, <1>27, <1>28 DEF Intact, Stock


(***************************************************************************)
(* File data                                                               *)
(***************************************************************************)
LEMMA FileWritten ==
  ASSUME NEW d, Intact(d), NEW ino \in d.inode_bitmap, d.inodes[ino].type = "FILE",
         NEW offset \in Nat, NEW cells, IsData(cells)
  PROVE  LET w == chain_write(d, ino, offset, cells)
             e == w.disk IN
         /\ Intact(e) /\ e.inode_bitmap = d.inode_bitmap
         /\ \A i \in d.inode_bitmap : e.inodes[i].type = d.inodes[i].type
         /\ w.result.err \in {"OK", "NO_SPACE"} /\ w.result.n \in Nat
         /\ w.result.err # "OK" => Same(d, e)
<1> DEFINE w == chain_write(d, ino, offset, cells)
           e == w.disk
           n == w.result.n
<1>1. Sound(d) /\ ZeroBeyond(d)
  BY DEF Intact, Stock
<1>2. /\ Sound(e) /\ Kept(d, e, ino)
      /\ w.result.err \in {"OK", "NO_SPACE"} /\ n \in 0..Len(cells)
      /\ Backed(d, ino) <= Backed(e, ino)
      /\ w.result.err # "OK" => e.inodes[ino].size = d.inodes[ino].size /\ n = 0
      /\ \A i \in 0..(Backed(e, ino) - 1) :
           CellAt(e, ino, i) = IF i \in offset..(offset + n - 1) THEN cells[i - offset + 1]
                               ELSE IF i < Backed(d, ino) THEN CellAt(d, ino, i) ELSE Zero
  BY <1>1, WriteKeeps
<1>3. ZeroBeyond(e)
  BY <1>1, WriteKeepsZero
<1> HIDE DEF w, e, n
<1>4. /\ d.inode_bitmap \subseteq Inodes /\ Dirs(d) \subseteq d.inode_bitmap
      /\ \A i \in Inodes : Backed(d, i) \in Nat /\ Backed(e, i) \in Nat
  BY <1>1, <1>2, BitmapTypes
<1>5. /\ e.inode_bitmap = d.inode_bitmap
      /\ \A i \in d.inode_bitmap : e.inodes[i].type = d.inodes[i].type
  BY <1>2, <1>4 DEF Kept
<1>6. ASSUME NEW i \in d.inode_bitmap, i # ino
      PROVE  SameInode(d, e, i)
  <2>1. i \in Inodes \ {ino}
    BY <1>4, <1>6
  <2>2. /\ Size(e, i) = Size(d, i) /\ Backed(e, i) = Backed(d, i)
        /\ \A k \in 0..(Backed(d, i) - 1) : CellAt(e, i, k) = CellAt(d, i, k)
    BY <1>2, <2>1 DEF Kept, Size, Backed
  <2> QED  BY <1>4, <2>1, <2>2 DEF SameInode
<1>7. ino \notin Dirs(d)
  BY DEF Dirs
<1>8. Intact(e)
  <2>1. SameDirs(d, e)
    BY <1>4, <1>5, <1>6, <1>7 DEF SameDirs
  <2> QED  BY <1>2, <1>3, <2>1, SameKeepsIntact
<1>9. ASSUME w.result.err # "OK"
      PROVE  Same(d, e)
  <2>1. n = 0 /\ offset..(offset + n - 1) = {} /\ Size(e, ino) = Size(d, ino)
    BY <1>2, <1>9 DEF Size
  <2>2. \A k \in 0..(Backed(d, ino) - 1) : k \in 0..(Backed(e, ino) - 1) /\ k < Backed(d, ino)
    BY <1>2, <1>4
  <2>3. \A k \in 0..(Backed(d, ino) - 1) : CellAt(e, ino, k) = CellAt(d, ino, k)
    BY <1>2, <2>1, <2>2
  <2>4. SameInode(d, e, ino)
    BY <1>2, <2>1, <2>3 DEF SameInode
  <2> QED  BY <1>5, <1>6, <2>4 DEF Same
<1>10. n \in Nat
  BY <1>2 DEF IsData
<1> QED  BY <1>2, <1>5, <1>8, <1>9, <1>10 DEF w, e, n

LEMMA FileTruncated ==
  ASSUME NEW d, Intact(d), NEW ino \in d.inode_bitmap, d.inodes[ino].type = "FILE"
  PROVE  LET e == chain_truncate(d, ino) IN
         /\ Intact(e) /\ e.inode_bitmap = d.inode_bitmap
         /\ \A i \in d.inode_bitmap : e.inodes[i].type = d.inodes[i].type
<1> DEFINE e == chain_truncate(d, ino)
<1>1. Sound(d) /\ ZeroBeyond(d)
  BY DEF Intact, Stock
<1>2. /\ Sound(e) /\ Dropped(d, e, ino) /\ e.inode_bitmap = d.inode_bitmap
      /\ e.inodes[ino].type = d.inodes[ino].type
  BY <1>1, TruncateKeeps
<1> HIDE DEF e
<1>3. /\ d.inode_bitmap \subseteq Inodes /\ Dirs(d) \subseteq d.inode_bitmap
      /\ \A i \in Inodes : Backed(d, i) \in Nat
  BY <1>1, BitmapTypes
<1>4. /\ ZeroBeyond(e)
      /\ \A i \in Inodes \ {ino} : Untouched(d, e, i)
  BY <1>1, <1>2, <1>3, DroppedCells
<1>5. ASSUME NEW i \in d.inode_bitmap
      PROVE  e.inodes[i].type = d.inodes[i].type /\ (i # ino => SameInode(d, e, i))
  <2>1. i # ino => Untouched(d, e, i)
    BY <1>3, <1>4
  <2>2. Backed(d, i) \in Nat /\ \A k \in 0..(Backed(d, i) - 1) : k \in Nat
    BY <1>3
  <2> QED  BY <1>2, <2>1, <2>2 DEF Untouched, SameInode
<1>6. SameDirs(d, e)
  <2>1. ino \notin Dirs(d)
    BY DEF Dirs
  <2> QED  BY <1>2, <1>3, <1>5, <2>1 DEF SameDirs
<1> QED  BY <1>2, <1>4, <1>5, <1>6, SameKeepsIntact DEF e

(***************************************************************************)
(* What the calls look up                                                  *)
(***************************************************************************)
LEMMA PathResolved ==
  ASSUME NEW d, Intact(d), NEW path \in Paths
  PROVE  LET r == path_resolve(d, path) IN
         /\ r.err \in Errors
         /\ r.err = "OK" => r.n \in d.inode_bitmap /\ path \in AbsolutePaths
<1>1. Stock(d) /\ Linked(d) /\ Unique(d) /\ ROOT_INODE \in Dirs(d)
  BY DEF Intact, Tree
<1>2. CASE path \in AbsolutePaths
  <2>1. /\ path_resolve(d, path) \in Arrivals
        /\ path_resolve(d, path).err = "OK" => Resolves(d, path, path_resolve(d, path).n)
    BY <1>1, <1>2, ResolveIs
  <2>2. path_resolve(d, path).err \in Errors /\ path_resolve(d, path).n \in Inodes
    BY <2>1 DEF Arrivals
  <2> QED  BY <1>1, <1>2, <2>1, <2>2, ResolvedIsThere
<1>3. CASE path = BadPath
  BY <1>3 DEF path_resolve, Failure, Errors
<1> QED  BY <1>2, <1>3 DEF Paths

LEMMA ParentResolved ==
  ASSUME NEW d, Intact(d), NEW path \in Paths
  PROVE  LET r == path_resolve_parent(d, path) IN
         /\ r.err \in Errors
         /\ r.err = "OK" => r.n \in d.inode_bitmap /\ Leaf(path) \in Names
<1>1. CASE SplitError(path) # "OK"
  BY <1>1 DEF path_resolve_parent, SplitError, Failure, Errors
<1>2. CASE SplitError(path) = "OK"
  <2>1. path \in AbsolutePaths /\ path # <<>>
    BY <1>2 DEF SplitError, Paths
  <2>2. path_resolve_parent(d, path) = path_resolve(d, Parent(path))
    BY <1>2 DEF path_resolve_parent
  <2> QED  BY <2>1, <2>2, ParentTypes, PathResolved DEF Paths
<1> QED  BY <1>1, <1>2

LEMMA Found ==
  ASSUME NEW d, Intact(d), NEW dir, NEW name
  PROVE  LET r == dir_find(d, dir, name) IN
         /\ r.err \in Errors
         /\ r.err = "OK" => /\ r.n \in d.inode_bitmap /\ dir \in Dirs(d)
                            /\ \E s \in Nat : /\ Live(d, dir, s) /\ CellAt(d, dir, s).name = name
                                              /\ CellAt(d, dir, s).inode = r.n
<1>1. Stock(d) /\ Linked(d) /\ Unique(d)
  BY DEF Intact, Tree
<1>2. CASE dir \notin Dirs(d)
  BY <1>1, <1>2, DirFind DEF Failure, Errors
<1>3. CASE dir \in Dirs(d) /\ \A i \in Nat : Live(d, dir, i) => CellAt(d, dir, i).name # name
  BY <1>1, <1>3, DirFind DEF Failure, Errors
<1>4. CASE \E i \in Nat : Live(d, dir, i) /\ CellAt(d, dir, i).name = name
  <2>1. PICK i \in Nat : Live(d, dir, i) /\ CellAt(d, dir, i).name = name
    BY <1>4
  <2>2. dir_find(d, dir, name) = Success(CellAt(d, dir, i).inode, <<>>)
    BY <1>1, <2>1, DirFind
  <2>3. CellAt(d, dir, i).inode \in d.inode_bitmap /\ dir \in Dirs(d)
    BY <1>1, <2>1 DEF Linked, Live
  <2> QED  BY <2>1, <2>2, <2>3 DEF Success, Errors
<1> QED  BY <1>2, <1>3, <1>4


(***************************************************************************)
(* The calls                                                               *)
(***************************************************************************)
FdRecords == [in_use : BOOLEAN, inode : Inodes, offset : Nat, flags : FlagSets \cup {{}}]
OpenIsFile(f, d) ==
  \A fd \in Fds : f[fd].in_use => f[fd].inode \in d.inode_bitmap /\ d.inodes[f[fd].inode].type = "FILE"
FdsGood(f, d) == f \in [Fds -> FdRecords] /\ OpenIsFile(f, d)

(* The inductive invariant. *)
IInv == Intact(disk) /\ FdsGood(fds, disk) /\ call \in Calls /\ ret.err \in Errors

(* What every call does. *)
Lossless ==
  ret'.err # "OK" => /\ FilesKept(disk, disk')
                     /\ disk'.inode_bitmap # disk.inode_bitmap => ret'.err = "NO_FDS"
CallKeeps == Intact(disk') /\ FdsGood(fds', disk') /\ ret'.err \in Errors /\ Lossless

LEMMA KeptOpen ==
  ASSUME NEW f, NEW d, NEW e, OpenIsFile(f, d), f \in [Fds -> FdRecords],
         \A i \in d.inode_bitmap : i \in e.inode_bitmap /\ e.inodes[i].type = d.inodes[i].type
  PROVE  OpenIsFile(f, e)
<1> QED  BY DEF OpenIsFile

(* A call that returns leaving the disk as it is. *)
LEMMA SameDiskKeeps ==
  ASSUME IInv, UNCHANGED disk, FdsGood(fds', disk), ret'.err \in Errors
  PROVE  CallKeeps
<1>1. FilesKept(disk, disk)
  BY SameAsItself, SameIs DEF IInv, Intact, Stock
<1> QED  BY <1>1 DEF IInv, CallKeeps, Lossless

LEMMA FailedKeeps ==
  ASSUME IInv, NEW err \in Errors, Return(Outcome(disk, err))
  PROVE  CallKeeps
<1>1. UNCHANGED <<disk, fds>> /\ ret'.err = err
  BY DEF Return, Outcome, Failure
<1> QED  BY <1>1, SameDiskKeeps DEF IInv

(* mkdir and create *)
LEMMA AddCallKeeps ==
  ASSUME IInv, NEW path \in Paths, NEW type \in {"FILE", "DIR"},
         Return(AddEntry(disk, path, type))
  PROVE  CallKeeps
<1> DEFINE r == AddEntry(disk, path, type)
<1>1. /\ Intact(r.disk) /\ FilesKept(disk, r.disk) /\ r.err \in Errors
      /\ r.err # "OK" => Same(disk, r.disk)
  BY AddEntryKeeps DEF IInv
<1> HIDE DEF r
<1>2. disk' = r.disk /\ ret'.err = r.err /\ fds' = fds
  BY DEF Return, Failure, r
<1>3. FdsGood(fds, r.disk)
  <2>1. \A i \in disk.inode_bitmap : i \in r.disk.inode_bitmap
                                     /\ r.disk.inodes[i].type = disk.inodes[i].type
    BY <1>1 DEF FilesKept
  <2> QED  BY <2>1, KeptOpen DEF IInv, FdsGood
<1>4. r.err # "OK" => r.disk.inode_bitmap = disk.inode_bitmap
  BY <1>1 DEF Same
<1> QED  BY <1>1, <1>2, <1>3, <1>4 DEF CallKeeps, Lossless

(* rmdir and unlink, once they go ahead *)
LEMMA RemoveCallKeeps ==
  ASSUME IInv, NEW path \in Paths,
         NEW parent, NEW target, parent \in Dirs(disk), Leaf(path) \in Names,
         target \in disk.inode_bitmap,
         \E s \in Nat : /\ Live(disk, parent, s) /\ CellAt(disk, parent, s).name = Leaf(path)
                        /\ CellAt(disk, parent, s).inode = target,
         \A i \in Nat : ~Live(disk, target, i),
         \A fd \in Fds : fds[fd].in_use => fds[fd].inode # target,
         Return(RemoveEntry(parent, target, path))
  PROVE  CallKeeps
<1> DEFINE r == dir_remove(disk, parent, Leaf(path))
           f == inode_free(r.disk, target)
<1>1. PICK s \in Nat : /\ Live(disk, parent, s) /\ CellAt(disk, parent, s).name = Leaf(path)
                       /\ CellAt(disk, parent, s).inode = target
  OBVIOUS
<1>2. Intact(disk) /\ target \in Inodes /\ Sound(disk)
  BY BitmapTypes DEF IInv, Intact, Stock
<1>3. /\ r.err \in {"OK", "IO"}
      /\ r.err # "OK" => Sound(r.disk) /\ ZeroBeyond(r.disk) /\ Same(disk, r.disk)
      /\ r.err = "OK" =>
           /\ Intact(f) /\ f.inode_bitmap = disk.inode_bitmap \ {target}
           /\ \A i \in f.inode_bitmap :
                /\ f.inodes[i].type = disk.inodes[i].type
                /\ disk.inodes[i].type = "FILE" => SameInode(disk, f, i)
  BY <1>1, <1>2, EntryRemoved
<1>4. RemoveEntry(parent, target, path) = IF r.err # "OK" THEN r ELSE Outcome(f, "OK")
  BY DEF RemoveEntry
<1> HIDE DEF r, f
<1>5. CASE r.err # "OK"
  <2>1. disk' = r.disk /\ ret'.err = r.err /\ fds' = fds
    BY <1>4, <1>5 DEF Return, Failure
  <2>2. FilesKept(disk, r.disk) /\ Intact(r.disk) /\ r.disk.inode_bitmap = disk.inode_bitmap
    BY <1>2, <1>3, <1>5, SameIs, SameKeepsIntact DEF Same
  <2>3. FdsGood(fds, r.disk)
    BY <2>2, KeptOpen DEF IInv, FdsGood, FilesKept
  <2> QED  BY <1>3, <2>1, <2>2, <2>3 DEF CallKeeps, Lossless, Errors
<1>6. CASE r.err = "OK"
  <2>1. disk' = f /\ ret'.err = "OK" /\ fds' = fds
    BY <1>4, <1>6 DEF Return, Failure, Outcome
  <2>2. FdsGood(fds, f)
    BY <1>3, <1>6 DEF IInv, FdsGood, OpenIsFile
  <2> QED  BY <1>3, <1>6, <2>1, <2>2 DEF CallKeeps, Lossless, Errors
<1> QED  BY <1>5, <1>6

LEMMA RmdirKeeps ==
  ASSUME IInv, NEW path \in Paths, ramfs_rmdir(path)
  PROVE  CallKeeps
<1> DEFINE parent == path_resolve_parent(disk, path)
           target == dir_find(disk, parent.n, Leaf(path))
<1>1. Return(IF parent.err # "OK" THEN Outcome(disk, parent.err)
             ELSE IF target.err # "OK" THEN Outcome(disk, target.err)
             ELSE IF disk.inodes[target.n].type # "DIR" THEN Outcome(disk, "NOT_DIR")
             ELSE IF dir_is_empty(disk, target.n) # "OK"
             THEN Outcome(disk, dir_is_empty(disk, target.n))
             ELSE RemoveEntry(parent.n, target.n, path))
  BY DEF ramfs_rmdir
<1>2. /\ parent.err \in Errors
      /\ parent.err = "OK" => parent.n \in disk.inode_bitmap /\ Leaf(path) \in Names
  BY ParentResolved DEF IInv
<1>3. /\ target.err \in Errors
      /\ target.err = "OK" =>
           /\ target.n \in disk.inode_bitmap /\ parent.n \in Dirs(disk)
           /\ \E s \in Nat : /\ Live(disk, parent.n, s)
                             /\ CellAt(disk, parent.n, s).name = Leaf(path)
                             /\ CellAt(disk, parent.n, s).inode = target.n
  BY Found DEF IInv
<1> HIDE DEF parent, target
<1>4. dir_is_empty(disk, target.n) \in Errors
  BY DEF dir_is_empty, Errors
<1>5. "NOT_DIR" \in Errors
  BY DEF Errors
<1>6. CASE parent.err # "OK"
  BY <1>1, <1>2, <1>6, FailedKeeps
<1>7. CASE parent.err = "OK" /\ target.err # "OK"
  BY <1>1, <1>3, <1>7, FailedKeeps
<1>8. CASE parent.err = "OK" /\ target.err = "OK" /\ disk.inodes[target.n].type # "DIR"
  BY <1>1, <1>5, <1>8, FailedKeeps
<1>9. CASE /\ parent.err = "OK" /\ target.err = "OK" /\ disk.inodes[target.n].type = "DIR"
           /\ dir_is_empty(disk, target.n) # "OK"
  BY <1>1, <1>4, <1>9, FailedKeeps
<1>10. CASE /\ parent.err = "OK" /\ target.err = "OK" /\ disk.inodes[target.n].type = "DIR"
            /\ dir_is_empty(disk, target.n) = "OK"
  <2>1. target.n \in Dirs(disk)
    BY <1>3, <1>10 DEF Dirs
  <2>2. \A i \in Nat : ~Live(disk, target.n, i)
    <3>1. Slots(disk, target.n) = 0..(Size(disk, target.n) - 1) /\ IsDir(disk, target.n)
      BY <2>1, SlotsAre DEF IInv, Intact
    <3>2. \A i \in Slots(disk, target.n) : CellAt(disk, target.n, i) = Hole
      BY <1>10, <3>1 DEF dir_is_empty
    <3> QED  BY <3>1, <3>2 DEF Live
  <2>3. \A fd \in Fds : fds[fd].in_use => fds[fd].inode # target.n
    BY <1>10 DEF IInv, FdsGood, OpenIsFile
  <2>4. Return(RemoveEntry(parent.n, target.n, path))
    BY <1>1, <1>10
  <2> QED  BY <1>2, <1>3, <1>10, <2>2, <2>3, <2>4, RemoveCallKeeps
<1> QED  BY <1>6, <1>7, <1>8, <1>9, <1>10

LEMMA UnlinkKeeps ==
  ASSUME IInv, NEW path \in Paths, ramfs_unlink(path)
  PROVE  CallKeeps
<1> DEFINE parent == path_resolve_parent(disk, path)
           target == dir_find(disk, parent.n, Leaf(path))
           open == \E fd \in Fds : fds[fd].in_use /\ fds[fd].inode = target.n
<1>1. Return(IF parent.err # "OK" THEN Outcome(disk, parent.err)
             ELSE IF target.err # "OK" THEN Outcome(disk, target.err)
             ELSE IF disk.inodes[target.n].type = "DIR" THEN Outcome(disk, "IS_DIR")
             ELSE IF open THEN Outcome(disk, "IO")
             ELSE RemoveEntry(parent.n, target.n, path))
  BY DEF ramfs_unlink
<1>2. /\ parent.err \in Errors
      /\ parent.err = "OK" => parent.n \in disk.inode_bitmap /\ Leaf(path) \in Names
  BY ParentResolved DEF IInv
<1>3. /\ target.err \in Errors
      /\ target.err = "OK" =>
           /\ target.n \in disk.inode_bitmap /\ parent.n \in Dirs(disk)
           /\ \E s \in Nat : /\ Live(disk, parent.n, s)
                             /\ CellAt(disk, parent.n, s).name = Leaf(path)
                             /\ CellAt(disk, parent.n, s).inode = target.n
  BY Found DEF IInv
<1>4. "IS_DIR" \in Errors /\ "IO" \in Errors
  BY DEF Errors
<1>5. ~open => \A fd \in Fds : fds[fd].in_use => fds[fd].inode # target.n
  OBVIOUS
<1> HIDE DEF parent, target, open
<1>6. CASE parent.err # "OK"
  BY <1>1, <1>2, <1>6, FailedKeeps
<1>7. CASE parent.err = "OK" /\ target.err # "OK"
  BY <1>1, <1>3, <1>7, FailedKeeps
<1>8. CASE parent.err = "OK" /\ target.err = "OK" /\ disk.inodes[target.n].type = "DIR"
  BY <1>1, <1>4, <1>8, FailedKeeps
<1>9. CASE /\ parent.err = "OK" /\ target.err = "OK" /\ disk.inodes[target.n].type # "DIR"
           /\ open
  BY <1>1, <1>4, <1>9, FailedKeeps
<1>10. CASE /\ parent.err = "OK" /\ target.err = "OK" /\ disk.inodes[target.n].type # "DIR"
            /\ ~open
  <2>1. \A i \in Nat : ~Live(disk, target.n, i)
    BY <1>10 DEF Live, Dirs
  <2>2. Return(RemoveEntry(parent.n, target.n, path))
    BY <1>1, <1>10
  <2> QED  BY <1>2, <1>3, <1>5, <1>10, <2>1, <2>2, RemoveCallKeeps
<1> QED  BY <1>6, <1>7, <1>8, <1>9, <1>10


LEMMA StatKeeps ==
  ASSUME IInv, NEW path \in Paths, ramfs_stat(path)
  PROVE  CallKeeps
<1>1. path_resolve(disk, path).err \in Errors
  BY PathResolved DEF IInv
<1>2. ret'.err \in Errors /\ UNCHANGED <<disk, fds>>
  BY <1>1 DEF ramfs_stat, Success, Errors
<1> QED  BY <1>2, SameDiskKeeps DEF IInv

LEMMA ListKeeps ==
  ASSUME IInv, NEW path \in Paths, NEW max \in ListMaxes, ramfs_list(path, max)
  PROVE  CallKeeps
<1>1. path_resolve(disk, path).err \in Errors
  BY PathResolved DEF IInv
<1>2. ret'.err \in Errors /\ UNCHANGED <<disk, fds>>
  BY <1>1 DEF ramfs_list, Success, Failure, Errors
<1> QED  BY <1>2, SameDiskKeeps DEF IInv

(* The end of open, on the disk it has come to. *)
LEMMA OpenTargetKeeps ==
  ASSUME IInv, NEW d, Intact(d), FilesKept(disk, d), NEW target \in d.inode_bitmap,
         NEW flags \in FlagSets, OpenTarget(d, target, flags),
         d.inode_bitmap # disk.inode_bitmap => d.inodes[target].type = "FILE"
  PROVE  CallKeeps
<1> DEFINE e == IF "TRUNC" \in flags THEN chain_truncate(d, target) ELSE d
           opened == [in_use |-> TRUE, inode |-> target, flags |-> flags,
                      offset |-> IF "APPEND" \in flags THEN e.inodes[target].size ELSE 0]
<1>1. d.inode_bitmap \subseteq Inodes /\ d.inodes[target].type \in Types
  BY BitmapTypes, DiskTypes DEF Intact, Stock
<1>2. FdsGood(fds, d)
  <2>1. \A i \in disk.inode_bitmap : i \in d.inode_bitmap /\ d.inodes[i].type = disk.inodes[i].type
    BY DEF FilesKept
  <2> QED  BY <2>1, KeptOpen DEF IInv, FdsGood
<1>3. CASE d.inodes[target].type = "DIR"
  <2>1. disk' = d /\ UNCHANGED fds /\ ret'.err = "IS_DIR"
    BY <1>3 DEF OpenTarget, Failure
  <2>2. d.inode_bitmap = disk.inode_bitmap
    BY <1>3
  <2> QED  BY <1>2, <2>1, <2>2 DEF CallKeeps, Lossless, Errors
<1>4. CASE d.inodes[target].type # "DIR" /\ FreeFds = {}
  <2>1. disk' = d /\ UNCHANGED fds /\ ret'.err = "NO_FDS"
    BY <1>4 DEF OpenTarget, Failure
  <2> QED  BY <1>2, <2>1 DEF CallKeeps, Lossless, Errors
<1>5. CASE d.inodes[target].type # "DIR" /\ FreeFds # {}
  <2>1. disk' = e /\ fds' = [fds EXCEPT ![fd_alloc] = opened] /\ ret'.err = "OK"
    BY <1>5 DEF OpenTarget, Success
  <2>2. d.inodes[target].type = "FILE"
    <3>1. d.inodes[target].type # "FREE"
      BY <1>1 DEF Intact, Stock, Sound, FreeIsEmpty
    <3> QED  BY <1>1, <1>5, <3>1 DEF Types
  <2>3. /\ Intact(e) /\ e.inode_bitmap = d.inode_bitmap
        /\ \A i \in d.inode_bitmap : e.inodes[i].type = d.inodes[i].type
    BY <2>2, FileTruncated
  <2>4. fd_alloc \in Fds
    <3>1. FreeFds \in SUBSET Nat /\ FreeFds \subseteq Fds
      BY ApiAssumption DEF FreeFds, Fds
    <3> QED  BY <1>5, <3>1, MinIsThere DEF fd_alloc
  <2>5. opened \in FdRecords
    <3>1. target \in Inodes
      BY <1>1
    <3>2. e.inodes[target].size \in Nat
      BY <2>3, <3>1, DiskTypes DEF Intact, Stock, Sound
    <3> HIDE DEF e
    <3> QED  BY <3>1, <3>2 DEF FdRecords
  <2>6. opened.in_use /\ opened.inode = target
    OBVIOUS
  <2> HIDE DEF e, opened
  <2>7. FdsGood(fds', e)
    <3>1. fds \in [Fds -> FdRecords] /\ OpenIsFile(fds, e)
      BY <1>2, <2>3 DEF FdsGood, OpenIsFile
    <3>2. fds' \in [Fds -> FdRecords]
      BY <2>1, <2>5, <3>1
    <3>3. OpenIsFile(fds', e)
      BY <2>1, <2>2, <2>3, <2>4, <2>6, <3>1 DEF OpenIsFile
    <3> QED  BY <3>2, <3>3 DEF FdsGood
  <2> QED  BY <2>1, <2>3, <2>7 DEF CallKeeps, Lossless, Errors
<1> QED  BY <1>3, <1>4, <1>5

LEMMA OpenKeeps ==
  ASSUME IInv, NEW path \in Paths, NEW flags \in FlagSets, ramfs_open(path, flags)
  PROVE  CallKeeps
<1> DEFINE r == path_resolve(disk, path)
           made == AddEntry(disk, path, "FILE")
           again == path_resolve(made.disk, path)
<1>1. Intact(disk) /\ FilesKept(disk, disk)
  BY SameAsItself, SameIs DEF IInv, Intact, Stock
<1>2. r.err \in Errors /\ (r.err = "OK" => r.n \in disk.inode_bitmap)
  BY <1>1, PathResolved
<1>3. CASE r.err # "OK" /\ ~(r.err = "NOT_FOUND" /\ "CREATE" \in flags)
  <2>1. Return(Outcome(disk, r.err))
    BY <1>3 DEF ramfs_open
  <2> QED  BY <1>2, <2>1, FailedKeeps
<1>4. CASE r.err = "OK"
  <2>1. OpenTarget(disk, r.n, flags)
    BY <1>4 DEF ramfs_open
  <2>2. r.n \in disk.inode_bitmap
    BY <1>2, <1>4
  <2> HIDE DEF r
  <2> QED  BY <1>1, <2>1, <2>2, OpenTargetKeeps
<1>5. CASE r.err = "NOT_FOUND" /\ "CREATE" \in flags /\ made.err # "OK"
  <2>1. Return(made)
    BY <1>5 DEF ramfs_open
  <2> QED  BY <2>1, AddCallKeeps
<1>6. CASE r.err = "NOT_FOUND" /\ "CREATE" \in flags /\ made.err = "OK"
  <2>1. /\ Intact(made.disk) /\ FilesKept(disk, made.disk)
        /\ \E n \in made.disk.inode_bitmap :
             /\ path \in AbsolutePaths
             /\ Resolves(made.disk, path, n) /\ made.disk.inodes[n].type = "FILE"
    BY <1>1, <1>6, AddEntryKeeps
  <2>2. again.err = "OK" /\ again.n \in made.disk.inode_bitmap
        /\ made.disk.inodes[again.n].type = "FILE"
    <3>1. PICK n \in made.disk.inode_bitmap :
             /\ path \in AbsolutePaths
             /\ Resolves(made.disk, path, n) /\ made.disk.inodes[n].type = "FILE"
      BY <2>1
    <3>2. n \in Inodes
      BY <2>1, BitmapTypes DEF Intact, Stock
    <3> HIDE DEF made
    <3>3. again = Success(n, <<>>)
      BY <2>1, <3>1, <3>2, ResolveIs DEF Intact, Tree
    <3> QED  BY <3>1, <3>3 DEF Success
  <2>3. OpenTarget(made.disk, again.n, flags)
    BY <1>6, <2>2 DEF ramfs_open
  <2> HIDE DEF made, again
  <2> QED  BY <2>1, <2>2, <2>3, OpenTargetKeeps
<1> QED  BY <1>3, <1>4, <1>5, <1>6

LEMMA MovedKeeps ==
  ASSUME IInv, NEW fd \in Fds, NEW offset \in Nat, NEW d, Intact(d),
         FdsGood(fds, d), fds' = [fds EXCEPT ![fd].offset = offset]
  PROVE  FdsGood(fds', d)
<1>1. fds \in [Fds -> FdRecords]
  BY DEF FdsGood
<1>2. [fds[fd] EXCEPT !.offset = offset] \in FdRecords
  BY <1>1 DEF FdRecords
<1>3. fds' \in [Fds -> FdRecords]
  BY <1>1, <1>2
<1>4. \A x \in Fds : fds'[x].in_use = fds[x].in_use /\ fds'[x].inode = fds[x].inode
  BY <1>1 DEF FdRecords
<1> QED  BY <1>3, <1>4 DEF FdsGood, OpenIsFile

LEMMA BadFdKeeps ==
  ASSUME IInv, BadFd
  PROVE  CallKeeps
<1> QED  BY FailedKeeps DEF BadFd, Errors

LEMMA ReadKeeps ==
  ASSUME IInv, NEW fd \in -1..NFds, NEW count \in ReadCounts, ramfs_read(fd, count)
  PROVE  CallKeeps
<1>1. CASE ~(fd_check(fd) /\ "READ" \in fds[fd].flags) /\ BadFd
  BY <1>1, BadFdKeeps
<1>2. CASE /\ fd_check(fd) /\ "READ" \in fds[fd].flags
           /\ ret' = chain_read(disk, fds[fd].inode, fds[fd].offset, count)
           /\ fds' = [fds EXCEPT ![fd].offset = @ + ret'.n]
           /\ UNCHANGED disk
  <2> DEFINE ino == fds[fd].inode
             offset == fds[fd].offset
  <2>1. fd \in Fds /\ fds[fd].in_use
    BY <1>2 DEF fd_check
  <2>2. fds[fd] \in FdRecords
    BY <2>1 DEF IInv, FdsGood
  <2>3. ino \in Inodes /\ offset \in Nat
    BY <2>2 DEF FdRecords
  <2>4. disk.inodes[ino].size \in Nat
    BY <2>3, DiskTypes DEF IInv, Intact, Stock, Sound
  <2>5. count \in Nat
    BY ApiAssumption
  <2> HIDE DEF ino, offset
  <2>6. ret'.err \in {"OK", "IO"} /\ ret'.n \in Nat
    <3>1. ret' = chain_read(disk, ino, offset, count)
      BY <1>2 DEF ino, offset
    <3>2. offset < disk.inodes[ino].size => Smaller(count, disk.inodes[ino].size - offset) \in Nat
      BY <2>3, <2>4, <2>5 DEF Smaller
    <3> DEFINE n == Smaller(count, disk.inodes[ino].size - offset)
               data == [i \in 1..n |-> CellAt(disk, ino, offset + i - 1)]
    <3>3. \/ ret' = Done
          \/ ret' = Failure("IO")
          \/ offset < disk.inodes[ino].size /\ ret' = Success(n, data)
      BY <2>3, <2>4, <3>1 DEF chain_read
    <3> HIDE DEF n, data
    <3> QED  BY <3>2, <3>3 DEF Done, Failure, Success, n
  <2>7. fds' = [fds EXCEPT ![fd].offset = offset + ret'.n]
    BY <1>2 DEF offset
  <2>8. offset + ret'.n \in Nat
    BY <2>3, <2>6
  <2>9. FdsGood(fds', disk)
    BY <2>1, <2>7, <2>8, MovedKeeps DEF IInv
  <2> QED  BY <1>2, <2>6, <2>9, SameDiskKeeps DEF Errors
<1> QED  BY <1>1, <1>2 DEF ramfs_read

LEMMA WriteCallKeeps ==
  ASSUME IInv, NEW fd \in -1..NFds, NEW buf \in Buffers, ramfs_write(fd, buf)
  PROVE  CallKeeps
<1>1. CASE ~(fd_check(fd) /\ "WRITE" \in fds[fd].flags) /\ BadFd
  BY <1>1, BadFdKeeps
<1>2. CASE fd_check(fd) /\ "WRITE" \in fds[fd].flags
  <2> DEFINE ino == fds[fd].inode
             offset == IF "APPEND" \in fds[fd].flags THEN disk.inodes[ino].size
                       ELSE fds[fd].offset
             w == chain_write(disk, ino, offset, buf)
  <2>1. disk' = w.disk /\ ret' = w.result /\ fds' = [fds EXCEPT ![fd].offset = offset + w.result.n]
    BY <1>2 DEF ramfs_write, BadFd
  <2>2. fd \in Fds /\ fds[fd].in_use
    BY <1>2 DEF fd_check
  <2>3. fds[fd] \in FdRecords
    BY <2>2 DEF IInv, FdsGood
  <2>4. ino \in Inodes /\ offset \in Nat
    <3>1. ino \in Inodes /\ fds[fd].offset \in Nat
      BY <2>3 DEF FdRecords
    <3>2. disk.inodes[ino].size \in Nat
      BY <3>1, DiskTypes DEF IInv, Intact, Stock, Sound
    <3> QED  BY <3>1, <3>2
  <2>5. ino \in disk.inode_bitmap /\ disk.inodes[ino].type = "FILE"
    BY <2>2 DEF IInv, FdsGood, OpenIsFile
  <2>6. IsData(buf)
    <3>1. buf \in Seq(Bytes)
      BY ApiAssumption
    <3>2. Len(buf) \in Nat /\ \A k \in 1..Len(buf) : buf[k] \in Bytes
      BY <3>1, LenProperties, ElementOfSeq
    <3> QED  BY <3>2 DEF IsData, Contents, Cells
  <2> HIDE DEF ino, offset
  <2>7. /\ Intact(w.disk) /\ w.disk.inode_bitmap = disk.inode_bitmap
        /\ \A i \in disk.inode_bitmap : w.disk.inodes[i].type = disk.inodes[i].type
        /\ w.result.err \in {"OK", "NO_SPACE"} /\ w.result.n \in Nat
        /\ w.result.err # "OK" => Same(disk, w.disk)
    BY <2>4, <2>5, <2>6, FileWritten DEF IInv
  <2> HIDE DEF w
  <2>8. FdsGood(fds, w.disk)
    BY <2>7, KeptOpen DEF IInv, FdsGood
  <2>9. offset + w.result.n \in Nat
    BY <2>4, <2>7
  <2>10. FdsGood(fds', w.disk)
    BY <2>1, <2>2, <2>7, <2>8, <2>9, MovedKeeps
  <2>11. w.result.err # "OK" => FilesKept(disk, w.disk)
    BY <2>7, SameIs DEF IInv, Intact, Stock
  <2> QED  BY <2>1, <2>7, <2>10, <2>11 DEF CallKeeps, Lossless, Errors
<1> QED  BY <1>1, <1>2 DEF ramfs_write

LEMMA SeekKeeps ==
  ASSUME IInv, NEW fd \in -1..NFds, NEW offset \in SeekOffsets, ramfs_seek(fd, offset)
  PROVE  CallKeeps
<1>1. CASE ~fd_check(fd) /\ BadFd
  BY <1>1, BadFdKeeps
<1>2. CASE /\ fd_check(fd) /\ fds' = [fds EXCEPT ![fd].offset = offset]
           /\ ret' = Done /\ UNCHANGED disk
  <2>1. fd \in Fds /\ offset \in Nat /\ ret'.err \in Errors
    BY <1>2, ApiAssumption DEF fd_check, Done, Success, Errors
  <2>2. FdsGood(fds', disk)
    BY <1>2, <2>1, MovedKeeps DEF IInv
  <2> QED  BY <1>2, <2>1, <2>2, SameDiskKeeps
<1> QED  BY <1>1, <1>2 DEF ramfs_seek

LEMMA ClosedFdIsFd == ClosedFd \in FdRecords /\ ~ClosedFd.in_use
<1> QED  BY ApiAssumption DEF ClosedFd, FdRecords, Inodes

LEMMA CloseKeeps ==
  ASSUME IInv, NEW fd \in -1..NFds, ramfs_close(fd)
  PROVE  CallKeeps
<1>1. CASE ~fd_check(fd) /\ BadFd
  BY <1>1, BadFdKeeps
<1>2. CASE /\ fd_check(fd) /\ fds' = [fds EXCEPT ![fd] = ClosedFd]
           /\ ret' = Done /\ UNCHANGED disk
  <2>1. FdsGood(fds', disk)
    BY <1>2, ClosedFdIsFd DEF IInv, FdsGood, OpenIsFile
  <2>2. ret'.err \in Errors
    BY <1>2 DEF Done, Success, Errors
  <2> QED  BY <1>2, <2>1, <2>2, SameDiskKeeps
<1> QED  BY <1>1, <1>2 DEF ramfs_close

LEMMA NextKeeps ==
  ASSUME IInv, Next
  PROVE  CallKeeps /\ call' \in Calls
<1>1. ASSUME NEW path \in Paths, Called("mkdir") /\ ramfs_mkdir(path)
      PROVE  CallKeeps /\ call' \in Calls
  BY <1>1, AddCallKeeps DEF ramfs_mkdir, Called, Calls
<1>2. ASSUME NEW path \in Paths, Called("create") /\ ramfs_create(path)
      PROVE  CallKeeps /\ call' \in Calls
  BY <1>2, AddCallKeeps DEF ramfs_create, Called, Calls
<1>3. ASSUME NEW path \in Paths, Called("rmdir") /\ ramfs_rmdir(path)
      PROVE  CallKeeps /\ call' \in Calls
  BY <1>3, RmdirKeeps DEF Called, Calls
<1>4. ASSUME NEW path \in Paths, Called("unlink") /\ ramfs_unlink(path)
      PROVE  CallKeeps /\ call' \in Calls
  BY <1>4, UnlinkKeeps DEF Called, Calls
<1>5. ASSUME NEW path \in Paths, Called("stat") /\ ramfs_stat(path)
      PROVE  CallKeeps /\ call' \in Calls
  BY <1>5, StatKeeps DEF Called, Calls
<1>6. ASSUME NEW path \in Paths, NEW max \in ListMaxes, Called("list") /\ ramfs_list(path, max)
      PROVE  CallKeeps /\ call' \in Calls
  BY <1>6, ListKeeps DEF Called, Calls
<1>7. ASSUME NEW path \in Paths, NEW flags \in FlagSets, Called("open") /\ ramfs_open(path, flags)
      PROVE  CallKeeps /\ call' \in Calls
  BY <1>7, OpenKeeps DEF Called, Calls
<1>8. ASSUME NEW fd \in -1..NFds, NEW count \in ReadCounts, Called("read") /\ ramfs_read(fd, count)
      PROVE  CallKeeps /\ call' \in Calls
  BY <1>8, ReadKeeps DEF Called, Calls
<1>9. ASSUME NEW fd \in -1..NFds, NEW buf \in Buffers, Called("write") /\ ramfs_write(fd, buf)
      PROVE  CallKeeps /\ call' \in Calls
  BY <1>9, WriteCallKeeps DEF Called, Calls
<1>10. ASSUME NEW fd \in -1..NFds, NEW offset \in SeekOffsets,
              Called("seek") /\ ramfs_seek(fd, offset)
       PROVE  CallKeeps /\ call' \in Calls
  BY <1>10, SeekKeeps DEF Called, Calls
<1>11. ASSUME NEW fd \in -1..NFds, Called("close") /\ ramfs_close(fd)
       PROVE  CallKeeps /\ call' \in Calls
  BY <1>11, CloseKeeps DEF Called, Calls
<1> QED  BY <1>1, <1>2, <1>3, <1>4, <1>5, <1>6, <1>7, <1>8, <1>9, <1>10, <1>11 DEF Next


(***************************************************************************)
(* The theorems                                                            *)
(***************************************************************************)
LEMMA EmptyDisk ==
  ASSUME Init
  PROVE  IInv
<1>1. disk = [fat |-> [b \in Blocks |-> RAMFS_END], block_bitmap |-> {},
              data_blocks |-> [b \in Blocks |-> ZeroBlock],
              inodes |-> [i \in Inodes |-> IF i = ROOT_INODE
                                           THEN [FreeInode EXCEPT !.type = "DIR"] ELSE FreeInode],
              inode_bitmap |-> {ROOT_INODE}]
  BY DEF Init
<1>2. /\ disk.fat = [b \in Blocks |-> RAMFS_END] /\ disk.block_bitmap = {}
      /\ disk.data_blocks = [b \in Blocks |-> ZeroBlock]
      /\ disk.inodes = [i \in Inodes |-> IF i = ROOT_INODE
                                         THEN [FreeInode EXCEPT !.type = "DIR"] ELSE FreeInode]
      /\ disk.inode_bitmap = {ROOT_INODE}
  BY <1>1
<1>3. ROOT_INODE \in Inodes
  BY ApiAssumption DEF Inodes, ROOT_INODE
<1>4. \A i \in Inodes : /\ disk.inodes[i].first_block = RAMFS_END /\ disk.inodes[i].size = 0
                        /\ disk.inodes[i].type = IF i = ROOT_INODE THEN "DIR" ELSE "FREE"
                        /\ i # ROOT_INODE => disk.inodes[i] = FreeInode
  BY <1>2 DEF FreeInode
<1>5. disk \in Disks
  <2>1. disk.fat \in Fats /\ disk.block_bitmap \in Bitmaps
    BY <1>2, EndNotBlock DEF Fats, Bitmaps
  <2>2. disk.data_blocks \in Stores
    BY <1>2 DEF Stores, ZeroBlock, Contents, Cells, Offsets
  <2>3. disk.inodes \in Pools
    <3>1. FreeInode \in InodeRecords /\ [FreeInode EXCEPT !.type = "DIR"] \in InodeRecords
      BY DEF FreeInode, InodeRecords, Types
    <3> QED  BY <1>2, <3>1 DEF Pools
  <2>4. disk.inode_bitmap \in InodeBitmaps
    BY <1>2, <1>3 DEF InodeBitmaps
  <2>5. disk = [fat |-> disk.fat, block_bitmap |-> disk.block_bitmap,
                data_blocks |-> disk.data_blocks, inodes |-> disk.inodes,
                inode_bitmap |-> disk.inode_bitmap]
    BY <1>1
  <2> QED  BY <2>1, <2>2, <2>3, <2>4, <2>5 DEF Disks
<1>6. ASSUME NEW i \in Inodes
      PROVE  \A k \in 0..NBlocks : Chain(disk, i)[k] = RAMFS_END
  <2>1. /\ Chain(disk, i)[0] = RAMFS_END
        /\ \A k \in 0..(NBlocks - 1) : Chain(disk, i)[k + 1] = Follow(disk, Chain(disk, i)[k])
    BY <1>4, <1>5, ChainIsChain DEF IsChain
  <2> DEFINE T == {k \in Nat : k <= NBlocks => Chain(disk, i)[k] = RAMFS_END}
  <2>2. 0 \in T
    BY <2>1
  <2>3. ASSUME NEW k \in Nat, k \in T
        PROVE  k + 1 \in T
    <3>1. k + 1 <= NBlocks => k \in 0..(NBlocks - 1) /\ k <= NBlocks
      BY RamFSAssumption
    <3> QED  BY <2>1, <2>3, <3>1 DEF Follow
  <2>4. Nat \subseteq T
    <3> HIDE DEF T
    <3> QED  BY <2>2, <2>3, SetInduction
  <2> QED  BY <2>4, RamFSAssumption
<1>7. Sound(disk)
  <2>1. Ends(disk) /\ Apart(disk)
    BY <1>6, RamFSAssumption DEF Ends, Apart
  <2>2. Owned(disk)
    BY <1>2, <1>6, EndNotBlock DEF Owned
  <2>3. FreeIsEmpty(disk)
    BY <1>2, <1>4 DEF FreeIsEmpty
  <2> QED  BY <1>5, <2>1, <2>2, <2>3 DEF Sound
<1>8. \A i \in Inodes : Backed(disk, i) = 0 /\ Size(disk, i) = 0
  <2>1. ASSUME NEW i \in Inodes
        PROVE  ChainLength(disk, i) = 0
    <3>1. {k \in 0..(NBlocks - 1) : Chain(disk, i)[k] # RAMFS_END} = {}
      BY <1>6, RamFSAssumption
    <3> QED  BY <3>1, FS_EmptySet DEF ChainLength
  <2> QED  BY <1>4, <2>1, RamFSAssumption DEF Backed, Size
<1>9. Dirs(disk) = {ROOT_INODE}
  BY <1>2, <1>3, <1>4 DEF Dirs
<1>10. \A dir : \A i \in Nat : ~Live(disk, dir, i)
  BY <1>3, <1>8, <1>9 DEF Live
<1>11. Stock(disk)
  <2>1. ZeroBeyond(disk)
    BY <1>2, <1>3, <1>8 DEF ZeroBeyond
  <2>2. Readable(disk)
    BY <1>3, <1>8, <1>9 DEF Readable
  <2> QED  BY <1>7, <2>1, <2>2 DEF Stock
<1>12. Tree(disk)
  <2>1. Linked(disk) /\ Unique(disk)
    BY <1>10 DEF Linked, Unique
  <2>2. Named(disk)
    BY <1>2 DEF Named
  <2>3. Bounded(disk)
    BY <1>3, <1>8, <1>9, ApiAssumption DEF Bounded
  <2> QED  BY <1>9, <2>1, <2>2, <2>3 DEF Tree
<1>13. Reachable(disk)
  <2>1. <<>> \in AbsolutePaths
    <3>1. <<>> \in [1..0 -> Names] /\ 0 \in 0..Depth
      BY ApiAssumption
    <3> QED  BY <3>1 DEF AbsolutePaths
  <2>2. Resolves(disk, <<>>, ROOT_INODE)
    <3> DEFINE w == [k \in 0..0 |-> ROOT_INODE]
    <3>1. w \in [0..0 -> Inodes] /\ w[0] = ROOT_INODE /\ Len(<<>>) = 0 /\ 1..0 = {}
      BY <1>3
    <3> HIDE DEF w
    <3>2. /\ w \in [0..Len(<<>>) -> Inodes] /\ w[0] = ROOT_INODE /\ w[Len(<<>>)] = ROOT_INODE
          /\ \A i \in 1..Len(<<>>) : <<>>[i] \notin LongNames
                                      /\ Entry(disk, w[i - 1], <<>>[i], w[i])
      BY <3>1, Zenon
    <3> QED  BY <3>2, Zenon DEF Resolves
  <2> QED  BY <1>2, <2>1, <2>2 DEF Reachable
<1>14. FdsGood(fds, disk)
  BY ClosedFdIsFd DEF Init, FdsGood, OpenIsFile
<1>15. call \in Calls /\ ret.err \in Errors
  BY DEF Init, Calls, Done, Success, Errors
<1> QED  BY <1>11, <1>12, <1>13, <1>14, <1>15 DEF IInv, Intact

(* The invariant holds in every state. *)
THEOREM Invariant == Spec => []IInv
<1>1. Init => IInv
  BY EmptyDisk
<1>2. IInv /\ [Next]_vars => IInv'
  <2>1. CASE Next
    BY <2>1, NextKeeps DEF CallKeeps, IInv
  <2>2. CASE UNCHANGED vars
    BY <2>2 DEF vars, IInv
  <2> QED  BY <2>1, <2>2
<1> QED  BY <1>1, <1>2, PTL DEF Spec

LEMMA InvIsTyped == IInv => TypeOK
<1> SUFFICES ASSUME IInv PROVE TypeOK
  OBVIOUS
<1>1. disk \in Disks /\ FreeIsEmpty(disk) /\ fds \in [Fds -> FdRecords]
  BY DEF IInv, Intact, Stock, Sound, FdsGood
<1>2. /\ disk.fat \in Fats /\ disk.block_bitmap \in Bitmaps /\ disk.data_blocks \in Stores
      /\ disk.inodes \in Pools /\ disk.inode_bitmap \in InodeBitmaps
  BY <1>1, DiskTypes
<1>3. \A b \in Blocks, o \in 0..(BlockSize - 1) :
        disk.data_blocks[b][o] \in Cells \cup Dirents \cup {Hole}
  BY <1>2 DEF Stores, Offsets, Contents
<1>4. \A i \in Inodes : i \notin disk.inode_bitmap <=> disk.inodes[i] = FreeInode
  BY <1>1 DEF FreeIsEmpty, FreeInode
<1>5. disk.fat \in [Blocks -> Blocks \cup {RAMFS_END}] /\ disk.block_bitmap \subseteq Blocks
  BY <1>2 DEF Fats, Bitmaps
<1>6. disk.inodes \in [Inodes -> [type : {"FREE", "FILE", "DIR"}, size : Nat,
                                  first_block : Blocks \cup {RAMFS_END}]]
  BY <1>2 DEF Pools, InodeRecords, Types
<1>7. disk.inode_bitmap \subseteq Inodes
  BY <1>2 DEF InodeBitmaps
<1> QED  BY <1>1, <1>3, <1>4, <1>5, <1>6, <1>7 DEF TypeOK, FdRecords, IInv

(* Block numbers, sizes, bitmaps and descriptors stay in range, and a free
   inode is empty, whatever the calls and the sizes of the pools. *)
THEOREM TypeCorrect == Spec => []TypeOK
<1> QED  BY Invariant, InvIsTyped, PTL

LEMMA InvIsOwned == IInv => BlocksOwnedOnce
<1> SUFFICES ASSUME IInv PROVE BlocksOwnedOnce
  OBVIOUS
<1>1. disk \in Disks /\ Ends(disk) /\ Apart(disk) /\ Owned(disk)
  BY DEF IInv, Intact, Stock, Sound
<1>2. NBlocks \in Nat
  BY RamFSAssumption
<1>3. ASSUME NEW i \in Inodes
      PROVE  Cardinality(ChainBlocks(disk, i)) = ChainLength(disk, i)
  <2> DEFINE c == Chain(disk, i)
             S == {k \in 0..(NBlocks - 1) : c[k] # RAMFS_END}
             B == ChainBlocks(disk, i)
             f == [k \in S |-> c[k]]
  <2>1. B = {c[k] : k \in S}
    BY DEF ChainBlocks
  <2>2. f \in [S -> B] /\ \A b \in B : \E k \in S : f[k] = b
    BY <2>1
  <2>3. \A k, l \in S : f[k] = f[l] => k = l
    BY <1>1, <1>2 DEF Apart
  <2>4. IsFiniteSet(S)
    <3>1. IsFiniteSet(0..(NBlocks - 1)) /\ S \in SUBSET (0..(NBlocks - 1))
      BY <1>2, FS_Interval
    <3> QED  BY <3>1, FS_Subset
  <2>5. ChainLength(disk, i) = Cardinality(S)
    BY DEF ChainLength
  <2> HIDE DEF f, S, B, c
  <2>6. f \in Bijection(S, B)
    BY <2>2, <2>3 DEF Bijection, Injection, Surjection, IsInjective
  <2>7. Cardinality(B) = Cardinality(S)
    BY <2>4, <2>6, FS_Bijection DEF ExistsBijection
  <2> QED  BY <2>5, <2>7 DEF B
<1>4. \A i, j \in Inodes : i # j => ChainBlocks(disk, i) \cap ChainBlocks(disk, j) = {}
  BY <1>1, <1>2 DEF Apart, ChainBlocks
<1>5. ASSUME NEW b
      PROVE  b \in disk.block_bitmap <=> b \in UNION {ChainBlocks(disk, i) : i \in Inodes}
  <2>1. disk.block_bitmap \subseteq Blocks
    BY <1>1, DiskTypes DEF Bitmaps
  <2>2. ASSUME NEW i \in Inodes, NEW k \in 0..(NBlocks - 1), Chain(disk, i)[k] = b, b # RAMFS_END
        PROVE  b \in disk.block_bitmap
    <3>1. Chain(disk, i) \in [0..NBlocks -> Links] /\ k \in 0..NBlocks
      BY <1>1, <1>2, ChainIsChain DEF IsChain
    <3>2. b \in Blocks
      BY <2>2, <3>1, EndNotBlock
    <3> QED  BY <1>1, <2>2, <3>1, <3>2 DEF Owned
  <2>3. ASSUME b \in disk.block_bitmap
        PROVE  \E i \in Inodes : b \in ChainBlocks(disk, i)
    <3>1. PICK i \in Inodes, k \in 0..NBlocks : Chain(disk, i)[k] = b
      BY <1>1, <2>1, <2>3 DEF Owned
    <3>2. b # RAMFS_END
      BY <2>1, <2>3, EndNotBlock
    <3>3. k \in 0..(NBlocks - 1)
      BY <1>1, <1>2, <3>1, <3>2 DEF Ends
    <3> QED  BY <3>1, <3>2, <3>3 DEF ChainBlocks
  <2> QED  BY <2>2, <2>3 DEF ChainBlocks
<1> QED  BY <1>1, <1>3, <1>4, <1>5 DEF BlocksOwnedOnce, Ends

(* No sequence of calls leaks a block, frees one that is in use, links two
   chains together or ties one into a loop. *)
THEOREM BlocksAreOwned == Spec => []BlocksOwnedOnce
<1> QED  BY Invariant, InvIsOwned, PTL

(* Storage past the end of a file never holds old data. *)
THEOREM BeyondSizeStaysZero == Spec => []BeyondSizeIsZero
<1>1. IInv => BeyondSizeIsZero
  BY DEF IInv, Intact, Stock, ZeroBeyond, BeyondSizeIsZero, Size
<1> QED  BY <1>1, Invariant, PTL


LEMMA InvIsTree == IInv => TreeIntact /\ DirsBounded
<1> SUFFICES ASSUME IInv PROVE TreeIntact /\ DirsBounded
  OBVIOUS
<1>1. /\ Stock(disk) /\ ROOT_INODE \in Dirs(disk) /\ Linked(disk) /\ Unique(disk) /\ Named(disk)
      /\ Bounded(disk) /\ Readable(disk) /\ Sound(disk) /\ Reachable(disk)
  BY DEF IInv, Intact, Tree, Stock
<1>2. DirInodes = Dirs(disk) /\ disk.inode_bitmap \subseteq Inodes /\ Dirs(disk) \subseteq Inodes
  BY <1>1, BitmapTypes DEF DirInodes, Dirs
<1>3. ASSUME NEW dir \in Dirs(disk)
      PROVE  /\ Slots(disk, dir) = 0..(Size(disk, dir) - 1) /\ ~Unreadable(disk, dir)
             /\ Slots(disk, dir) \subseteq 0..(NBlocks * BlockSize - 1)
  <2>1. Slots(disk, dir) = 0..(Size(disk, dir) - 1) /\ ~Unreadable(disk, dir)
    BY <1>1, SlotsAre
  <2>2. /\ Size(disk, dir) \in Nat /\ Size(disk, dir) <= Backed(disk, dir)
        /\ ChainLength(disk, dir) \in 0..NBlocks
    BY <1>1, <1>2, BitmapTypes, Lengths DEF Readable, Sound, Ends
  <2>3. Backed(disk, dir) = ChainLength(disk, dir) * BlockSize
    BY DEF Backed
  <2>4. NBlocks \in Nat /\ BlockSize \in Nat
    BY RamFSAssumption
  <2>5. \A k \in 0..NBlocks : k * BlockSize \in Nat /\ k * BlockSize <= NBlocks * BlockSize
    BY <2>4
  <2>6. Backed(disk, dir) \in Nat /\ Backed(disk, dir) <= NBlocks * BlockSize
    BY <2>2, <2>3, <2>5
  <2>7. NBlocks * BlockSize \in Nat
    BY <2>4
  <2> QED  BY <2>1, <2>2, <2>6, <2>7
<1>4. ASSUME NEW s \in LiveSlots
      PROVE  /\ s[1] \in Dirs(disk) /\ s[2] \in Nat /\ Live(disk, s[1], s[2]) /\ s = <<s[1], s[2]>>
  <2>1. /\ s \in DirInodes \X (0..(NBlocks * BlockSize - 1))
        /\ s[2] \in Slots(disk, s[1]) /\ SlotCell(s) # Hole
    BY DEF LiveSlots
  <2>2. s[1] \in Dirs(disk) /\ s[2] \in Nat /\ s = <<s[1], s[2]>>
    BY <1>2, <2>1
  <2> QED  BY <1>3, <2>1, <2>2 DEF Live, SlotCell
<1>5. ASSUME NEW dir \in Dirs(disk), NEW i \in Nat, Live(disk, dir, i)
      PROVE  <<dir, i>> \in LiveSlots /\ SlotCell(<<dir, i>>) = CellAt(disk, dir, i)
  <2>1. i \in Slots(disk, dir) /\ i \in 0..(NBlocks * BlockSize - 1)
    BY <1>3, <1>5 DEF Live
  <2>2. SlotCell(<<dir, i>>) = CellAt(disk, dir, i)
    BY DEF SlotCell
  <2> QED  BY <1>2, <1>5, <2>1, <2>2 DEF LiveSlots, Live
<1>6. \A s \in LiveSlots : IsDirent(SlotCell(s)) /\ SlotCell(s).inode \in disk.inode_bitmap \ {ROOT_INODE}
  BY <1>1, <1>4 DEF Linked, IsDirent, SlotCell
<1>7. {SlotCell(s).inode : s \in LiveSlots} = disk.inode_bitmap \ {ROOT_INODE}
  <2>1. ASSUME NEW ino \in disk.inode_bitmap \ {ROOT_INODE}
        PROVE  \E s \in LiveSlots : SlotCell(s).inode = ino
    <3>1. PICK dir \in Dirs(disk), i \in Nat : Live(disk, dir, i) /\ CellAt(disk, dir, i).inode = ino
      BY <1>1 DEF Named
    <3> QED  BY <1>5, <3>1
  <2> QED  BY <1>6, <2>1
<1>8. ASSUME NEW s \in LiveSlots, NEW t \in LiveSlots, s # t
      PROVE  /\ SlotCell(s).inode # SlotCell(t).inode
             /\ s[1] = t[1] => SlotCell(s).name # SlotCell(t).name
  <2>1. ~(s[1] = t[1] /\ s[2] = t[2])
    BY <1>4, <1>8
  <2> QED  BY <1>1, <1>4, <2>1 DEF Unique, SlotCell
<1>9. disk.inode_bitmap \subseteq {path_resolve(disk, p).n : p \in AbsolutePaths}
  <2>1. ASSUME NEW ino \in disk.inode_bitmap
        PROVE  \E p \in AbsolutePaths : path_resolve(disk, p).n = ino
    <3>1. PICK p \in AbsolutePaths : Resolves(disk, p, ino)
      BY <1>1 DEF Reachable
    <3>2. path_resolve(disk, p) = Success(ino, <<>>)
      BY <1>1, <1>2, <3>1, ResolveIs
    <3> QED  BY <3>1, <3>2 DEF Success
  <2> QED  BY <2>1
<1>10. TreeIntact
  BY <1>1, <1>2, <1>6, <1>7, <1>8, <1>9 DEF TreeIntact
<1>11. DirsBounded
  BY <1>1, <1>2, <1>3 DEF DirsBounded, Bounded, Size
<1> QED  BY <1>10, <1>11

(* The namespace is a tree after every call, a failed one included. *)
THEOREM NamespaceIsTree == Spec => []TreeIntact
<1> QED  BY Invariant, InvIsTree, PTL

(* Directories never outgrow the inodes there are to name, and every slot of
   theirs can be read. *)
THEOREM DirectoriesFit == Spec => []DirsBounded
<1> QED  BY Invariant, InvIsTree, PTL

(* An open descriptor never outlives its file. *)
THEOREM DescriptorsLive == Spec => []FdsLive
<1>1. IInv => FdsLive
  BY DEF IInv, FdsGood, OpenIsFile, FdsLive
<1> QED  BY <1>1, Invariant, PTL

(* A call that fails loses no inode and no byte of a file. *)
THEOREM FailureIsHarmless == Spec => FailureKeepsData
<1> DEFINE Keeps ==
      ret'.err # "OK" =>
       /\ disk.inode_bitmap \subseteq disk'.inode_bitmap
       /\ disk'.inode_bitmap # disk.inode_bitmap => ret'.err = "NO_FDS"
       /\ \A ino \in disk.inode_bitmap :
            /\ disk'.inodes[ino].type = disk.inodes[ino].type
            /\ disk.inodes[ino].type = "FILE" =>
                 /\ disk'.inodes[ino].size = disk.inodes[ino].size
                 /\ \A i \in 0..(Smaller(disk.inodes[ino].size, Backed(disk, ino)) - 1) :
                      CellAt(disk', ino, i) = CellAt(disk, ino, i)
<1>1. IInv /\ Next => Keeps
  <2> SUFFICES ASSUME IInv, Next, ret'.err # "OK" PROVE Keeps
    OBVIOUS
  <2>1. /\ FilesKept(disk, disk')
        /\ disk'.inode_bitmap # disk.inode_bitmap => ret'.err = "NO_FDS"
    BY NextKeeps DEF CallKeeps, Lossless
  <2>2. \A ino \in disk.inode_bitmap : Size(disk, ino) \in Nat /\ Backed(disk, ino) \in Nat
    BY BitmapTypes DEF IInv, Intact, Stock
  <2>3. ASSUME NEW ino \in disk.inode_bitmap, disk.inodes[ino].type = "FILE",
               NEW i \in 0..(Smaller(disk.inodes[ino].size, Backed(disk, ino)) - 1)
        PROVE  CellAt(disk', ino, i) = CellAt(disk, ino, i)
    <3>1. i \in 0..(Backed(disk, ino) - 1)
      BY <2>2 DEF Smaller, Size
    <3> QED  BY <2>1, <2>3, <3>1 DEF FilesKept, SameInode
  <2> QED  BY <2>1, <2>3 DEF FilesKept, SameInode, Size
<1>2. IInv /\ [Next]_vars => [Keeps]_vars
  BY <1>1
<1> QED  BY <1>2, Invariant, PTL DEF Spec, FailureKeepsData
=============================================================================
