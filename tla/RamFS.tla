------------------------------- MODULE RamFS -------------------------------
(***************************************************************************)
(* kernel/fs/ramfs.c: a block store with a FAT, an inode pool, directories *)
(* kept as arrays of dirents in block chains, and an open-file table.      *)
(*                                                                         *)
(* A block holds BlockSize cells.  A cell is a byte of a file or a dirent  *)
(* of a directory, so sizes and offsets count cells: 512 bytes and 16      *)
(* dirents per block in the code.  A handler is one action, since every    *)
(* caller runs with interrupts masked (module Console); its effect on the  *)
(* store is a function on the record `disk`, so that a handler calls its   *)
(* helpers in the order the code does.                                     *)
(***************************************************************************)
EXTENDS RamFSApi

CONSTANTS
  NBlocks,    \* RAMFS_BLOCKS
  BlockSize,  \* cells per block
  Hole        \* a dirent whose inode is RAMFS_SLOT_FREE

Dirents == [name : Names, inode : Inodes]

ASSUME RamFSAssumption ==
  /\ NBlocks \in Nat
  /\ BlockSize \in Nat \ {0}
  /\ Hole \notin Cells \cup Dirents

VARIABLES
  disk,  \* [fat, block_bitmap, data_blocks, inodes, inode_bitmap]
  fds,   \* the open-file table
  call,  \* the last call
  ret    \* what it returned

vars == <<disk, fds, call, ret>>

Blocks == 0..(NBlocks - 1)
RAMFS_END == NBlocks     \* any value that is no block index
ROOT_INODE == 0

FreeInode == [type |-> "FREE", size |-> 0, first_block |-> RAMFS_END]
ClosedFd == [in_use |-> FALSE, inode |-> 0, offset |-> 0, flags |-> {}]
ZeroBlock == [o \in 0..(BlockSize - 1) |-> Zero]
Dirent(name, inode) == [name |-> name, inode |-> inode]
IsDirent(cell) == cell \in Dirents

(***************************************************************************)
(* Block chains                                                            *)
(***************************************************************************)
Follow(d, b) == IF b = RAMFS_END THEN RAMFS_END ELSE d.fat[b]

(* The i-th block of an inode's chain, RAMFS_END past its tail. *)
Chain(d, ino) ==
  LET c[i \in 0..NBlocks] ==
        IF i = 0 THEN d.inodes[ino].first_block ELSE Follow(d, c[i - 1])
  IN  c

ChainLength(d, ino) == Cardinality({i \in 0..(NBlocks - 1) : Chain(d, ino)[i] # RAMFS_END})
ChainBlocks(d, ino) == {Chain(d, ino)[i] : i \in 0..(NBlocks - 1)} \ {RAMFS_END}
Backed(d, ino) == ChainLength(d, ino) * BlockSize

(* Blocks a transfer of n cells at an offset steps on, the walk to the
   first one included. *)
BlocksTo(offset, n) ==
  IF n = 0 THEN offset \div BlockSize ELSE (offset + n - 1) \div BlockSize + 1

FreeBlocks_through_end(d) == (0..NBlocks) \ d.block_bitmap

FreeBlocks(d) == Blocks \ d.block_bitmap

block_alloc_dirty(d) ==
  LET b == MinOf(FreeBlocks(d))
  IN  [d EXCEPT !.block_bitmap = @ \cup {b}, !.fat[b] = RAMFS_END]

block_alloc(d) ==
  LET b == MinOf(FreeBlocks(d))
  IN  [d EXCEPT !.block_bitmap = @ \cup {b}, !.fat[b] = RAMFS_END,
                !.data_blocks[b] = ZeroBlock]

(* Allocate a block, if one is free, and link it where the walk ended. *)
Appended(d, ino) ==
  LET b == MinOf(FreeBlocks(d))
      len == ChainLength(d, ino)
      t == block_alloc(d)
  IN  IF FreeBlocks(d) = {} THEN d
      ELSE IF len = 0 THEN [t EXCEPT !.inodes[ino].first_block = b]
      ELSE [t EXCEPT !.fat[Chain(d, ino)[len - 1]] = b]

(* The chain longer by k blocks, or by as many as are free. *)
Extended(d, ino, k) ==
  LET e[i \in 0..k] == IF i = 0 THEN d ELSE Appended(e[i - 1], ino)
  IN  e[k]

chain_free_first(d, ino) ==
  LET b == d.inodes[ino].first_block
  IN  IF b = RAMFS_END THEN d
      ELSE [d EXCEPT !.block_bitmap = @ \ {b}, !.fat[b] = RAMFS_END]

chain_free(d, ino) ==
  LET freed == ChainBlocks(d, ino)
  IN  [d EXCEPT !.block_bitmap = @ \ freed,
                !.fat = [b \in Blocks |-> IF b \in freed THEN RAMFS_END ELSE @[b]]]

CellAt(d, ino, i) == d.data_blocks[Chain(d, ino)[i \div BlockSize]][i % BlockSize]

chain_read_backed(d, ino, offset, count) ==
  LET n == Smaller(count, Backed(d, ino) - offset)
  IN  IF offset >= d.inodes[ino].size THEN Done
      ELSE Success(n, [i \in 1..n |-> CellAt(d, ino, offset + i - 1)])

(* Up to count cells from offset, size bounding what is readable. *)
chain_read(d, ino, offset, count) ==
  LET size == d.inodes[ino].size
      n == Smaller(count, size - offset)
  IN  IF offset >= size THEN Done
      ELSE IF BlocksTo(offset, n) > ChainLength(d, ino) THEN Failure("IO")
      ELSE Success(n, [i \in 1..n |-> CellAt(d, ino, offset + i - 1)])

(* Store as many cells at offset as the chain has room for. *)
Stored(d, ino, offset, cells) ==
  LET total == Smaller(Len(cells), Larger(0, Backed(d, ino) - offset))
      Position(b) == CHOOSE k \in 0..(NBlocks - 1) : Chain(d, ino)[k] = b
      Index(b, o) == Position(b) * BlockSize + o - offset + 1
      written == ChainBlocks(d, ino)
  IN  [disk |->
         [d EXCEPT !.data_blocks =
                     [b \in Blocks |->
                        IF b \notin written THEN @[b]
                        ELSE [o \in 0..(BlockSize - 1) |->
                                IF Index(b, o) \in 1..total THEN cells[Index(b, o)]
                                ELSE @[b][o]]],
                   !.inodes[ino].size = Larger(@, offset + total)],
       result |-> Success(total, <<>>)]

(* Extend the chain and store cells at offset, unless the space runs out on
   the way there.  Blocks taken before that stay in the chain.  The result is
   the new store and what is returned. *)
chain_write(d, ino, offset, cells) ==
  LET want == BlocksTo(offset, Len(cells)) - ChainLength(d, ino)
      Put(e) == IF ChainLength(e, ino) < offset \div BlockSize
                THEN [disk |-> e, result |-> Failure("NO_SPACE")]
                ELSE Stored(e, ino, offset, cells)
  IN  Put(Extended(d, ino, Larger(0, want)))

chain_truncate_sized(d, ino) ==
  [chain_free(d, ino) EXCEPT !.inodes[ino].first_block = RAMFS_END]

chain_truncate(d, ino) ==
  [chain_free(d, ino) EXCEPT !.inodes[ino].first_block = RAMFS_END, !.inodes[ino].size = 0]

(***************************************************************************)
(* Inodes                                                                  *)
(***************************************************************************)
NoInodes(d) == d.inode_bitmap = Inodes
NextInode(d) == MinOf(Inodes \ d.inode_bitmap)

inode_alloc(d, type) ==
  [d EXCEPT !.inode_bitmap = @ \cup {NextInode(d)},
            !.inodes[NextInode(d)] = [FreeInode EXCEPT !.type = type]]

inode_free_leaky(d, ino) ==
  [d EXCEPT !.inodes[ino] = FreeInode, !.inode_bitmap = @ \ {ino}]

inode_free(d, ino) ==
  [chain_free(d, ino) EXCEPT !.inodes[ino] = FreeInode, !.inode_bitmap = @ \ {ino}]

IsDir(d, ino) == ino \in d.inode_bitmap /\ d.inodes[ino].type = "DIR"

(***************************************************************************)
(* Directories: arrays of dirents, one per cell.                           *)
(***************************************************************************)
(* The slots a scan can read; one it cannot read ends the scan with IO. *)
Slots(d, dir) == 0..(Smaller(d.inodes[dir].size, Backed(d, dir)) - 1)
Unreadable(d, dir) == d.inodes[dir].size > Backed(d, dir)
SlotsNamed(d, dir, name) ==
  {i \in Slots(d, dir) : /\ IsDirent(CellAt(d, dir, i))
                         /\ CellAt(d, dir, i).name = name}
HoleSlots(d, dir) == {i \in Slots(d, dir) : CellAt(d, dir, i) = Hole}

dir_find(d, dir, name) ==
  IF ~IsDir(d, dir) THEN Failure("NOT_DIR")
  ELSE IF SlotsNamed(d, dir, name) # {}
  THEN Success(CellAt(d, dir, MinOf(SlotsNamed(d, dir, name))).inode, <<>>)
  ELSE IF Unreadable(d, dir) THEN Failure("IO") ELSE Failure("NOT_FOUND")

(* A scan for a hole, then the write of the dirent: at the first hole, or at
   the end of the array.  The outcome is the store and an error code. *)
Outcome(d, err) == [disk |-> d, err |-> err]
OneWritten(w, err) == Outcome(w.disk, IF w.result.n = 1 THEN "OK" ELSE err)

dir_add_appending(d, dir, name, child) ==
  IF name \in LongNames THEN Outcome(d, "NAME_LONG")
  ELSE IF ~IsDir(d, dir) THEN Outcome(d, "NOT_DIR")
  ELSE IF dir_find(d, dir, name).err = "OK" THEN Outcome(d, "EXISTS")
  ELSE OneWritten(chain_write(d, dir, d.inodes[dir].size, <<Dirent(name, child)>>), "NO_SPACE")

dir_add(d, dir, name, child) ==
  LET holes == HoleSlots(d, dir)
      slot == IF holes # {} THEN MinOf(holes) ELSE d.inodes[dir].size
  IN  IF name \in LongNames THEN Outcome(d, "NAME_LONG")
      ELSE IF ~IsDir(d, dir) THEN Outcome(d, "NOT_DIR")
      ELSE IF dir_find(d, dir, name).err = "OK" THEN Outcome(d, "EXISTS")
      ELSE IF holes = {} /\ Unreadable(d, dir) THEN Outcome(d, "IO")
      ELSE OneWritten(chain_write(d, dir, slot, <<Dirent(name, child)>>), "NO_SPACE")

dir_remove(d, dir, name) ==
  LET found == SlotsNamed(d, dir, name)
  IN  IF ~IsDir(d, dir) THEN Outcome(d, "NOT_DIR")
      ELSE IF found # {} THEN OneWritten(chain_write(d, dir, MinOf(found), <<Hole>>), "IO")
      ELSE Outcome(d, IF Unreadable(d, dir) THEN "IO" ELSE "NOT_FOUND")

(* "OK", or why the directory cannot go. *)
dir_is_empty(d, dir) ==
  IF ~IsDir(d, dir) THEN "NOT_DIR"
  ELSE IF \E i \in Slots(d, dir) : CellAt(d, dir, i) # Hole THEN "NOT_EMPTY"
  ELSE IF Unreadable(d, dir) THEN "IO" ELSE "OK"

(***************************************************************************)
(* Paths                                                                   *)
(***************************************************************************)
(* One more component, after a walk that failed or reached inode at.n. *)
Descend(d, at, name) ==
  IF at.err # "OK" THEN at
  ELSE IF name \in LongNames THEN Failure("NAME_LONG")
  ELSE dir_find(d, at.n, name)

path_resolve(d, path) ==
  LET walk[i \in 0..Len(path)] ==
        IF i = 0 THEN Success(ROOT_INODE, <<>>) ELSE Descend(d, walk[i - 1], path[i])
  IN  IF path = BadPath THEN Failure("BAD_PATH") ELSE walk[Len(path)]

path_resolve_parent(d, path) ==
  IF SplitError(path) # "OK" THEN Failure(SplitError(path))
  ELSE path_resolve(d, Parent(path))

(* mkdir and create: the store and the error code.  The inode is taken first
   and given back if the entry cannot be added. *)
AddEntry(d, path, type) ==
  LET OrUndone(add) == IF add.err = "OK" THEN add
                       ELSE Outcome(inode_free(add.disk, NextInode(d)), add.err)
      AddIn(parent) ==
        IF parent.err # "OK" THEN Outcome(d, parent.err)
        ELSE IF dir_find(d, parent.n, Leaf(path)).err = "OK" THEN Outcome(d, "EXISTS")
        ELSE IF NoInodes(d) THEN Outcome(d, "NO_INODES")
        ELSE OrUndone(dir_add(inode_alloc(d, type), parent.n, Leaf(path), NextInode(d)))
  IN  AddIn(path_resolve_parent(d, path))

(***************************************************************************)
(* The calls of ramfs.h.  check_init never fails after Init (ramfs_init).  *)
(***************************************************************************)
Init ==
  /\ disk = [fat |-> [b \in Blocks |-> RAMFS_END],
             block_bitmap |-> {},
             data_blocks |-> [b \in Blocks |-> ZeroBlock],
             inodes |-> [i \in Inodes |-> IF i = ROOT_INODE
                                          THEN [FreeInode EXCEPT !.type = "DIR"]
                                          ELSE FreeInode],
             inode_bitmap |-> {ROOT_INODE}]
  /\ fds = [fd \in Fds |-> ClosedFd]
  /\ call = "init" /\ ret = Done

(* A namespace call: the new store and the error code returned. *)
Return(outcome) ==
  /\ disk' = outcome.disk
  /\ ret' = Failure(outcome.err)
  /\ UNCHANGED fds

ramfs_mkdir(path) == Return(AddEntry(disk, path, "DIR"))
ramfs_create(path) == Return(AddEntry(disk, path, "FILE"))

RemoveEntry(parent, target, path) ==
  LET r == dir_remove(disk, parent, Leaf(path))
  IN  IF r.err # "OK" THEN r ELSE Outcome(inode_free(r.disk, target), "OK")

ramfs_rmdir_unchecked(path) ==
  LET parent == path_resolve_parent(disk, path)
      target == dir_find(disk, parent.n, Leaf(path))
  IN  Return(IF parent.err # "OK" THEN Outcome(disk, parent.err)
             ELSE IF target.err # "OK" THEN Outcome(disk, target.err)
             ELSE IF disk.inodes[target.n].type # "DIR" THEN Outcome(disk, "NOT_DIR")
             ELSE RemoveEntry(parent.n, target.n, path))

ramfs_rmdir(path) ==
  LET parent == path_resolve_parent(disk, path)
      target == dir_find(disk, parent.n, Leaf(path))
  IN  Return(IF parent.err # "OK" THEN Outcome(disk, parent.err)
             ELSE IF target.err # "OK" THEN Outcome(disk, target.err)
             ELSE IF disk.inodes[target.n].type # "DIR" THEN Outcome(disk, "NOT_DIR")
             ELSE IF dir_is_empty(disk, target.n) # "OK"
             THEN Outcome(disk, dir_is_empty(disk, target.n))
             ELSE RemoveEntry(parent.n, target.n, path))

ramfs_unlink_unchecked(path) ==
  LET parent == path_resolve_parent(disk, path)
      target == dir_find(disk, parent.n, Leaf(path))
  IN  Return(IF parent.err # "OK" THEN Outcome(disk, parent.err)
             ELSE IF target.err # "OK" THEN Outcome(disk, target.err)
             ELSE IF disk.inodes[target.n].type = "DIR" THEN Outcome(disk, "IS_DIR")
             ELSE RemoveEntry(parent.n, target.n, path))

ramfs_unlink(path) ==
  LET parent == path_resolve_parent(disk, path)
      target == dir_find(disk, parent.n, Leaf(path))
  IN  Return(IF parent.err # "OK" THEN Outcome(disk, parent.err)
             ELSE IF target.err # "OK" THEN Outcome(disk, target.err)
             ELSE IF disk.inodes[target.n].type = "DIR" THEN Outcome(disk, "IS_DIR")
             ELSE IF \E fd \in Fds : fds[fd].in_use /\ fds[fd].inode = target.n
             THEN Outcome(disk, "IO")
             ELSE RemoveEntry(parent.n, target.n, path))

EntryOf(name, ino) == StatEntry(name, disk.inodes[ino].type, disk.inodes[ino].size)

ramfs_stat(path) ==
  LET r == path_resolve(disk, path)
  IN  /\ ret' = IF r.err # "OK" THEN r
                ELSE Success(0, <<EntryOf(IF path = <<>> THEN "/" ELSE Leaf(path), r.n)>>)
      /\ UNCHANGED <<disk, fds>>

(* The live entries in slot order, at most max of them. *)
ramfs_list(path, max) ==
  LET r == path_resolve(disk, path)
      live == {i \in Slots(disk, r.n) :
                 /\ IsDirent(CellAt(disk, r.n, i))
                 /\ CellAt(disk, r.n, i).inode \in disk.inode_bitmap}
      n == Smaller(max, Cardinality(live))
      Nth(k) == CHOOSE i \in live : Cardinality({j \in live : j < i}) = k - 1
      Entry(cell) == EntryOf(cell.name, cell.inode)
  IN  /\ ret' = IF r.err # "OK" THEN r
                ELSE IF disk.inodes[r.n].type # "DIR" THEN Failure("NOT_DIR")
                ELSE IF Cardinality(live) < max /\ Unreadable(disk, r.n) THEN Failure("IO")
                ELSE Success(n, [k \in 1..n |-> Entry(CellAt(disk, r.n, Nth(k)))])
      /\ UNCHANGED <<disk, fds>>

(***************************************************************************)
(* Descriptors                                                             *)
(***************************************************************************)
FreeFds == {fd \in Fds : ~fds[fd].in_use}
fd_alloc == MinOf(FreeFds)
fd_check(fd) == fd \in Fds /\ fds[fd].in_use

(* The end of open, on a store d with target resolved. *)
OpenTarget_truncating(d, target, flags) ==
  LET e == IF "TRUNC" \in flags THEN chain_truncate(d, target) ELSE d
  IN  IF d.inodes[target].type = "DIR"
      THEN disk' = d /\ UNCHANGED fds /\ ret' = Failure("IS_DIR")
      ELSE IF FreeFds = {}
      THEN disk' = e /\ UNCHANGED fds /\ ret' = Failure("NO_FDS")
      ELSE /\ disk' = e
           /\ fds' = [fds EXCEPT ![fd_alloc] =
                [in_use |-> TRUE, inode |-> target, flags |-> flags,
                 offset |-> IF "APPEND" \in flags THEN e.inodes[target].size ELSE 0]]
           /\ ret' = Success(fd_alloc, <<>>)

OpenTarget(d, target, flags) ==
  LET e == IF "TRUNC" \in flags THEN chain_truncate(d, target) ELSE d
  IN  IF d.inodes[target].type = "DIR"
      THEN disk' = d /\ UNCHANGED fds /\ ret' = Failure("IS_DIR")
      ELSE IF FreeFds = {}
      THEN disk' = d /\ UNCHANGED fds /\ ret' = Failure("NO_FDS")
      ELSE /\ disk' = e
           /\ fds' = [fds EXCEPT ![fd_alloc] =
                [in_use |-> TRUE, inode |-> target, flags |-> flags,
                 offset |-> IF "APPEND" \in flags THEN e.inodes[target].size ELSE 0]]
           /\ ret' = Success(fd_alloc, <<>>)

(* CREATE makes a missing file, and the path is resolved again. *)
ramfs_open(path, flags) ==
  LET Target(d, r) == IF r.err # "OK" THEN Return(Outcome(d, r.err))
                      ELSE OpenTarget(d, r.n, flags)
      Retry(made) == IF made.err # "OK" THEN Return(made)
                     ELSE Target(made.disk, path_resolve(made.disk, path))
      First(r) == IF r.err = "NOT_FOUND" /\ "CREATE" \in flags
                  THEN Retry(AddEntry(disk, path, "FILE")) ELSE Target(disk, r)
  IN  First(path_resolve(disk, path))

BadFd == Return(Outcome(disk, "BAD_FD"))

ramfs_read(fd, count) ==
  \/ ~(fd_check(fd) /\ "READ" \in fds[fd].flags) /\ BadFd
  \/ /\ fd_check(fd) /\ "READ" \in fds[fd].flags
     /\ ret' = chain_read(disk, fds[fd].inode, fds[fd].offset, count)
     /\ fds' = [fds EXCEPT ![fd].offset = @ + ret'.n]
     /\ UNCHANGED disk

ramfs_write_in_place(fd, buf) ==
  \/ ~(fd_check(fd) /\ "WRITE" \in fds[fd].flags) /\ BadFd
  \/ /\ fd_check(fd) /\ "WRITE" \in fds[fd].flags
     /\ LET w == chain_write(disk, fds[fd].inode, fds[fd].offset, buf)
        IN /\ disk' = w.disk
           /\ ret' = w.result
           /\ fds' = [fds EXCEPT ![fd].offset = @ + w.result.n]

ramfs_write(fd, buf) ==
  \/ ~(fd_check(fd) /\ "WRITE" \in fds[fd].flags) /\ BadFd
  \/ /\ fd_check(fd) /\ "WRITE" \in fds[fd].flags
     /\ LET ino == fds[fd].inode
            offset == IF "APPEND" \in fds[fd].flags THEN disk.inodes[ino].size
                      ELSE fds[fd].offset
            w == chain_write(disk, ino, offset, buf)
        IN /\ disk' = w.disk
           /\ ret' = w.result
           /\ fds' = [fds EXCEPT ![fd].offset = offset + w.result.n]

ramfs_seek(fd, offset) ==
  \/ ~fd_check(fd) /\ BadFd
  \/ /\ fd_check(fd)
     /\ fds' = [fds EXCEPT ![fd].offset = offset]
     /\ ret' = Done
     /\ UNCHANGED disk

ramfs_close(fd) ==
  \/ ~fd_check(fd) /\ BadFd
  \/ /\ fd_check(fd)
     /\ fds' = [fds EXCEPT ![fd] = ClosedFd]
     /\ ret' = Done
     /\ UNCHANGED disk

Called(name) == call' = name

Next ==
  \/ \E path \in Paths :
       \/ Called("mkdir") /\ ramfs_mkdir(path)
       \/ Called("create") /\ ramfs_create(path)
       \/ Called("rmdir") /\ ramfs_rmdir(path)
       \/ Called("unlink") /\ ramfs_unlink(path)
       \/ Called("stat") /\ ramfs_stat(path)
       \/ \E max \in ListMaxes : Called("list") /\ ramfs_list(path, max)
       \/ \E flags \in FlagSets : Called("open") /\ ramfs_open(path, flags)
  \/ \E fd \in -1..NFds :
       \/ \E count \in ReadCounts : Called("read") /\ ramfs_read(fd, count)
       \/ \E buf \in Buffers : Called("write") /\ ramfs_write(fd, buf)
       \/ \E offset \in SeekOffsets : Called("seek") /\ ramfs_seek(fd, offset)
       \/ Called("close") /\ ramfs_close(fd)

Spec == Init /\ [][Next]_vars

(***************************************************************************)
(* Properties                                                              *)
(***************************************************************************)
(* The representation: block numbers, sizes, bitmaps and descriptors are in
   range, and a free inode is empty (the state inode_alloc relies on). *)
TypeOK ==
  /\ disk.fat \in [Blocks -> Blocks \cup {RAMFS_END}]
  /\ disk.block_bitmap \subseteq Blocks
  /\ \A b \in Blocks, o \in 0..(BlockSize - 1) :
       disk.data_blocks[b][o] \in Cells \cup Dirents \cup {Hole}
  /\ disk.inodes \in [Inodes -> [type : {"FREE", "FILE", "DIR"}, size : Nat,
                                 first_block : Blocks \cup {RAMFS_END}]]
  /\ disk.inode_bitmap \subseteq Inodes
  /\ \A i \in Inodes : i \notin disk.inode_bitmap <=> disk.inodes[i] = FreeInode
  /\ fds \in [Fds -> [in_use : BOOLEAN, inode : Inodes, offset : Nat,
                      flags : FlagSets \cup {{}}]]
  /\ call \in Calls /\ ret.err \in Errors

(* Every allocated block is in exactly one chain, once, and every chain is
   made of allocated blocks and ends: no operation leaks a block, frees one
   that is in use, or links two files together. *)
BlocksOwnedOnce ==
  /\ \A i \in Inodes : /\ Chain(disk, i)[NBlocks] = RAMFS_END
                       /\ Cardinality(ChainBlocks(disk, i)) = ChainLength(disk, i)
  /\ \A i, j \in Inodes : i # j => ChainBlocks(disk, i) \cap ChainBlocks(disk, j) = {}
  /\ disk.block_bitmap = UNION {ChainBlocks(disk, i) : i \in Inodes}

(* Allocated storage past the end of a file or a directory is zero, so that
   data of a deleted or truncated file never shows up when a later write
   moves the end forward. *)
BeyondSizeIsZero ==
  \A ino \in disk.inode_bitmap :
    \A i \in disk.inodes[ino].size..(Backed(disk, ino) - 1) : CellAt(disk, ino, i) = Zero

DirInodes == {i \in disk.inode_bitmap : disk.inodes[i].type = "DIR"}
SlotCell(s) == CellAt(disk, s[1], s[2])
LiveSlots == {s \in DirInodes \X (0..(NBlocks * BlockSize - 1)) :
                s[2] \in Slots(disk, s[1]) /\ SlotCell(s) # Hole}

(* The namespace is a tree: inode 0 is a directory, dirents point at
   allocated inodes only, every other allocated inode has exactly one name
   and some path reaches it, and no directory holds a name twice. *)
TreeIntact ==
  /\ ROOT_INODE \in DirInodes
  /\ \A s \in LiveSlots : IsDirent(SlotCell(s))
  /\ {SlotCell(s).inode : s \in LiveSlots} = disk.inode_bitmap \ {ROOT_INODE}
  /\ \A s, t \in LiveSlots : s # t => /\ SlotCell(s).inode # SlotCell(t).inode
                                      /\ s[1] = t[1] => SlotCell(s).name # SlotCell(t).name
  /\ disk.inode_bitmap \subseteq {path_resolve(disk, p).n : p \in AbsolutePaths}

(* Directories stay small and readable: because holes are reused first, a
   directory never has more slots than there are inodes to name, and each
   of its slots is backed by a block. *)
DirsBounded ==
  \A dir \in DirInodes : /\ disk.inodes[dir].size < NInodes
                         /\ ~Unreadable(disk, dir)

(* An open descriptor refers to an allocated file: unlink refuses an open
   file, and a descriptor is only handed out for a file that resolves. *)
FdsLive ==
  \A fd \in Fds : fds[fd].in_use => /\ fds[fd].inode \in disk.inode_bitmap
                                    /\ disk.inodes[fds[fd].inode].type = "FILE"

(* A call that fails loses nothing: every inode keeps its type, every file
   its size and its readable bytes.  It adds at most the empty file of an
   open that found no descriptor for it. *)
FailureKeepsData ==
  [][ret'.err # "OK" =>
       /\ disk.inode_bitmap \subseteq disk'.inode_bitmap
       /\ disk'.inode_bitmap # disk.inode_bitmap => ret'.err = "NO_FDS"
       /\ \A ino \in disk.inode_bitmap :
            /\ disk'.inodes[ino].type = disk.inodes[ino].type
            /\ disk.inodes[ino].type = "FILE" =>
                 /\ disk'.inodes[ino].size = disk.inodes[ino].size
                 /\ \A i \in 0..(Smaller(disk.inodes[ino].size, Backed(disk, ino)) - 1) :
                      CellAt(disk', ino, i) = CellAt(disk, ino, i)]_vars

(* ramfs.c:21-22: size is authoritative for reads and the chain is at least
   as long, so what lies below size can be read. *)
SizeIsReadable ==
  \A ino \in disk.inode_bitmap : disk.inodes[ino].size <= Backed(disk, ino)
=============================================================================
