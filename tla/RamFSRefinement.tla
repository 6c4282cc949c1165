-------------------------- MODULE RamFSRefinement --------------------------
(***************************************************************************)
(* RamFS implements FileSystem: a node per path that resolves, the content *)
(* of a file read off its chain, a handle on the path of its inode.  The   *)
(* variables tree and handles only hold the mapped state, so that TLC      *)
(* computes the mapping once per state.                                    *)
(***************************************************************************)
EXTENDS RamFS

VARIABLES tree, handles

Content(d, ino) ==
  LET backed == Backed(d, ino)
  IN  IF d.inodes[ino].type = "DIR" THEN <<>>
      ELSE [i \in 1..d.inodes[ino].size |-> IF i <= backed THEN CellAt(d, ino, i - 1) ELSE Zero]
Resolved(d) == {p \in AbsolutePaths : path_resolve(d, p).err = "OK"}
TreeOf(d) ==
  [p \in Resolved(d) |-> LET ino == path_resolve(d, p).n
                         IN  [type |-> d.inodes[ino].type, data |-> Content(d, ino)]]
HandlesOf(d, f) ==
  [fd \in Fds |->
     [open |-> f[fd].in_use, offset |-> f[fd].offset, flags |-> f[fd].flags,
      path |-> IF f[fd].in_use
               THEN CHOOSE p \in Resolved(d) : path_resolve(d, p).n = f[fd].inode
               ELSE <<>>]]

MappedInit == Init /\ tree = TreeOf(disk) /\ handles = HandlesOf(disk, fds)
Remapped ==
  /\ tree' = IF disk' = disk THEN tree ELSE TreeOf(disk')
  /\ handles' = IF <<disk, fds>>' = <<disk, fds>> THEN handles ELSE HandlesOf(disk', fds')
MappedNext == Next /\ Remapped
MappedSpec == MappedInit /\ [][MappedNext]_<<vars, tree, handles>>

FS == INSTANCE FileSystem WITH MaxFile <- NBlocks * BlockSize

(* Seen through ramfs.h, the store is a tree of files: each call of ramfs.c
   returns what FileSystem says it may and changes the tree accordingly. *)
Refinement == FS!Spec
=============================================================================
