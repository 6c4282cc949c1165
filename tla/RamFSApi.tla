------------------------------ MODULE RamFSApi ------------------------------
(***************************************************************************)
(* What kernel/ramfs.h gives a caller of the RAM filesystem: error codes,  *)
(* open flags, file types, paths and results.  Shared by FileSystem (what  *)
(* the interface promises) and RamFS (how kernel/fs/ramfs.c keeps it).     *)
(*                                                                         *)
(* A path is the sequence of its components: repeated and trailing slashes *)
(* carry no information, and "/" is << >>.  BadPath stands for a null or   *)
(* relative path.  Parent prefixes fit RAMFS_MAX_PATH, as every path the   *)
(* shell can pass does (its line buffer has that many bytes).              *)
(***************************************************************************)
EXTENDS Integers, FiniteSets, Sequences

CONSTANTS
  Names,        \* path components
  LongNames,    \* those of RAMFS_MAX_NAME bytes or more
  Depth,        \* the longest path the callers pass, in components
  BadPath,      \* a path that does not start with '/'
  Bytes,        \* what writes put into files
  Zero,         \* the zero byte
  NInodes,      \* RAMFS_MAX_INODES
  NFds,         \* RAMFS_MAX_FDS
  FlagSets,     \* the flag combinations callers pass to open
  Buffers,      \* the byte sequences callers pass to write
  ReadCounts,   \* the counts callers pass to read
  SeekOffsets,  \* the offsets callers pass to seek
  ListMaxes     \* the array sizes callers pass to list

AbsolutePaths == UNION {[1..d -> Names] : d \in 0..Depth}

ASSUME ApiAssumption ==
  /\ LongNames \subseteq Names
  /\ BadPath \notin AbsolutePaths
  /\ Depth \in Nat
  /\ NInodes \in Nat \ {0}
  /\ NFds \in Nat
  /\ FlagSets \subseteq SUBSET {"READ", "WRITE", "CREATE", "TRUNC", "APPEND"}
  /\ Buffers \subseteq Seq(Bytes)
  /\ ReadCounts \subseteq Nat
  /\ SeekOffsets \subseteq Nat
  /\ ListMaxes \subseteq Nat

Fds == 0..(NFds - 1)
Inodes == 0..(NInodes - 1)
Cells == Bytes \cup {Zero}

Paths == AbsolutePaths \cup {BadPath}

Parent(path) == SubSeq(path, 1, Len(path) - 1)
Leaf(path) == path[Len(path)]

MinOf(S) == CHOOSE m \in S : \A x \in S : m <= x
Smaller(a, b) == IF a <= b THEN a ELSE b
Larger(a, b) == IF a >= b THEN a ELSE b

(* What an operation returns: an error code, a count (or a descriptor) and
   the data it copied out. *)
Errors == {"OK", "NOT_FOUND", "EXISTS", "NO_SPACE", "NO_INODES", "NO_FDS", "BAD_FD",
           "BAD_PATH", "NOT_DIR", "IS_DIR", "NOT_EMPTY", "NAME_LONG", "IO"}
Failure(err) == [err |-> err, n |-> 0, data |-> <<>>]
Success(n, data) == [err |-> "OK", n |-> n, data |-> data]
Done == Success(0, <<>>)

(* The calls, by name; "init" is what left the state no call has changed. *)
Calls == {"init", "mkdir", "create", "rmdir", "unlink", "stat", "list", "open", "read", "write",
          "seek", "close"}

(* ramfs_stat_t: one directory entry as stat and list report it. *)
StatEntry(name, type, size) == [name |-> name, type |-> type, size |-> size]

(* The errors path_resolve_parent reports before it looks at the tree. *)
SplitError(path) ==
  IF path = BadPath \/ path = <<>> THEN "BAD_PATH"
  ELSE IF Leaf(path) \in LongNames THEN "NAME_LONG" ELSE "OK"
=============================================================================
