--------------------------- MODULE MCRamFSValues ---------------------------
(* Values of the filesystem's constants that a .cfg cannot write down. *)
EXTENDS TLC

CONSTANTS n1, n2, n3, byte   \* model values: three names and a byte

NoBuffers == {<<x>> : x \in {}}
ThreeBytes == {<<byte, byte, byte>>}
OneOrThree == {<<byte>>, <<byte, byte, byte>>}
NoneOrOne == {<<>>, <<byte>>}

(* The flags of cat and of write in kernel/shell/shell.c, and descriptors
   that share a file. *)
ShellFlags == {{"READ"}, {"WRITE", "CREATE", "TRUNC"}}
SharedFlags == {{"READ", "WRITE", "CREATE"}, {"WRITE", "TRUNC", "APPEND"}}
CreateOnly == {{"READ", "CREATE"}, {"READ"}}

(* n1 and n2 play the same part. *)
Symmetry == Permutations({n1, n2})
=============================================================================
