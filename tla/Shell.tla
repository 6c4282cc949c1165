------------------------------- MODULE Shell -------------------------------
(***************************************************************************)
(* The filesystem commands of kernel/shell/shell.c over the store of       *)
(* ramfs.c, as the calls each command makes.  A command runs to its end in *)
(* the keyboard handler with interrupts off, so nothing comes between its  *)
(* calls.  Trimming and splitting have been done: a command has a path and *)
(* a text.  df only counts bits.                                           *)
(***************************************************************************)
EXTENDS RamFSRefinement

CONSTANTS
  Texts,     \* what the user writes into files
  CatBuf,    \* 127: the bytes cat asks for at a time
  LsMax      \* 32: the entries ls has room for

ASSUME ShellAssumption ==
  /\ {{"READ"}, {"WRITE", "CREATE", "TRUNC"}} \subseteq FlagSets
  /\ Texts \subseteq Buffers
  /\ CatBuf \in ReadCounts \ {0}
  /\ LsMax \in ListMaxes

VARIABLE
  command    \* the command that has a descriptor open

Prompt == [name |-> "prompt", path |-> <<>>, text |-> <<>>, fd |-> 0,
           over |-> FALSE, err |-> "OK", moved |-> <<>>, had |-> <<>>]
AtPrompt == command = Prompt

ShellInit == MappedInit /\ command = Prompt

(***************************************************************************)
(* The commands that make one call.                                        *)
(***************************************************************************)
OneCall(name) == AtPrompt /\ Called(name) /\ UNCHANGED command

cmd_mkdir(path) == OneCall("mkdir") /\ ramfs_mkdir(path)
cmd_rmdir(path) == OneCall("rmdir") /\ ramfs_rmdir(path)
cmd_touch(path) == OneCall("create") /\ ramfs_create(path)
cmd_rm(path) == OneCall("unlink") /\ ramfs_unlink(path)
cmd_stat(path) == OneCall("stat") /\ ramfs_stat(path)
cmd_ls(path) == OneCall("list") /\ ramfs_list(path, LsMax)

(***************************************************************************)
(* cat and write: open, then read or write, then close.  `moved` is what   *)
(* was printed or stored, `had` what the file held before.                 *)
(***************************************************************************)
Opens_early(name, path, text, flags) ==
  /\ AtPrompt
  /\ Called("open") /\ ramfs_open(path, flags)
  /\ command' = IF ret'.err # "OK" \/ (name = "write" /\ text = <<>>) THEN Prompt
                ELSE [Prompt EXCEPT !.name = name, !.path = path, !.text = text, !.fd = ret'.n]

Opens(name, path, text, flags) ==
  /\ AtPrompt
  /\ Called("open") /\ ramfs_open(path, flags)
  /\ command' = IF ret'.err # "OK" THEN Prompt
                ELSE [Prompt EXCEPT !.name = name, !.path = path, !.text = text, !.fd = ret'.n,
                        !.over = name = "write" /\ text = <<>>,
                        !.had = IF path \in DOMAIN tree THEN tree[path].data ELSE <<>>]

Closes ==
  /\ ~AtPrompt /\ command.over
  /\ Called("close") /\ ramfs_close(command.fd)
  /\ command' = Prompt

(* An error ends the output like the end of the file. *)
Reads ==
  /\ command.name = "cat" /\ ~command.over
  /\ Called("read") /\ ramfs_read(command.fd, CatBuf)
  /\ command' = [command EXCEPT !.moved = @ \o ret'.data, !.over = ret'.n <= 0]

cmd_cat(path) == Opens("cat", path, <<>>, {"READ"})

Writes_boastful ==
  /\ command.name = "write" /\ ~command.over
  /\ Called("write") /\ ramfs_write(command.fd, command.text)
  /\ command' = [command EXCEPT !.moved = command.text, !.err = ret'.err, !.over = TRUE]
Writes ==
  /\ command.name = "write" /\ ~command.over
  /\ Called("write") /\ ramfs_write(command.fd, command.text)
  /\ command' = [command EXCEPT !.moved = SubSeq(command.text, 1, ret'.n), !.err = ret'.err,
                                !.over = TRUE]

(* strlen: an empty text makes no call of ramfs_write. *)
cmd_write(path, text) == Opens("write", path, text, {"WRITE", "CREATE", "TRUNC"})

shell_execute_command ==
  \/ \E path \in Paths : \/ cmd_mkdir(path) \/ cmd_rmdir(path) \/ cmd_touch(path)
                         \/ cmd_rm(path) \/ cmd_stat(path) \/ cmd_ls(path) \/ cmd_cat(path)
                         \/ \E text \in Texts : cmd_write(path, text)
  \/ Reads \/ Writes \/ Closes

ShellSpec ==
  ShellInit /\ [][shell_execute_command /\ Remapped]_<<vars, tree, handles, command>>

(***************************************************************************)
(* Properties                                                              *)
(***************************************************************************)
(* A command gives back the descriptor it took, on every path through it: the
   sixteen of the table are free whenever the user types. *)
NothingLeftOpen == AtPrompt => \A fd \in Fds : ~fds[fd].in_use

(* cat prints the whole file, in order and once, however its buffer divides it,
   and write says how much of the text the file now holds.  Once the file is
   open the write is no error any more (a full store is told as fewer bytes),
   and a file that held something is never left empty by it: what TRUNC frees
   is room for the write. *)
OutputTrue ==
  command.over =>
    /\ command.moved = tree[command.path].data
    /\ command.err = "OK"
    /\ command.had # <<>> /\ command.text # <<>> => command.moved # <<>>
=============================================================================
