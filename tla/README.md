# nanopulseOS in TLA+

A verification development of nanopulseOS, a single-CPU x86 hobby kernel: what
is modelled, what TLC checks on small instances, what TLAPS proves for every
instance, and what is left. Paths are relative to `src/`.

## 1. The system

| Part | State | Operations | Talks to |
|---|---|---|---|
| Kernel main (`kernel/kernel/kernel.c`) | none | init calls, `sti`, two delays, idle `hlt` loop | everything, once |
| Interrupt dispatch (`interrupts/src`) | IDT, `interrupt_handlers[]`, PIC | `irq_handler`: EOI, then the handler | keyboard, timer |
| PIT timer (`interrupts/src/timer.c`) | `tick` | `timer_callback`, `get_tick` | `fb_present` |
| Keyboard driver (`drivers/src/keyboard.c`) | `ctrl_pressed`, `shift_pressed`, `caps_active`, `raw_mode`, `raw_last_scancode`, `cancel_requested`, `key_buffer` | `keyboard_callback`, `keyboard_set_raw_mode`, `keyboard_poll_scancode`, `keyboard_clear_cancel` | shell, apps |
| Shell (`kernel/shell/shell.c`) | none (the line is the driver's) | `shell_execute_command` | RAM filesystem, apps, screen |
| RAM filesystem (`kernel/fs/ramfs.c`) | `fat`, `block_bitmap`, `data_blocks`, `inodes`, `inode_bitmap`, `fds` | the calls of `kernel/ramfs.h` | shell |
| Tetris (`kernel/tetris`) | board, piece, bag, hold, deadlines | `tetris_run`: rounds, keys, gravity, locking, drawing | keyboard, timer, screen, gamble (coins) |
| Gamble (`kernel/gamble`) | coins, inventory, its sequence counter | `gamble_run`: open a case, list the inventory; `gamble_add_coins` | keyboard, speaker, tetris |
| Portal (`kernel/portal`) | the song's positions and deadlines, the lyric box | `portal_run`: two voices, cues, typewriter | keyboard, timer, speaker, the tables of `still_alive.c` |
| Art (`kernel/art`) | a picture | `art_run`: graphics, wait, leave | keyboard, graphics |
| Text screen (`drivers/src/screen.c`) | video memory, cursor | `kprint`, `print_char`, backspace, `clear_screen`, scrolling | shell, line editor, kernel main |
| Speaker (`drivers/src/speaker.c`) | whether it sounds | `speaker_play_freq`, `speaker_stop` | portal, gamble |
| Framebuffer, graphics (`drivers/src/fb.c`, `vga.c`) | `fb_suspended`, pixels | `fb_present`, `vga_enter_graphics`, `vga_exit_graphics` | timer, art |
| Ports, libc, boot | hardware or none | | |

There are no threads. The hard behaviours come from one design decision:
**a command runs inside the keyboard interrupt handler.** For a command that
returns, this makes it atomic: interrupts are masked. An app, however, executes
`sti` inside the handler so that it can sleep in `hlt` and be woken, so from
then on the handler is interruptible code: the timer and the keyboard cut it,
the keyboard handler can be entered again while its first activation is still on
the stack, and the tail of that activation (leave raw mode, clear the cancel
flag, wipe the line) interleaves with whatever is typed. The flags that the
handler and the apps share (`raw_mode`, `raw_last_scancode`,
`cancel_requested`, `key_buffer`, `fb_suspended`) have no lock.

The second hard part is the filesystem: a block allocator, FAT chains, an inode
pool and directories stored in chains, where every call may run out of space at
any of its steps and descriptors share files. Its order of steps is what keeps
the structures consistent.

What makes each part correct:

- RAM filesystem: no block leaked, shared or linked twice; the namespace is a
  tree; descriptors never dangle; deleted data never reappears; a failed call
  loses nothing; seen through `ramfs.h` it is a tree of files.
- Keyboard, interrupts, apps: one app at a time, never blocked by its own
  handler; screen and keyboard belong to the same app; keys of an app never
  reach the shell's line; Ctrl+C ends an app.
- Shell: a command gives back the descriptor it took, and what it says of a
  file is what the file holds.
- Line editor: the line that runs is the one on the screen.
- Tetris: pieces never overlap, full rows leave whole, the incremental drawing
  agrees with the board, a round ends only when a piece has no room.
- Gamble: what is paid for is got, the inventory keeps the newest in order.
- Portal: no cue is missed and no character lost, however late the loop runs;
  the song ends.
- Speaker: off at the prompt, whatever was interrupted.

`PROJECT.json` lists every part with its status, every hazard with the property
that covers it, and the source lines of every definition.

## 2. Modules

```
RamFSApi ---- FileSystem ---- FileSystemProof        Console ---- ConsoleProof
    \             |
     \------ RamFS ---- RamFSRefinement ---- Shell   LineEditor ---- LineEditorProof
                \------ RamFSProof            |
                         \---- RefinementProof      Tetris ---- TetrisProof
AppState ---- Gamble ---- Arcade ---- ArcadeProof
        \---- Portal ----/   \---- MCArcade ---- StillAlive (tables of the song)

Recursion (induction, for RamFSProof, LineEditorProof, TetrisProof and ArcadeProof)
```

**RamFSApi** is what `ramfs.h` fixes for both filesystem modules: error codes,
flags, results and paths. A path is the sequence of its components. The
constants say what callers pass; `LongNames` are the names of `RAMFS_MAX_NAME`
bytes or more.

**FileSystem** is the abstract specification: `tree` maps paths to a file or a
directory, `handles` are descriptors, `call` and `ret` the last call and its
result. Storage appears only as the permission to answer `NO_SPACE` or to write
less than asked. The one error precedence kept is the code's own. The size
`stat` reports for a directory counts dirent slots in the code, so it is only
bounded from below by the number of children.

**RamFS** is `ramfs.c`. The five static arrays are one record `disk`, so that a
helper is a function from stores to stores and a call composes its helpers in
the order of the code; `fds` is the open-file table. `block_alloc`,
`chain_free`, `chain_read`, `chain_write`, `chain_truncate`, `inode_alloc`,
`inode_free`, `dir_find`, `dir_add`, `dir_remove`, `dir_is_empty`,
`path_resolve`, `path_resolve_parent` and the calls keep their names.
A *cell* is a byte of a file or a dirent of a directory, a block holds
`BlockSize` cells: a directory of the code stores 16 dirents a block. A call
is one action, because every call is made by a shell command inside the
handler with interrupts masked (no app calls `ramfs.c`).

**RamFSRefinement** maps the store to the abstract tree (paths that resolve, and
the content read off a chain) and states `Refinement == FS!Spec`. `tree` and
`handles` are history variables that hold the mapped state. Both specifications
record the name of the call, so a read must be answered by what `FileSystem`
lets a *read* answer, not by what some other call might.

**Console** is the machine that runs all this. `fifo` and `held` are the user and
the keyboard controller; `in_service` the PIC; `frames[0]` is `kernel_main` and
`frames[top]` the running code. A handler is one action up to its `iret`:
`KeyboardIRQ` with its branches `Cancel`, `Expose`, `Edit`, `Execute` and
`Launch`, and `TimerIRQ`. `Launch` is a handler that started an app: everything
up to the app's `sti`. From there each access of a shared flag is an action of
the running frame: `Check` (`keyboard_cancel_requested`), `Poll` and `ClearSlot`
(the two halves of `keyboard_poll_scancode`), `Act` (what the loop does with the
key), `Hlt`, and the exit path `ExitGraphics`, `ExitRawMode`, `ClearCancel`,
`WipeLine`, `Return`. Each app is the control graph of its loops: art's loop,
portal's song, gamble's menu, inventory, delays and `wait_any_key`, tetris's
round, game-over screen and restart. A key is one of the few the code tells
apart; `KEY` stands for all others and may do whatever some key does. What
editing makes of `key_buffer` is any line.

**Shell** composes the filesystem with `shell.c`: each `cmd_*` is the calls it
makes on RamFS, one call a step, with `command` the command that holds a
descriptor. `cat` reads `CatBuf` bytes at a time until a read gives none, `write`
opens with `CREATE` and `TRUNC`, writes once and closes. Every call is remapped
as in RamFSRefinement, so the shell's use of the store implements FileSystem too.

**LineEditor** is `keyboard.c`'s editing of `key_buffer` against `screen.c`.
`print_char`, `kprint`, `kprint_backspace` are functions from screens to screens;
scrolling, the off-by-one columns of the code (`Col - 1` for a character,
`Col - 2` for backspace, `Col` for ENTER's NUL) are kept as they are. A key is
one action, since its handler runs with interrupts masked. `kernel_main` and the
tail of a launch print with interrupts on: each is a *program*, a list of the
steps it still has to do, where a `print_char` is two (the cell, then the cursor),
so that a key lands between any two of them. `ahead` and `wrapped` are history
variables that say which lines can no longer be exact.

**Tetris** keeps the file-scope variables of `tetris.c` in the record `game`, with
the piece tables as the code's bit masks. A function of the code is a function
from games to games, an iteration of `play_round` is `PressKey` or `Fall`, the
clock is `Tick` and `due` is what is left of `next_drop`. The picture (`screen`) is
part of the record, erased and drawn piece by piece as in the code. A refill of
the bag picks among the shuffles that the swaps of `next_piece_type` can make.
`Sweep` is one round of the loop of `clear_lines`, `clear_lines` what twice the
number of rows of such rounds leave, more than the loop ever makes.

**AppState**, **Gamble**, **Portal**, **Arcade**: two apps on one speaker and one
cancel flag, with Ctrl+C between any two of their tests of it. In Gamble `at`
is the test the code stands at, `left` the rounds of the loop it is in; the five
loops that beep are instances of `Beeps`, `BeepEnds` and `LoopEnds`. `owed` is a
history variable: paid, and not in the inventory. In Portal an iteration of the
loop is a composition of `Melody` (cues, then the note), `BassLine` and
`Typewriter` on a state record; how many ticks pass between iterations is open.
`PortalEnds` resets the locals of `portal_run`. Arcade adds Ctrl+C, the coins of
a round of tetris and the choice of the next command.

**StillAlive** has the two voices, the cues and the row lengths of the lyrics of
`still_alive.c`, and its `StillAliveAssumption`, which TLC evaluates, is what
Portal assumes of a song: cues ascend, each has a beat that is played, durations
are positive after `ms_to_ticks`; and no row is wider than the lyric box.

**FileSystemProof**, **ConsoleProof**, **RamFSProof**, **RefinementProof** (of
RamFSRefinement, and of Shell, which extends it), **LineEditorProof**,
**TetrisProof**, **ArcadeProof**: theorems about the module each is named for
(section 5). **Recursion**: induction and recursion on the naturals, for all of them.
**MC\***: constants for TLC.
Definitions whose name ends in `_` and a word (`dir_add_appending`,
`Launch_cooked`) are plausible bugs, used to see that a property notices them.

## 3. Runs

| Run | Module / cfg | Checks | Result |
|---|---|---|---|
| filesystem | MCFileSystem | TypeOK, TreeClosed, HandlesLive | holds, 187 k states |
| ramfs_namespace | MCRamFS / MCRamFS_namespace | TypeOK, BlocksOwnedOnce, TreeIntact, FdsLive | holds, 38 k |
| ramfs_shared | MCRamFSRefinement / MCRamFS_shared | BeyondSizeIsZero, FailureKeepsData, Refinement | holds, 71 k |
| ramfs_shell | MCShell / Shell | SizeIsReadable, BlocksOwnedOnce, DirsBounded, NothingLeftOpen, OutputTrue, Refinement | holds, 13 k |
| ramfs_size | MCRamFS / MCRamFS_size | SizeIsReadable | violated |
| console_nested | Console / Console_nested | TypeOK, OneApp, ScreenOwner, LineKept, CtrlNotStuck, CancelKept | holds, 3.6 M |
| console_cancel | Console / Console_cancel | CancelStops | holds, 436 k |
| line_editor | LineEditor / LineEditor | TypeOK, InSync, RunsShown | holds, 379 k |
| tetris | Tetris / Tetris | TypeOK, PieceFits, LossIsReal, ScreenTrue, LandsWhole, PiecesLand | holds, 127 k |
| arcade | MCArcade / Arcade | TypeOK, PaidIsGot, ListsInOrder, SpeakerQuiet, CuesTaken, BoxKept, SungWhole, SongEnds | holds, 319 k |
| console_tetris | Console / Console_tetris | CancelStopsEveryApp | violated |
| console_chord | Console / Console_chord | ChordRegisters | violated |

What they show:

- `ramfs_namespace` has fewer blocks (3, one dirent each) than its four inodes
  could fill, so every call fails for want of a block, of an inode, or of
  neither; two levels of directories and a too-long name reach every error.
- `ramfs_shared`: two descriptors on one file (one of them appending and
  truncating), three blocks of two bytes of which the root directory takes one,
  writes of one and three bytes, seeks to offset 3. Writes are cut short, gaps
  are made and filled, blocks are reused. The offset is one that keeps size
  within the chain; with an offset past the store (5) the defect of
  `ramfs_size` breaks the refinement too, as a read then fails with `IO`.
- `ramfs_shell`: every command of the shell over two levels of paths with a
  too-long name, a text of one byte, one of three (which ends inside its second
  block) and none, and a store of three blocks of which a directory takes up to
  two, so that `write` is cut short. `cat`'s buffer (2) is shorter than the longest text and equal to a
  block. With the shell's flags and no seek the documented invariant on size
  holds. One descriptor is enough to see one that is not given back.
- `console_nested`: two keyboards' worth of Ctrl keys, C and ENTER, two keys of
  type-ahead, a stack of two nested activations, art and portal (one with
  graphics, one without). Two activations are enough for one to interrupt the
  tail of another, and the proofs of section 5 cover any depth.
- `console_cancel`: all four apps, one activation, and every key the loops tell
  apart. Liveness is checked without symmetry or state constraints.
- `line_editor`: two rows of six columns, so that lines wrap and every second
  prompt scrolls; up to three keys typed ahead of each of boot and a launch, and
  up to two further launches cutting the tail of a first. One character is
  enough: columns, not characters, are what the code can mix up.
- `tetris`: three piece types (I, O, T) on a board of four by five. The square and
  the bar fill rows, the T leaves gaps, all rotations reach the walls and the
  ceiling; holds, refills of the bag and rising levels happen within the two
  lines after which a round is only left. Board 10 by 20 is out of reach.
- `arcade`: a song of five beats whose pages overflow the box by a newline, by a
  wrap and by both, with a line cued while another is typed; six cases into an
  inventory of three with numbers that wrap at five, so that it is trimmed and
  wraps; cases 1 and 2 of the price table with one skin per rarity. The song is
  played while no case has been opened (`MaxOldCases`), which keeps the two
  halves from multiplying: they share the speaker and the flag, and both are
  reset when an app ends (`Ended`).

`CHECK_DEADLOCK` stays on everywhere: no state of either system is stuck. The
symmetry of the filesystem runs exchanges the two ordinary names, which no
definition distinguishes; these runs check safety only.

### Disagreements between code and comments

1. `ramfs_size`: `ramfs.c:205` against `ramfs.c:21-22`. A write that stores
   nothing beyond the end of a file still moves size, past the end of the chain.
   Only a caller that seeks can do this; the shell does not.
2. `console_chord`: `keyboard.c:109` against `keyboard.c:105-107`. C, then Ctrl,
   does not register.
3. `console_tetris`: `tetris.c:500` against `shell.c:221` and `keyboard.h:23-29`.
   The restart clears a Ctrl+C that arrived after the last check of the
   game-over screen. `CancelStops` excludes exactly that screen, and
   `CancelKept` shows that this is the only step that takes the flag back.

Met while modelling, outside what a comment or a test of the repository states,
and visible in the models:

- ENTER stores its NUL one place behind the line (`keyboard.c:169`), so that one
  leftover character of type-ahead can run with the line; in column 1 of a
  wrapped line a character is not stored; with the cursor on the first cell of
  the screen ENTER stores to `key_buffer[-1]` (the model drops that store). A key
  struck between the banner and the first prompt makes a later line run short or
  empty. `RunsShown` and `InSync` say exactly what is left to rely on.
- Holding C stops gravity, since a refused hold restarts the delay
  (`tetris.c:470`). `top_out` never fires: a spawned piece is on the board.
- `gamble.c:493` shows "added to inventory" before the tests of the cancel flag
  that can still prevent it (`gamble.c:656`); the coins are gone then.
- After 65536 cases `inventory recent` is out of order until the old numbers are
  gone.
- `write` on a full store says "wrote 0 bytes" and no error; `ls` shows at most 32
  of 64 entries and does not say so.
- Portal measures a note from when it was noticed, so that late iterations let the
  two voices drift apart; no cue is lost by it (`CuesTaken`).

### Bounds

`MaxFifo` (type-ahead), `MaxDepth` (frames above `kernel_main`), `NBlocks`,
`BlockSize`, `NInodes`, `NFds`, `Depth` (path length), `MaxFile` (in
`FileSystem`: the bytes a device holds), and the sets of names, buffers, read
counts, offsets, list sizes and flag sets. In `LineEditor`: `MAX_COLS`, `MAX_ROWS`,
`MaxAhead`, `MaxTails`; in `Tetris`: the board, `NTypes`, `LinesPerLevel`,
`SlowestDrop` and `MaxLines`; in `Gamble` and `Arcade`: `Opened`, `Strip`,
`INV_CAP`, `SeqWrap`, `MaxCases`, `MaxCoins`, `Winnings`, `MaxOldCases`; in
`Portal`: the song and the box. `MaxDepth` (`MaxTails` in
`LineEditor`) is the one bound the code lacks: after `keyboard_set_raw_mode(0)` and before the line is wiped, ENTER
launches the app again on top of the first activation, any number of times on a
16 KB stack. The model stops launching at `MaxDepth`.

### Fairness

`FairSpec` assumes `WF(CPU)`, the running frame keeps executing, and
`WF(TimerIRQ)`, the PIT ticks at 100 Hz and its interrupt is unmasked
(`isr_install`, `init_timer`). Nothing is assumed of the user or the keyboard.
The timer is needed: `hlt` after a check is a classic lost wake-up, and the tick
is what ends it. Weak fairness of the timer is what the hardware gives: the
interrupt is enabled in every state of the model, between handlers.

`Tetris` and `Portal` have the same two assumptions at their own grain: the loop
runs when something is due, and the clock ticks. The loop's part is written as
`[]<>~enabled \/ []<><<step>>_vars` with the enabling condition spelled out, which
is WF by definition; TLC cannot evaluate `ENABLED` of actions that nest operator
arguments as deep as these. Nothing is assumed of keys: `SongEnds` holds with no
Ctrl+C and with any.

## 4. Properties

The hazards of `PROJECT.json` say which of these is aimed at what.
`BlocksOwnedOnce`, `TreeIntact`, `DirsBounded`, `FdsLive`, `BeyondSizeIsZero` and
`FailureKeepsData` relate the FAT, the bitmaps, the inodes, the dirents and the
descriptors after any sequence of calls; `Refinement` says that callers cannot
tell. `OneApp`, `ScreenOwner`, `LineKept`, `CtrlNotStuck` and `CancelKept` relate
the shared flags to the frame that runs; `CancelStops` is the promise to the
user. `NothingLeftOpen` and `OutputTrue` follow a shell command through all its
calls. `InSync` and `RunsShown` relate the buffer to the cells of the screen after
any keys. `ScreenTrue` compares the picture drawn by pieces with the game;
`LandsWhole` states a landing at once (which rows leave, where the others go) and
is compared with the code's sweep; `PiecesLand` is what is true of gravity.
`PaidIsGot` and `SpeakerQuiet` hold the cancel tests of gamble together,
`ListsInOrder` its two orders across trimming and wrap; `CuesTaken`, `BoxKept`,
`SungWhole` and `SongEnds` do not depend on when the loop runs. Every property has a mutant in `PROJECT.json`: a changed definition that
breaks it under the run's own configuration.

## 5. Proofs

Every theorem holds for all values of the constants that satisfy the named
assumptions of the module it is about; no other assumption is made. Two of those
assumptions are there for the proofs: `Hole`, the dirent the code marks with
`RAMFS_SLOT_FREE`, is neither a byte nor a dirent in use, and `BadPath`, the null
or relative path, is no absolute path. Both hold by what the constants stand for.

**FileSystemProof** (TypeCorrect, TreeIsClosed, HandlesStayLive). The invariant
`Inv` is the conjunction of the tree being closed, finite and within `NInodes`,
typed handles, and handles on files of the tree. Finiteness and the bound need
each other (the cardinality of a grown tree is only known if it was finite), and
handle liveness needs the tree: unlink leaves other paths, and rmdir removes no
file. There is one lemma per call, above lemmas on growing, pruning and rewriting
a tree.

**RamFSProof** (TypeCorrect, BlocksAreOwned, BeyondSizeStaysZero, NamespaceIsTree,
DirectoriesFit, DescriptorsLive, FailureIsHarmless). None of these is inductive
alone: a write is only known to stay in its chain if chains are disjoint, the
chains only stay disjoint if a free block is in none, and a directory write only
keeps the tree if what lies past the end of the directory is not an entry. The
invariant has three layers, each preserved by the helpers it is about.

- `Sound`: every chain ends, chains are disjoint and injective, the bitmap is
  their union, free inodes are empty. Kept by `block_alloc`, `Appended`,
  `Extended`, `chain_free`, `chain_truncate`, `inode_alloc`, `inode_free`; the core
  is `AppendedKeeps` (linking a fresh block at the tail moves one chain by one
  block and no other) and `DroppedChain`.
- `Stock` adds zeros past every size and directories that can be read. Kept by
  `chain_write` (`WriteKeeps`, which also says which cell holds what afterwards).
- `Intact` adds the tree: the root, entries to allocated inodes, one entry for
  each, distinct names, fewer slots than inodes, and a path to every inode.
  `EntryAdded`, `EntryUndone` and `EntryRemoved` are mkdir or create, their
  undoing after a failure, and the removal of an empty directory or a file.

`Resolves` describes `path_resolve` by the entries on the way, so that the
invariant and its proofs speak of paths without the walk. Reuse of holes is what
bounds directories: `LiveFit` counts entries against inodes. `FailureIsHarmless`
follows from what the same lemmas say of the inodes a call is not about.

**RefinementProof** (Implements). In an intact store paths and inodes correspond
one to one (`Resolves` with `LastStep`: the entry that names an inode is unique, so
by induction on its length the path is), which turns `TreeOf` and `HandlesOf` into
functions of what RamFSProof says of a call: which inodes it adds or frees, which
cells it writes. Each call then has a lemma that exhibits the disjunct of
`FileSystem` it is: the tree grown by one node, pruned of one, a file written, cut or
extended with zeros, or untouched with the error the tree gives. `Implements` has
`[]SizeIsReadable` as a hypothesis because the code needs it: run `ramfs_size` is a
state of RamFS without it, from which a read fails that no tree of files lets fail.

The second part of **RefinementProof** is about the shell (CommandsCloseTheirFiles,
CommandsTellTheTruth, ShellSizesReadable, ShellUsesFileSystem). `SInv` adds the
shell to what the first part keeps: at the
prompt no descriptor is in use, else exactly the command's own; `cat` has printed
the file up to its offset; `write` has an empty file, its offset is 0, and a block is
free if the file held something. A write at offset 0 stores every byte it counts, so
sizes stay readable, so the hypothesis of `Implements` is an invariant here and the
refinement holds with none.

**ConsoleProof** (TypeCorrect, AppsTakeTurns, ScreenIsOwned, LineIsKept,
CancelIsKept, CtrlComesUp). `OneApp`, `ScreenOwner` and `LineKept` are not
inductive: a frame must also be at a step its place has (`Positions`) and belong
to the app its place is a part of (`AppFrames`), or a step could lead out of an app
without passing its exit. `IInv` is their conjunction with `TypeOK`. Its core is
the lemma `Move` on a frame that moves without touching the flags; each
flag-changing step of the exit path, the branches of the handler and the user have
a lemma of their own. `CancelIsKept` follows from `IInv` because `ClearCancel`
runs only when `raw_mode` is clear. `CtrlNotStuck` needs `CtrlOrder`, on the
order of the queue: with no Ctrl held, a Ctrl press that waits in `fifo` has a
release behind it, and one is in the queue whenever `ctrl_pressed` is set.

**LineEditorProof** (TypeCorrect, LineIsInSync, ShownLineRuns). The properties
speak of a kernel that waits, so `IInv` must carry what will make them true when
a printing program is done. Three strengths of it are needed. Always
(`Scheduled`): a program has a rest of its script to do, and its offsets are on the
screen. In the tail of a launch, whatever was typed meanwhile (`InPlace`): the
newline before the last prompt starts a row, and `kprint_at` holds its offset in a
local that no key moves, so each step of the prompt has a known column; that gives
`RunsShown`. As long as nothing was typed (`Undisturbed`): also which cells hold
the prompt so far and how much of the buffer has been wiped; that gives `InSync`.
At the prompt `Follows` and `Synced` are the same facts about the line, and
`TypingFollows` and `TakingBackFollows` keep them by the columns: a character of
column k goes to place k - 2, also if the screen scrolls under it (`LineShifts`).
`kprint` is described by the screens between its characters (`Prints`), so that
any text that ends in newline, `>` and a blank leaves a prompt (`PromptIsReady`).

**TetrisProof** (TypeCorrect, PieceAlwaysFits, LossesAreReal, ScreenIsTrue,
PiecesLandWhole). Between two steps a game is `Live` (the piece fits, the picture
is the board with it) or `Lost` (the piece is in the spawn corner and does not
fit); `IInv` adds `TypeOK`, the previews (`Status`) and `LossIsReal`. Each function of
`tetris.c` has a lemma from games to games: where the piece rests, what drawing and
erasing leave, what the bag holds after any shuffle (`ShufflesAreBags`, by induction
on the swaps). The loop of `clear_lines` is proved with a loop invariant: after n
rounds (`SweptTo`) the rows below the row under test are final, the others are
still the first board moved down by the rows cleared, and the row under test is
the n-th minus those. `ClearsRows` concludes that it leaves exactly the `Collapsed`
board and counts the full rows, which is `LandsWhole`.

**ArcadeProof** (TypeCorrect, PaidCasesAreGot, SpeakerIsQuiet, ListsStayInOrder,
CuesAreTaken, BoxIsKept, SongIsWhole). Two halves share the speaker and the flag. For the casino
(`GambleInv`), what is owed and whether the speaker sounds is fixed by the loop it
stands in, and the inventory is `Numbered` within its capacity. From the numbers
alone `NumberedLists` proves the sort: each insertion (`InsertedPuts`) keeps the
entries (`Lists`) and, if the numbers ascend, the order (`InOrder`). For the song
(`PortalInv`), the cues taken are those up to the last beat played (`LyricsTaken`,
`FramesTaken`, which need that cues ascend, by induction on their table) and the
characters to type are those of the cues taken (`Counted`); for the lyric box, that
every cell written is before its position (`Before`), under wrap, newline and page
turn.

**Recursion** (SetInduction, Iteration). A function defined by recursion on
`0..n` is reasoned about with induction stated over sets: a set that has 0 and
every successor of its members has every natural number. It is derived from the
library's theorem that `<` is well founded; `IteratesExist` gives a recursive
definition its existence. Chains, walks, shuffles, sweeps, cue tables and printed texts use it.

Every safety property that a passing run checks is stated by a theorem. Liveness
stays with TLC, because the provers do not reach it: `CancelStops`, `PiecesLand`
and `SongEnds`. So does what the three runs that expect a violation show, and that
`MCArcade`'s tables satisfy the assumptions made of a song.

## 6. Not modelled

Glyphs, pixels, colours and pictures (framebuffer, graphics, art), the frequencies
of tones, libc, boot and descriptor setup, port I/O, multiboot parsing: straight
code with no state another part relies on. `ramfs_exists`, `ramfs_tell` and
`ramfs_usage` only read. Absent from `RamFS`: a null buffer, `u32` overflow of
offsets, corruption checks that cannot fire (`cur >= RAMFS_BLOCKS`), a call
before `ramfs_init`. Absent from `Shell`: trimming and splitting of arguments,
echo, help, df. Absent from `Console`: Shift and Caps Lock, the content of
the line, the tick count, and interrupts between the 256 stores of the line wipe
(`LineEditor` has those). Absent from `LineEditor`: a key in the middle of the
copy of a scroll, which is one step. Absent from `Tetris`: the score and the coins
it becomes (`Arcade` has a round pay any of `Winnings`). Absent from `Gamble`: the
generator and the strip that scrolls past. No module has the wrap of the `u32`
tick (after 497 days).

## 7. Plan

1. Done: the filesystem, its refinement and the shell's use of it, the console,
   the line editor, tetris, portal and gamble; proofs for FileSystem, RamFS, its
   refinement, Shell, Console, LineEditor, Tetris and Arcade.
2. Out of reach of the provers here: liveness.
