------------------------------- MODULE Tetris -------------------------------
(***************************************************************************)
(* kernel/tetris/tetris.c: the game, from the launch to the exit.          *)
(*                                                                         *)
(* The file-scope variables of the game are the record `game`, so that a   *)
(* function of the code is a function from games to games and an iteration *)
(* of play_round composes them in its order.  An iteration is one action:  *)
(* it reads one key, or none, and nothing it shares with an interrupt but  *)
(* the key, the cancel flag and the clock (module Console has the races on *)
(* those).  The picture is part of the record: the lit cells of the board  *)
(* window and the two previews, as last drawn.                             *)
(*                                                                         *)
(* Time counts in units of 50 ms.  `due` is next_drop - get_tick(), 0 once *)
(* the deadline has passed.  Colours, the score and what it pays (module   *)
(* Arcade takes any amount) are left out.                                  *)
(***************************************************************************)
EXTENDS Integers, Sequences, FiniteSets

CONSTANTS
  BOARD_W, BOARD_H,
  NTypes,         \* 7: the pieces dealt are 0..(NTypes - 1)
  LinesPerLevel,  \* 10
  SlowestDrop,    \* 16: the time per row at level 1
  MaxLines        \* a round with this many lines is only left, not played on

ASSUME TetrisAssumption ==
  /\ BOARD_W \in Nat /\ BOARD_W >= 4
  /\ BOARD_H \in Nat /\ BOARD_H >= 4
  /\ NTypes \in 2..7
  /\ LinesPerLevel \in Nat \ {0}
  /\ SlowestDrop \in Nat \ {0}
  /\ MaxLines \in Nat

VARIABLES
  at,    \* "shell", "round" (play_round) or "over" (game_over_screen)
  game

vars == <<at, game>>

P_NONE == -1
Types == 0..(NTypes - 1)

(***************************************************************************)
(* Pieces.  Bit 15 - 4 * r - c of a rotation says whether cell (r, c) of   *)
(* its 4 by 4 square is filled.  A cell is <<row, column>>.                *)
(***************************************************************************)
piece_rots ==
  << <<\h0F00, \h2222, \h00F0, \h4444>>, <<\h6600, \h6600, \h6600, \h6600>>,
     <<\h4E00, \h4640, \h0E40, \h4C40>>, <<\h6C00, \h4620, \h6C00, \h4620>>,
     <<\hC600, \h2640, \hC600, \h2640>>, <<\h8E00, \h6440, \h0E20, \h44C0>>,
     <<\h2E00, \h4460, \h0E80, \hC440>> >>

(* 1 << (15 - n), at place n + 1 *)
Weight ==
  <<32768, 16384, 8192, 4096, 2048, 1024, 512, 256, 128, 64, 32, 16, 8, 4, 2, 1>>

piece_cell(type, rot, r, c) ==
  (piece_rots[type + 1][rot + 1] \div Weight[r * 4 + c + 1]) % 2 = 1

Shape ==
  [type \in Types |-> [rot \in 0..3 |->
     {cell \in (0..3) \X (0..3) : piece_cell(type, rot, cell[1], cell[2])}]]

Window == (0..(BOARD_H - 1)) \X (0..(BOARD_W - 1))
PieceCells(p) == {<<p.y + cell[1], p.x + cell[2]>> : cell \in Shape[p.type][p.rot]}

collides(board, p) ==
  \E cell \in PieceCells(p) :
    cell[2] \notin 0..(BOARD_W - 1) \/ cell[1] >= BOARD_H \/ cell \in board

(***************************************************************************)
(* The bag: every type once, shuffled by swaps from the last place down.   *)
(* The operators below take the shuffle that a refill would make.          *)
(***************************************************************************)
Bags == {bag \in [1..NTypes -> Types] : {bag[i] : i \in 1..NTypes} = Types}
Ordered == [i \in 1..NTypes |-> i - 1]
Swap_copying(bag, i, j) == [bag EXCEPT ![i] = bag[j]]
Swap(bag, i, j) == [bag EXCEPT ![i] = bag[j], ![j] = bag[i]]

Draws == {js \in [2..NTypes -> 1..NTypes] : \A i \in 2..NTypes : js[i] <= i}
Shuffled(js) ==
  LET bag[n \in 0..(NTypes - 1)] ==
        IF n = 0 THEN Ordered
        ELSE Swap(bag[n - 1], NTypes + 1 - n, js[NTypes + 1 - n])
  IN  bag[NTypes - 1]
Shuffles == {Shuffled(js) : js \in Draws}

(* next_type = next_piece_type(), as every caller has it. *)
next_piece_type(g, shuffle) ==
  IF g.bag_pos >= NTypes
  THEN [g EXCEPT !.bag = shuffle, !.bag_pos = 1, !.next_type = shuffle[1]]
  ELSE [g EXCEPT !.bag_pos = @ + 1, !.next_type = g.bag[g.bag_pos + 1]]

(***************************************************************************)
(* Drawing                                                                 *)
(***************************************************************************)
draw_board(g) == [g EXCEPT !.screen.cells = g.board]
erase_piece(g) == [g EXCEPT !.screen.cells = @ \ PieceCells(g.cur)]
draw_piece(g) == [g EXCEPT !.screen.cells = @ \cup (PieceCells(g.cur) \cap Window)]
draw_status(g) == [g EXCEPT !.screen.next = g.next_type, !.screen.hold = g.hold_type]

(***************************************************************************)
(* Moves                                                                   *)
(***************************************************************************)
Moved(p, dx, dy) == [p EXCEPT !.x = @ + dx, !.y = @ + dy]
Rotated(p, dir) == [p EXCEPT !.rot = (@ + (IF dir > 0 THEN 1 ELSE 3)) % 4]
Placed(g, p) == draw_piece([erase_piece(g) EXCEPT !.cur = p])
Tried(g, p) == IF collides(g.board, p) THEN g ELSE Placed(g, p)

try_move(g, dx, dy) == Tried(g, Moved(g.cur, dx, dy))
try_rotate_unchecked(g, dir) == Placed(g, Rotated(g.cur, dir))
try_rotate(g, dir) == Tried(g, Rotated(g.cur, dir))

(* The rows the piece can fall before it would collide. *)
Drop(board, p) ==
  CHOOSE n \in 0..BOARD_H :
    /\ \A k \in 1..n : ~collides(board, Moved(p, 0, k))
    /\ collides(board, Moved(p, 0, n + 1))

hard_drop(g) == Placed(g, Moved(g.cur, 0, Drop(g.board, g.cur)))

(***************************************************************************)
(* Spawning and holding                                                    *)
(***************************************************************************)
spawn(g, type) == [g EXCEPT !.cur = [type |-> type, rot |-> 0, x |-> (BOARD_W - 4) \div 2, y |-> 0]]
Shown(g) == IF collides(g.board, g.cur) THEN [g EXCEPT !.game_over = TRUE] ELSE draw_piece(g)

spawn_next(g, shuffle) ==
  Shown([next_piece_type(spawn(g, g.next_type), shuffle) EXCEPT !.hold_used = FALSE])

try_hold(g, shuffle) ==
  LET e == erase_piece(g)
      h == IF g.hold_type = P_NONE THEN next_piece_type(spawn(e, g.next_type), shuffle)
           ELSE spawn(e, g.hold_type)
  IN  IF g.hold_used THEN g
      ELSE Shown([h EXCEPT !.hold_type = g.cur.type, !.hold_used = TRUE])

(***************************************************************************)
(* Locking                                                                 *)
(***************************************************************************)
lock_piece(board, p) == board \cup (PieceCells(p) \cap Window)

RowFull(board, r) == \A c \in 0..(BOARD_W - 1) : <<r, c>> \in board
RowRemoved(board, r) ==
  {cell \in board : cell[1] > r} \cup {<<cell[1] + 1, cell[2]>> : cell \in {x \in board : x[1] < r}}

(* A round of the loop of clear_lines, and the state after n of them: from the
   bottom up; a row that took the place of a full one is looked at again. *)
Sweep_once(s) ==
  IF s.r < 0 THEN s
  ELSE IF RowFull(s.board, s.r)
  THEN [board |-> RowRemoved(s.board, s.r), r |-> s.r - 1, cleared |-> s.cleared + 1]
  ELSE [s EXCEPT !.r = @ - 1]

Sweep(s) ==
  IF s.r < 0 THEN s
  ELSE IF RowFull(s.board, s.r)
  THEN [board |-> RowRemoved(s.board, s.r), r |-> s.r, cleared |-> s.cleared + 1]
  ELSE [s EXCEPT !.r = @ - 1]

clear_lines(board) ==
  LET after[n \in 0..(2 * BOARD_H)] ==
        IF n = 0 THEN [board |-> board, r |-> BOARD_H - 1, cleared |-> 0]
        ELSE Sweep(after[n - 1])
  IN  after[2 * BOARD_H]

update_level(g) ==
  LET nl == 1 + g.lines \div LinesPerLevel IN [g EXCEPT !.level = IF nl > @ THEN nl ELSE @]

(* top_out: a cell of the locked piece was above the board. *)
Settled(g, top_out, shuffle) ==
  LET After(swept) ==
        IF swept.cleared = 0 THEN [g EXCEPT !.board = swept.board]
        ELSE draw_board(update_level([g EXCEPT !.board = swept.board,
                                               !.lines = @ + swept.cleared]))
      h == After(clear_lines(lock_piece(g.board, g.cur)))
  IN  IF top_out THEN [h EXCEPT !.game_over = TRUE] ELSE spawn_next(h, shuffle)

process_lock_toprow(g, shuffle) ==
  Settled(g, \E cell \in PieceCells(g.cur) : cell[1] <= 0, shuffle)
process_lock(g, shuffle) ==
  Settled(g, \E cell \in PieceCells(g.cur) : cell[1] < 0, shuffle)

(* next_drop = get_tick() + ms_to_ticks(drop_ms()) *)
drop_ms(level) == IF SlowestDrop + 1 - level < 1 THEN 1 ELSE SlowestDrop + 1 - level
Rescheduled(g) == [g EXCEPT !.due = drop_ms(g.level)]

(***************************************************************************)
(* play_round                                                              *)
(***************************************************************************)
Keys == {"LEFT", "RIGHT", "DOWN", "CW", "CCW", "SPACE", "C"}

(* The switch on a key the game knows. *)
Pressed_resting(g, sc, shuffle) ==
  draw_status(
    CASE sc = "LEFT" -> Rescheduled(try_move(g, -1, 0))
      [] sc = "RIGHT" -> Rescheduled(try_move(g, 1, 0))
      [] sc = "DOWN" -> try_move(g, 0, 1)
      [] sc = "CW" -> try_rotate(g, 1)
      [] sc = "CCW" -> try_rotate(g, -1)
      [] sc = "SPACE" -> Rescheduled(process_lock(hard_drop(g), shuffle))
      [] sc = "C" -> Rescheduled(try_hold(g, shuffle)))

Pressed(g, sc, shuffle) ==
  draw_status(
    CASE sc = "LEFT" -> try_move(g, -1, 0)
      [] sc = "RIGHT" -> try_move(g, 1, 0)
      [] sc = "DOWN" -> try_move(g, 0, 1)
      [] sc = "CW" -> try_rotate(g, 1)
      [] sc = "CCW" -> try_rotate(g, -1)
      [] sc = "SPACE" -> Rescheduled(process_lock(hard_drop(g), shuffle))
      [] sc = "C" -> Rescheduled(try_hold(g, shuffle)))

Gravity_forgetful(g, shuffle) ==
  IF g.game_over \/ g.due > 0 THEN g
  ELSE Rescheduled(IF collides(g.board, Moved(g.cur, 0, 1)) THEN process_lock(g, shuffle)
                   ELSE try_move(g, 0, 1))

Gravity(g, shuffle) ==
  IF g.game_over \/ g.due > 0 THEN g
  ELSE Rescheduled(IF collides(g.board, Moved(g.cur, 0, 1))
                   THEN draw_status(process_lock(g, shuffle))
                   ELSE try_move(g, 0, 1))

Playing == at = "round" /\ ~game.game_over /\ game.lines < MaxLines

Refills == IF game.bag_pos >= NTypes THEN Shuffles ELSE {game.bag}

(* An iteration that finds a key, and one that finds none; that does nothing
   before the deadline. *)
PressKey(sc) ==
  /\ Playing
  /\ \E shuffle \in Refills : game' = Gravity(Pressed(game, sc, shuffle), shuffle)
  /\ UNCHANGED at

Fall ==
  /\ Playing /\ game.due = 0
  /\ \E shuffle \in Refills : game' = Gravity(game, shuffle)
  /\ UNCHANGED at

Tick ==
  /\ at = "round" /\ game.due > 0
  /\ game' = [game EXCEPT !.due = @ - 1]
  /\ UNCHANGED at

(***************************************************************************)
(* tetris_run                                                              *)
(***************************************************************************)
init_game(g, shuffle) ==
  next_piece_type([g EXCEPT !.board = {}, !.level = 1, !.lines = 0, !.game_over = FALSE,
                            !.hold_type = P_NONE, !.hold_used = FALSE, !.bag_pos = NTypes],
                  shuffle)

(* A round starts: up to the loop of play_round. *)
NewRound ==
  /\ at' = "round"
  /\ \E shuffle \in Shuffles :
       game' = Rescheduled(draw_status(spawn_next(draw_board(init_game(game, shuffle)), shuffle)))

Launch == at = "shell" /\ NewRound

(* play_round returns; game_over_screen follows unless Ctrl+C was seen. *)
Lose ==
  /\ at = "round" /\ game.game_over
  /\ at' \in {"over", "shell"}
  /\ UNCHANGED game

Restart == at = "over" /\ NewRound

(* Ctrl+C, or Q or ESC on the game-over screen. *)
Quit ==
  /\ at = "over" \/ (at = "round" /\ ~game.game_over)
  /\ at' = "shell"
  /\ UNCHANGED game

(* The variables as the image has them: no picture, no piece. *)
Init ==
  /\ at = "shell"
  /\ game = [board |-> {}, cur |-> [type |-> Ordered[1], rot |-> 0, x |-> 0, y |-> 0],
             next_type |-> Ordered[1], hold_type |-> P_NONE, hold_used |-> FALSE,
             lines |-> 0, level |-> 0, game_over |-> FALSE, bag |-> Ordered, bag_pos |-> NTypes,
             due |-> 0, screen |-> [cells |-> {}, next |-> P_NONE, hold |-> P_NONE]]

Next ==
  \/ Launch \/ Restart \/ Quit \/ Lose
  \/ \E sc \in Keys : PressKey(sc)
  \/ Fall \/ Tick

Spec == Init /\ [][Next]_vars

(* play_round runs whenever an interrupt wakes it, and the clock ticks.  The
   first is WF_vars(Fall) with its ENABLED written out: TLC does not keep the
   values of operator arguments while it evaluates ENABLED, and Fall nests them
   deep. *)
FairSpec ==
  /\ Spec
  /\ []<>~(Playing /\ game.due = 0) \/ []<><<Fall>>_vars
  /\ WF_vars(Tick)

(***************************************************************************)
(* Properties                                                              *)
(***************************************************************************)
Pieces == [type : Types, rot : 0..3, x : -3..(BOARD_W - 1), y : 0..(BOARD_H - 1)]

Screens ==
  [cells : SUBSET Window, next : Types \cup {P_NONE}, hold : Types \cup {P_NONE}]
Games ==
  [board : SUBSET Window, cur : Pieces, next_type : Types, hold_type : Types \cup {P_NONE},
   hold_used : BOOLEAN, lines : Nat, level : Nat, game_over : BOOLEAN,
   bag : Bags, bag_pos : 1..NTypes, due : 0..SlowestDrop, screen : Screens]

(* Every variable has the values the code gives it: the bag is a permutation
   of the pieces, so that each comes once per bag, and no piece is ever above
   the board, so that a lock never tops out. *)
TypeOK == at \in {"shell", "round", "over"} /\ game \in Games

(* try_move, try_rotate, hard_drop, spawn and try_hold: while the game goes
   on, the falling piece is inside the walls and on no locked cell. *)
PieceFits == at = "round" /\ ~game.game_over => ~collides(game.board, game.cur)

(* The player loses only when the piece just spawned, by a lock or by a hold,
   cannot be placed. *)
LossIsReal ==
  game.game_over =>
    game.cur = spawn(game, game.cur.type).cur /\ collides(game.board, game.cur)

(* The incremental drawing agrees with the game between iterations: the lit
   cells are the locked ones and the falling piece, the previews show what
   will be spawned and what is held. *)
ScreenTrue ==
  at = "round" =>
    /\ game.screen.cells = game.board \cup (IF game.game_over THEN {} ELSE PieceCells(game.cur))
    /\ game.screen.next = game.next_type
    /\ game.screen.hold = game.hold_type

Locks == <<game.board, game.lines>>' # <<game.board, game.lines>>

Landed(filled) ==
  LET full == {r \in 0..(BOARD_H - 1) : RowFull(filled, r)}
  IN  /\ game'.lines = game.lines + Cardinality(full)
      /\ game'.board = {<<cell[1] + Cardinality({r \in full : r > cell[1]}), cell[2]>> :
                          cell \in {x \in filled : x[1] \notin full}}

(* A piece lands where it rests, and the board then changes only by its four
   cells and by whole rows: the full ones go, all that was above each comes down
   one row, and lines counts them. *)
LandsWhole ==
  [][at = "round" /\ at' = "round" /\ Locks =>
       \E p \in {q \in Pieces : q.type = game.cur.type} :
         /\ ~collides(game.board, p) /\ collides(game.board, Moved(p, 0, 1))
         /\ Landed(game.board \cup PieceCells(p))]_vars

(* C: a hold, or one refused that restarts the delay all the same. *)
Holds ==
  \/ game'.hold_used /\ ~game.hold_used
  \/ game.hold_used /\ game'.cur = game.cur /\ game'.due > game.due

(* Gravity cannot be put off for ever by moving or rotating: as long as the
   round goes on, pieces keep landing, unless C is pressed again and again
   (it restarts the delay even when the hold is refused). *)
PiecesLand ==
  \/ []<>~Playing
  \/ []<><<Locks>>_vars
  \/ []<><<Holds>>_vars
=============================================================================
