---------------------------- MODULE TetrisProof ----------------------------
(***************************************************************************)
(* Proofs about Tetris, for every size of board, number of pieces and      *)
(* speed.                                                                  *)
(*                                                                         *)
(* The shape of a piece is unfolded once (Solid, CellsOf): after that a    *)
(* piece is a set of cells near its corner.  A game is Live, its falling   *)
(* piece placed and drawn, or Lost, its new piece on a locked one; each    *)
(* function of the code leads from Live to one of them.                    *)
(***************************************************************************)
EXTENDS Tetris, Recursion, FiniteSetTheorems

(***************************************************************************)
(* Pieces                                                                  *)
(***************************************************************************)

(* Every rotation of every piece fills the cell <<1, 1>>, but for two of the
   straight one. *)
LEMMA Solid ==
  ASSUME NEW type \in 0..6, NEW rot \in 0..3
  PROVE  \/ piece_cell(type, rot, 1, 1)
         \/ piece_cell(type, rot, 1, 2)
         \/ piece_cell(type, rot, 2, 1)
<1>1. Weight[1 * 4 + 1 + 1] = 1024 /\ Weight[1 * 4 + 2 + 1] = 512 /\ Weight[2 * 4 + 1 + 1] = 64
  BY DEF Weight
<1>2. CASE type = 0
  BY <1>1, <1>2 DEF piece_cell, piece_rots
<1>3. CASE type = 1
  BY <1>1, <1>3 DEF piece_cell, piece_rots
<1>4. CASE type = 2
  BY <1>1, <1>4 DEF piece_cell, piece_rots
<1>5. CASE type = 3
  BY <1>1, <1>5 DEF piece_cell, piece_rots
<1>6. CASE type = 4
  BY <1>1, <1>6 DEF piece_cell, piece_rots
<1>7. CASE type = 5
  BY <1>1, <1>7 DEF piece_cell, piece_rots
<1>8. CASE type = 6
  BY <1>1, <1>8 DEF piece_cell, piece_rots
<1> QED  BY <1>2, <1>3, <1>4, <1>5, <1>6, <1>7, <1>8

Cells == Int \X Int
Placings == [type : Types, rot : 0..3, x : Int, y : Nat]

LEMMA CellsOf ==
  ASSUME NEW p \in Placings
  PROVE  /\ PieceCells(p) \in SUBSET Cells /\ PieceCells(p) # {}
         /\ \A cell \in PieceCells(p) : cell[1] \in p.y..(p.y + 3) /\ cell[2] \in p.x..(p.x + 3)
<1> DEFINE S == Shape[p.type][p.rot]
<1>1. p.type \in Types /\ p.rot \in 0..3 /\ p.x \in Int /\ p.y \in Nat /\ p.type \in 0..6
  BY TetrisAssumption DEF Placings, Types
<1>2. S = {cell \in (0..3) \X (0..3) : piece_cell(p.type, p.rot, cell[1], cell[2])}
  BY <1>1 DEF Shape
<1>3. S \subseteq (0..3) \X (0..3)
  BY <1>2
<1>4. S # {}
  <2>1. \/ piece_cell(p.type, p.rot, 1, 1)
        \/ piece_cell(p.type, p.rot, 1, 2)
        \/ piece_cell(p.type, p.rot, 2, 1)
    BY <1>1, Solid
  <2>2. <<1, 1>> \in S \/ <<1, 2>> \in S \/ <<2, 1>> \in S
    BY <1>2, <2>1
  <2> QED  BY <2>2
<1>5. PieceCells(p) = {<<p.y + cell[1], p.x + cell[2]>> : cell \in S}
  BY DEF PieceCells
<1> HIDE DEF S
<1>6. ASSUME NEW cell \in S
      PROVE  /\ <<p.y + cell[1], p.x + cell[2]>> \in Cells
             /\ p.y + cell[1] \in p.y..(p.y + 3) /\ p.x + cell[2] \in p.x..(p.x + 3)
  <2>1. cell[1] \in 0..3 /\ cell[2] \in 0..3
    BY <1>3
  <2> QED  BY <1>1, <2>1 DEF Cells
<1>7. ASSUME NEW cell \in PieceCells(p)
      PROVE  cell \in Cells /\ cell[1] \in p.y..(p.y + 3) /\ cell[2] \in p.x..(p.x + 3)
  <2>1. PICK d \in S : cell = <<p.y + d[1], p.x + d[2]>>
    BY <1>5
  <2>2. cell[1] = p.y + d[1] /\ cell[2] = p.x + d[2]
    BY <2>1
  <2> QED  BY <1>6, <2>1, <2>2
<1>8. PieceCells(p) # {}
  BY <1>4, <1>5
<1> QED  BY <1>7, <1>8

(* A piece that collides with nothing, none of it above the board, is on free
   cells of it. *)
LEMMA Fits ==
  ASSUME NEW board, NEW p \in Placings, ~collides(board, p)
  PROVE  p \in Pieces /\ PieceCells(p) \in SUBSET Window /\ PieceCells(p) \cap board = {}
<1>1. \A cell \in PieceCells(p) :
        cell[2] \in 0..(BOARD_W - 1) /\ ~(cell[1] >= BOARD_H) /\ cell \notin board
  BY DEF collides
<1>2. /\ PieceCells(p) \in SUBSET Cells /\ PieceCells(p) # {}
      /\ \A cell \in PieceCells(p) : cell[1] \in p.y..(p.y + 3) /\ cell[2] \in p.x..(p.x + 3)
  BY CellsOf
<1>3. p.type \in Types /\ p.rot \in 0..3 /\ p.x \in Int /\ p.y \in Nat
  BY DEF Placings
<1>4. BOARD_W \in Nat /\ BOARD_H \in Nat
  BY TetrisAssumption
<1>5. ASSUME NEW cell \in PieceCells(p)
      PROVE  cell \in Window
  <2>1. cell \in Int \X Int
    BY <1>2 DEF Cells
  <2>2. cell[1] \in 0..(BOARD_H - 1) /\ cell[2] \in 0..(BOARD_W - 1) /\ cell = <<cell[1], cell[2]>>
    BY <1>1, <1>2, <1>3, <1>4, <2>1
  <2> QED  BY <2>2 DEF Window
<1>6. p \in Pieces
  <2>1. PICK cell \in PieceCells(p) : TRUE
    BY <1>2
  <2>2. p.x \in -3..(BOARD_W - 1) /\ p.y \in 0..(BOARD_H - 1)
    <3>1. cell \in Int \X Int
      BY <1>2, <2>1 DEF Cells
    <3> QED  BY <1>1, <1>2, <1>3, <1>4, <2>1, <3>1
  <2> QED  BY <1>3, <2>2 DEF Placings, Pieces
<1> QED  BY <1>1, <1>5, <1>6

LEMMA PiecesArePlacings == Pieces \subseteq Placings
BY DEF Pieces, Placings

LEMMA MovedIs ==
  ASSUME NEW p \in Placings, NEW dx \in Int, NEW dy \in Int
  PROVE  Moved(p, dx, dy) = [type |-> p.type, rot |-> p.rot, x |-> p.x + dx, y |-> p.y + dy]
<1>1. p = [type |-> p.type, rot |-> p.rot, x |-> p.x, y |-> p.y]
  BY DEF Placings
<1> DEFINE q == [p EXCEPT !.x = p.x + dx]
<1>2. q = [type |-> p.type, rot |-> p.rot, x |-> p.x + dx, y |-> p.y]
  BY <1>1
<1>3. Moved(p, dx, dy) = [q EXCEPT !.y = p.y + dy]
  BY DEF Moved
<1> HIDE DEF q
<1> QED  BY <1>2, <1>3

LEMMA MovedType ==
  ASSUME NEW p \in Placings, NEW dx \in Int, NEW dy \in Nat
  PROVE  /\ Moved(p, dx, dy) \in Placings /\ Moved(p, dx, dy).type = p.type
         /\ Moved(p, dx, dy).y = p.y + dy
<1>1. p.type \in Types /\ p.rot \in 0..3 /\ p.x \in Int /\ p.y \in Nat
  BY DEF Placings
<1>2. p.x + dx \in Int /\ p.y + dy \in Nat
  BY <1>1
<1> QED  BY <1>1, <1>2, MovedIs DEF Placings

LEMMA RotatedType ==
  ASSUME NEW p \in Placings, NEW dir \in Int
  PROVE  Rotated(p, dir) \in Placings /\ Rotated(p, dir).type = p.type
BY DEF Rotated, Placings

(* The fall of a placed piece ends where it rests. *)
LEMMA DropRests ==
  ASSUME NEW board, NEW p \in Placings, ~collides(board, p)
  PROVE  /\ Drop(board, p) \in Nat /\ ~collides(board, Moved(p, 0, Drop(board, p)))
         /\ collides(board, Moved(Moved(p, 0, Drop(board, p)), 0, 1))
<1> DEFINE T == {k \in Nat \ {0} : collides(board, Moved(p, 0, k))}
           Falls(n) == (\A k \in 1..n : ~collides(board, Moved(p, 0, k)))
                       /\ collides(board, Moved(p, 0, n + 1))
<1>1. BOARD_H \in Nat \ {0} /\ p.y \in Nat
  BY TetrisAssumption DEF Placings
<1>2. BOARD_H \in T
  <2>1. Moved(p, 0, BOARD_H) \in Placings /\ Moved(p, 0, BOARD_H).y = p.y + BOARD_H
    BY <1>1, MovedType
  <2>2. PICK cell \in PieceCells(Moved(p, 0, BOARD_H)) : cell[1] \in (p.y + BOARD_H)..(p.y + BOARD_H + 3)
    BY <2>1, CellsOf
  <2>3. cell[1] >= BOARD_H
    BY <1>1, <2>2
  <2> QED  BY <1>1, <2>2, <2>3 DEF collides
<1>3. PICK m \in T : \A k \in T : m <= k
  BY <1>2, Least
<1>4. m - 1 \in 0..BOARD_H /\ Falls(m - 1)
  BY <1>1, <1>2, <1>3
<1>5. Drop(board, p) = CHOOSE n \in 0..BOARD_H : Falls(n)
  BY DEF Drop
<1> HIDE DEF Falls
<1>6. Drop(board, p) \in 0..BOARD_H /\ Falls(Drop(board, p))
  BY <1>4, <1>5, Zenon
<1> DEFINE n == Drop(board, p)
<1>7. n \in Nat /\ (\A k \in 1..n : ~collides(board, Moved(p, 0, k))) /\ collides(board, Moved(p, 0, n + 1))
  BY <1>1, <1>6 DEF Falls
<1> HIDE DEF n
<1>8. ~collides(board, Moved(p, 0, n))
  <2>1. CASE n = 0
    <3>1. Moved(p, 0, 0) = p
      <4>1. p = [type |-> p.type, rot |-> p.rot, x |-> p.x, y |-> p.y] /\ p.x + 0 = p.x /\ p.y + 0 = p.y
        BY DEF Placings
      <4> QED  BY <4>1, MovedIs
    <3> QED  BY <2>1, <3>1
  <2>2. CASE n # 0
    BY <1>7, <2>2
  <2> QED  BY <2>1, <2>2
<1>9. Moved(Moved(p, 0, n), 0, 1) = Moved(p, 0, n + 1)
  <2>1. p.x \in Int /\ p.y \in Nat /\ p.x + 0 = p.x /\ p.y + n + 1 = p.y + (n + 1)
    BY <1>7 DEF Placings
  <2> DEFINE q == Moved(p, 0, n)
  <2>2. q = [type |-> p.type, rot |-> p.rot, x |-> p.x, y |-> p.y + n]
    BY <1>7, <2>1, MovedIs
  <2>3. q \in Placings
    BY <1>7, MovedType
  <2> HIDE DEF q
  <2>4. /\ Moved(q, 0, 1) = [type |-> q.type, rot |-> q.rot, x |-> q.x + 0, y |-> q.y + 1]
        /\ Moved(p, 0, n + 1) = [type |-> p.type, rot |-> p.rot, x |-> p.x + 0, y |-> p.y + (n + 1)]
    BY <1>7, <2>3, MovedIs
  <2> QED  BY <2>1, <2>2, <2>4 DEF q
<1> QED  BY <1>7, <1>8, <1>9 DEF n


(***************************************************************************)
(* Games                                                                   *)
(***************************************************************************)
Live(g) ==
  /\ g \in Games /\ g.level >= 1 /\ g.game_over = FALSE
  /\ ~collides(g.board, g.cur)
  /\ g.screen.cells = g.board \cup PieceCells(g.cur)

Lost(g) ==
  /\ g \in Games /\ g.level >= 1 /\ g.game_over = TRUE
  /\ g.cur = spawn(g, g.cur.type).cur /\ collides(g.board, g.cur)
  /\ g.screen.cells = g.board

Status(g) == g.screen.next = g.next_type /\ g.screen.hold = g.hold_type

(* What a move leaves as it was, and what a hold and a new piece do. *)
SameRound(g, h) == h.board = g.board /\ h.lines = g.lines /\ h.level = g.level
SameMove(g, h) ==
  /\ SameRound(g, h)
  /\ h.next_type = g.next_type /\ h.hold_type = g.hold_type /\ h.hold_used = g.hold_used
  /\ h.due = g.due /\ h.screen.next = g.screen.next /\ h.screen.hold = g.screen.hold
  /\ h.bag = g.bag /\ h.bag_pos = g.bag_pos

LEMMA GameFields ==
  ASSUME NEW g \in Games
  PROVE  /\ g.board \in SUBSET Window /\ g.cur \in Pieces /\ g.cur \in Placings /\ g.next_type \in Types
         /\ g.hold_type \in Types \cup {P_NONE} /\ g.hold_used \in BOOLEAN /\ g.lines \in Nat
         /\ g.level \in Nat /\ g.game_over \in BOOLEAN /\ g.bag \in Bags /\ g.bag_pos \in 1..NTypes
         /\ g.due \in 0..SlowestDrop /\ g.screen \in Screens /\ g.screen.cells \in SUBSET Window
BY PiecesArePlacings DEF Games, Screens

(* A picture of the lit cells, and a piece in its new place. *)
LEMMA DrawsCells ==
  ASSUME NEW g \in Games, NEW c \in SUBSET Window
  PROVE  /\ [g EXCEPT !.screen.cells = c] \in Games
         /\ [g EXCEPT !.screen.cells = c].screen = [g.screen EXCEPT !.cells = c]
         /\ [g EXCEPT !.screen.cells = c].screen.cells = c
         /\ SameMove(g, [g EXCEPT !.screen.cells = c])
         /\ [g EXCEPT !.screen.cells = c].cur = g.cur
         /\ [g EXCEPT !.screen.cells = c].game_over = g.game_over
<1> DEFINE s == [g.screen EXCEPT !.cells = c]
           h == [g EXCEPT !.screen.cells = c]
<1>1. h = [g EXCEPT !.screen = s]
  OBVIOUS
<1>2. s \in Screens /\ s.cells = c /\ s.next = g.screen.next /\ s.hold = g.screen.hold
  BY GameFields DEF Screens
<1> HIDE DEF s
<1>3. h \in Games /\ h.screen = s
  BY <1>1, <1>2 DEF Games
<1>4. /\ h.board = g.board /\ h.lines = g.lines /\ h.level = g.level /\ h.next_type = g.next_type
      /\ h.hold_type = g.hold_type /\ h.hold_used = g.hold_used /\ h.due = g.due /\ h.bag = g.bag
      /\ h.bag_pos = g.bag_pos /\ h.cur = g.cur /\ h.game_over = g.game_over
  BY <1>1 DEF Games
<1> HIDE DEF h
<1> QED  BY <1>2, <1>3, <1>4 DEF SameMove, SameRound, s, h

LEMMA PlacedKeeps ==
  ASSUME NEW g, Live(g), NEW p \in Placings, ~collides(g.board, p)
  PROVE  Live(Placed(g, p)) /\ SameMove(g, Placed(g, p)) /\ Placed(g, p).cur = p
<1> DEFINE e == erase_piece(g)
           f == [e EXCEPT !.cur = p]
           h == draw_piece(f)
<1>1. Placed(g, p) = h
  BY DEF Placed
<1>2. /\ g \in Games /\ g.level >= 1 /\ g.game_over = FALSE /\ ~collides(g.board, g.cur)
      /\ g.screen.cells = g.board \cup PieceCells(g.cur)
  BY DEF Live
<1>3. /\ p \in Pieces /\ PieceCells(p) \in SUBSET Window /\ PieceCells(p) \cap g.board = {}
      /\ PieceCells(g.cur) \in SUBSET Window /\ PieceCells(g.cur) \cap g.board = {}
      /\ g.board \in SUBSET Window
  BY <1>2, Fits, GameFields
<1>4. e = [g EXCEPT !.screen.cells = g.screen.cells \ PieceCells(g.cur)]
      /\ g.screen.cells \ PieceCells(g.cur) = g.board
  BY <1>2, <1>3 DEF erase_piece
<1>5. e \in Games /\ e.screen.cells = g.board /\ SameMove(g, e) /\ e.game_over = FALSE
  BY <1>2, <1>3, <1>4, DrawsCells
<1> HIDE DEF e
<1>6. /\ f \in Games /\ f.screen.cells = g.board /\ SameMove(g, f) /\ f.cur = p /\ f.game_over = FALSE
  <2>1. f \in Games /\ f.cur = p
    BY <1>3, <1>5 DEF Games
  <2>2. /\ f.board = e.board /\ f.lines = e.lines /\ f.level = e.level /\ f.next_type = e.next_type
        /\ f.hold_type = e.hold_type /\ f.hold_used = e.hold_used /\ f.due = e.due /\ f.bag = e.bag
        /\ f.bag_pos = e.bag_pos /\ f.screen = e.screen /\ f.game_over = e.game_over
    BY <1>5 DEF Games
  <2> HIDE DEF f
  <2> QED  BY <1>5, <2>1, <2>2 DEF SameMove, SameRound
<1> HIDE DEF f
<1>7. h = [f EXCEPT !.screen.cells = g.board \cup PieceCells(p)]
  <2>1. f.screen.cells \cup (PieceCells(f.cur) \cap Window) = g.board \cup PieceCells(p)
    BY <1>3, <1>6
  <2>2. h = [f EXCEPT !.screen.cells = f.screen.cells \cup (PieceCells(f.cur) \cap Window)]
    BY DEF draw_piece
  <2> QED  BY <2>1, <2>2
<1>8. g.board \cup PieceCells(p) \in SUBSET Window
  BY <1>3
<1>9. /\ h \in Games /\ h.screen.cells = g.board \cup PieceCells(p) /\ SameMove(f, h) /\ h.cur = p
      /\ h.game_over = FALSE
  BY <1>6, <1>7, <1>8, DrawsCells
<1> HIDE DEF h
<1>10. SameMove(g, h)
  BY <1>6, <1>9 DEF SameMove, SameRound
<1>11. h.board = g.board /\ h.level = g.level
  BY <1>10 DEF SameMove, SameRound
<1> QED  BY <1>1, <1>2, <1>9, <1>10, <1>11 DEF Live


LEMMA TriedKeeps ==
  ASSUME NEW g, Live(g), NEW p \in Placings, p.type = g.cur.type
  PROVE  Live(Tried(g, p)) /\ SameMove(g, Tried(g, p)) /\ Tried(g, p).cur.type = g.cur.type
<1>1. CASE collides(g.board, p)
  BY <1>1 DEF Tried, SameMove, SameRound
<1>2. CASE ~collides(g.board, p)
  BY <1>2, PlacedKeeps DEF Tried
<1> QED  BY <1>1, <1>2

LEMMA LiveGame ==
  ASSUME NEW g, Live(g)
  PROVE  g \in Games /\ g.cur \in Placings /\ g.cur.type \in Types
<1>1. g \in Games
  BY DEF Live
<1>2. g.cur \in Placings
  BY <1>1, GameFields
<1> QED  BY <1>1, <1>2 DEF Placings

LEMMA MovesKeep ==
  ASSUME NEW g, Live(g)
  PROVE  /\ \A dx \in {-1, 0, 1} : \A dy \in {0, 1} :
              /\ Live(try_move(g, dx, dy)) /\ SameMove(g, try_move(g, dx, dy))
              /\ try_move(g, dx, dy).cur.type = g.cur.type
         /\ \A dir \in {-1, 1} :
              /\ Live(try_rotate(g, dir)) /\ SameMove(g, try_rotate(g, dir))
              /\ try_rotate(g, dir).cur.type = g.cur.type
<1>1. g.cur \in Placings
  BY LiveGame
<1>2. ASSUME NEW dx \in {-1, 0, 1}, NEW dy \in {0, 1}
      PROVE  /\ Live(try_move(g, dx, dy)) /\ SameMove(g, try_move(g, dx, dy))
             /\ try_move(g, dx, dy).cur.type = g.cur.type
  <2>1. Moved(g.cur, dx, dy) \in Placings /\ Moved(g.cur, dx, dy).type = g.cur.type
    BY <1>1, MovedType
  <2> QED  BY <2>1, TriedKeeps DEF try_move
<1>3. ASSUME NEW dir \in {-1, 1}
      PROVE  /\ Live(try_rotate(g, dir)) /\ SameMove(g, try_rotate(g, dir))
             /\ try_rotate(g, dir).cur.type = g.cur.type
  <2>1. Rotated(g.cur, dir) \in Placings /\ Rotated(g.cur, dir).type = g.cur.type
    BY <1>1, RotatedType
  <2> QED  BY <2>1, TriedKeeps DEF try_rotate
<1> QED  BY <1>2, <1>3

(* A hard drop leaves the piece where it rests. *)
LEMMA HardDropKeeps ==
  ASSUME NEW g, Live(g)
  PROVE  /\ Live(hard_drop(g)) /\ SameMove(g, hard_drop(g)) /\ hard_drop(g).cur.type = g.cur.type
         /\ collides(hard_drop(g).board, Moved(hard_drop(g).cur, 0, 1))
<1> DEFINE p == Moved(g.cur, 0, Drop(g.board, g.cur))
<1>1. g.cur \in Placings /\ ~collides(g.board, g.cur)
  BY LiveGame DEF Live
<1>2. /\ Drop(g.board, g.cur) \in Nat /\ ~collides(g.board, p) /\ collides(g.board, Moved(p, 0, 1))
  BY <1>1, DropRests
<1>3. p \in Placings /\ p.type = g.cur.type
  BY <1>1, <1>2, MovedType
<1>4. hard_drop(g) = Placed(g, p)
  BY DEF hard_drop
<1> HIDE DEF p
<1>5. Live(Placed(g, p)) /\ SameMove(g, Placed(g, p)) /\ Placed(g, p).cur = p
  BY <1>2, <1>3, PlacedKeeps
<1>6. Placed(g, p).board = g.board
  BY <1>5 DEF SameMove, SameRound
<1> QED  BY <1>2, <1>3, <1>4, <1>5, <1>6

(***************************************************************************)
(* The bag                                                                 *)
(***************************************************************************)
LEMMA BagTypes ==
  /\ NTypes \in 2..7 /\ 1 \in 1..NTypes
  /\ \A bag \in Bags : bag \in [1..NTypes -> Types] /\ {bag[i] : i \in 1..NTypes} = Types
BY TetrisAssumption DEF Bags

LEMMA OrderedIsBag == Ordered \in Bags
<1>1. Ordered \in [1..NTypes -> Types]
  BY TetrisAssumption DEF Ordered, Types
<1>2. ASSUME NEW t \in Types
      PROVE  t + 1 \in 1..NTypes /\ Ordered[t + 1] = t
  BY TetrisAssumption DEF Ordered, Types
<1>3. \A t \in Types : \E i \in 1..NTypes : Ordered[i] = t
  BY <1>2
<1> QED  BY <1>1, <1>3 DEF Bags

LEMMA SwapKeeps ==
  ASSUME NEW bag \in Bags, NEW i \in 1..NTypes, NEW j \in 1..NTypes
  PROVE  Swap(bag, i, j) \in Bags
<1>1. bag \in [1..NTypes -> Types] /\ {bag[k] : k \in 1..NTypes} = Types
  BY BagTypes
<1> DEFINE b == Swap(bag, i, j)
<1>2. b \in [1..NTypes -> Types]
  BY <1>1 DEF Swap
<1>3. b[j] = bag[i] /\ b[i] = bag[j] /\ \A k \in (1..NTypes) \ {i, j} : b[k] = bag[k]
  BY <1>1 DEF Swap
<1> HIDE DEF b
<1>4. ASSUME NEW t \in Types
      PROVE  \E k \in 1..NTypes : b[k] = t
  <2>1. PICK k \in 1..NTypes : bag[k] = t
    BY <1>1
  <2> QED  BY <1>3, <2>1
<1>5. {b[k] : k \in 1..NTypes} = Types
  BY <1>2, <1>4
<1>6. b \in Bags
  BY <1>2, <1>5 DEF Bags
<1> QED  BY <1>6 DEF b

(* A shuffle by swaps is the pieces in some order. *)
LEMMA ShufflesAreBags == Shuffles \subseteq Bags
<1>1. SUFFICES ASSUME NEW js \in Draws PROVE Shuffled(js) \in Bags
      BY DEF Shuffles
<1> DEFINE after(bag) ==
             [n \in 0..(NTypes - 1) |->
                IF n = 0 THEN Ordered ELSE Swap(bag[n - 1], NTypes + 1 - n, js[NTypes + 1 - n])]
           a == CHOOSE bag : bag = after(bag)
           g == [is \in Nat \X Bags |->
                   IF is[1] \in 0..(NTypes - 2) THEN Swap(is[2], NTypes - is[1], js[NTypes - is[1]])
                   ELSE is[2]]
<1>2. NTypes \in Nat /\ NTypes >= 2 /\ NTypes - 1 \in Nat
  BY TetrisAssumption
<1>3. ASSUME NEW n \in 0..(NTypes - 2)
      PROVE  NTypes - n \in 1..NTypes /\ js[NTypes - n] \in 1..NTypes
  BY <1>2 DEF Draws
<1>4. g \in StepsOn(Bags)
  <2>1. ASSUME NEW n \in Nat, NEW bag \in Bags
        PROVE  (IF n \in 0..(NTypes - 2) THEN Swap(bag, NTypes - n, js[NTypes - n]) ELSE bag) \in Bags
    BY <1>3, SwapKeeps
  <2> QED  BY <2>1 DEF StepsOn
<1>5. \A n \in 0..(NTypes - 2) : \A bag \in Bags : g[<<n, bag>>] = Swap(bag, NTypes - n, js[NTypes - n])
  OBVIOUS
<1> HIDE DEF g
<1>6. PICK h : h \in Iterates(Bags, Ordered, g, NTypes - 1)
  BY <1>2, <1>4, OrderedIsBag, IteratesExist DEF StepsOn
<1>7. h = after(h) /\ h \in [0..(NTypes - 1) -> Bags]
  <2>1. h \in [0..(NTypes - 1) -> Bags] /\ h[0] = Ordered
    BY <1>6 DEF Iterates
  <2>2. ASSUME NEW n \in 0..(NTypes - 1), n # 0
        PROVE  h[n] = Swap(h[n - 1], NTypes + 1 - n, js[NTypes + 1 - n])
    <3>1. /\ n - 1 \in 0..(NTypes - 2) /\ n - 1 \in 0..(NTypes - 1) /\ n - 1 \in 0..((NTypes - 1) - 1)
          /\ (n - 1) + 1 = n /\ NTypes - (n - 1) = NTypes + 1 - n
      BY <1>2, <2>2
    <3>2. h[n] = g[<<n - 1, h[n - 1]>>]
      BY <1>6, <3>1 DEF Iterates
    <3> QED  BY <1>5, <2>1, <3>1, <3>2
  <2>3. \A n \in 0..(NTypes - 1) : h[n] = after(h)[n]
    BY <2>1, <2>2
  <2> QED  BY <2>1, <2>3
<1>8. a = after(a)
  BY <1>7, Zenon
<1>9. \A n \in 0..(NTypes - 1) :
        a[n] = IF n = 0 THEN Ordered ELSE Swap(a[n - 1], NTypes + 1 - n, js[NTypes + 1 - n])
  BY <1>8, Zenon
<1> DEFINE T == {n \in Nat : n <= NTypes - 1 => a[n] \in Bags}
<1>10. Shuffled(js) = a[NTypes - 1]
  BY DEF Shuffled
<1> HIDE DEF a
<1>11. 0 \in T
  BY <1>2, <1>9, OrderedIsBag
<1>12. ASSUME NEW n \in Nat, n \in T
       PROVE  n + 1 \in T
  <2>1. SUFFICES ASSUME n + 1 <= NTypes - 1 PROVE a[n + 1] \in Bags
        OBVIOUS
  <2>2. /\ n + 1 \in 0..(NTypes - 1) /\ n + 1 # 0 /\ (n + 1) - 1 = n /\ NTypes + 1 - (n + 1) = NTypes - n
        /\ n \in 0..(NTypes - 2)
    BY <1>2, <2>1
  <2>3. a[n] \in Bags
    BY <1>12, <2>1, <1>2
  <2>4. a[n + 1] = Swap(a[n], NTypes - n, js[NTypes - n])
    BY <1>9, <2>2
  <2> QED  BY <1>3, <2>2, <2>3, <2>4, SwapKeeps
<1> HIDE DEF T
<1>13. NTypes - 1 \in T
  BY <1>2, <1>11, <1>12, SetInduction
<1> QED  BY <1>2, <1>10, <1>13 DEF T


(***************************************************************************)
(* Spawning and holding                                                    *)
(***************************************************************************)
Corner(type) == [type |-> type, rot |-> 0, x |-> (BOARD_W - 4) \div 2, y |-> 0]

LEMMA SpawnIs ==
  ASSUME NEW g \in Games, NEW type \in Types
  PROVE  /\ spawn(g, type) \in Games /\ SameMove(g, spawn(g, type))
         /\ spawn(g, type).cur = Corner(type)
         /\ spawn(g, type).screen = g.screen /\ spawn(g, type).game_over = g.game_over
<1>1. Corner(type) \in Pieces
  <2>1. (BOARD_W - 4) \div 2 \in -3..(BOARD_W - 1) /\ 0 \in 0..(BOARD_H - 1)
    BY TetrisAssumption
  <2> QED  BY <2>1 DEF Corner, Pieces
<1>2. spawn(g, type) = [g EXCEPT !.cur = Corner(type)]
  BY DEF spawn, Corner
<1> DEFINE h == [g EXCEPT !.cur = Corner(type)]
<1>3. h \in Games /\ h.cur = Corner(type)
  BY <1>1 DEF Games
<1>4. /\ h.board = g.board /\ h.lines = g.lines /\ h.level = g.level /\ h.next_type = g.next_type
      /\ h.hold_type = g.hold_type /\ h.hold_used = g.hold_used /\ h.due = g.due /\ h.bag = g.bag
      /\ h.bag_pos = g.bag_pos /\ h.screen = g.screen /\ h.game_over = g.game_over
  BY DEF Games
<1> HIDE DEF h
<1>5. SameMove(g, h)
  BY <1>4 DEF SameMove, SameRound
<1>6. spawn(g, type) = h
  BY <1>2 DEF h
<1> QED  BY <1>3, <1>4, <1>5, <1>6

(* What next_piece_type leaves alone. *)
SameDeal(g, h) ==
  /\ SameRound(g, h)
  /\ h.hold_type = g.hold_type /\ h.hold_used = g.hold_used /\ h.due = g.due
  /\ h.cur = g.cur /\ h.game_over = g.game_over /\ h.screen = g.screen

LEMMA DealIs ==
  ASSUME NEW g \in Games, NEW shuffle \in Bags
  PROVE  next_piece_type(g, shuffle) \in Games /\ SameDeal(g, next_piece_type(g, shuffle))
<1>1. g.bag \in [1..NTypes -> Types] /\ shuffle \in [1..NTypes -> Types] /\ g.bag_pos \in 1..NTypes
      /\ NTypes \in 2..7
  BY GameFields, BagTypes
<1> DEFINE Dealt(bag, pos, type) ==
             [[[g EXCEPT !.bag = bag] EXCEPT !.bag_pos = pos] EXCEPT !.next_type = type]
<1>2. ASSUME NEW bag \in Bags, NEW pos \in 1..NTypes, NEW type \in Types
      PROVE  Dealt(bag, pos, type) \in Games /\ SameDeal(g, Dealt(bag, pos, type))
  <2> DEFINE a == [g EXCEPT !.bag = bag]
             b == [a EXCEPT !.bag_pos = pos]
             c == [b EXCEPT !.next_type = type]
  <2>1. a \in Games /\ SameDeal(g, a)
    BY DEF Games, SameDeal, SameRound
  <2> HIDE DEF a
  <2>2. b \in Games /\ SameDeal(a, b)
    BY <2>1 DEF Games, SameDeal, SameRound
  <2> HIDE DEF b
  <2>3. c \in Games /\ SameDeal(b, c)
    BY <2>2 DEF Games, SameDeal, SameRound
  <2> HIDE DEF c
  <2>4. c \in Games /\ SameDeal(g, c)
    BY <2>1, <2>2, <2>3 DEF SameDeal, SameRound
  <2> QED  BY <2>4 DEF a, b, c
<1>3. CASE g.bag_pos >= NTypes
  <2>1. shuffle[1] \in Types /\ 1 \in 1..NTypes
    BY <1>1
  <2>2. next_piece_type(g, shuffle) = Dealt(shuffle, 1, shuffle[1])
    BY <1>3 DEF next_piece_type
  <2> HIDE DEF Dealt
  <2> QED  BY <1>2, <2>1, <2>2
<1>4. CASE ~(g.bag_pos >= NTypes)
  <2>1. g.bag_pos + 1 \in 1..NTypes /\ g.bag[g.bag_pos + 1] \in Types /\ g.bag \in Bags
    BY <1>1, <1>4, GameFields
  <2>2. [g EXCEPT !.bag = g.bag] = g
    BY DEF Games
  <2>3. next_piece_type(g, shuffle) = Dealt(g.bag, g.bag_pos + 1, g.bag[g.bag_pos + 1])
    BY <1>4, <2>2 DEF next_piece_type
  <2> HIDE DEF Dealt
  <2> QED  BY <1>2, <2>1, <2>3
<1> QED  BY <1>3, <1>4

(* A game whose new piece is in its corner and not drawn yet. *)
Spawned(g) ==
  /\ g \in Games /\ g.level >= 1 /\ g.game_over = FALSE
  /\ g.cur = Corner(g.cur.type) /\ g.screen.cells = g.board

LEMMA ShownIs ==
  ASSUME NEW g, Spawned(g)
  PROVE  (Live(Shown(g)) \/ Lost(Shown(g))) /\ SameMove(g, Shown(g))
<1>1. g \in Games /\ g.cur \in Placings /\ g.board \in SUBSET Window /\ g.cur.type \in Types
  BY GameFields DEF Spawned, Placings
<1>2. CASE collides(g.board, g.cur)
  <2> DEFINE h == [g EXCEPT !.game_over = TRUE]
  <2>1. h \in Games /\ h.game_over = TRUE /\ h.cur = g.cur /\ SameMove(g, h) /\ h.screen = g.screen
    BY <1>1 DEF Games, SameMove, SameRound
  <2>2. Shown(g) = h
    BY <1>2 DEF Shown
  <2> HIDE DEF h
  <2>3. h.board = g.board /\ h.level = g.level
    BY <2>1 DEF SameMove, SameRound
  <2>4. spawn(h, h.cur.type).cur = Corner(h.cur.type)
    BY <1>1, <2>1, SpawnIs
  <2> QED  BY <1>2, <2>1, <2>2, <2>3, <2>4 DEF Spawned, Lost
<1>3. CASE ~collides(g.board, g.cur)
  <2>1. PieceCells(g.cur) \in SUBSET Window
    BY <1>1, <1>3, Fits
  <2> DEFINE c == g.board \cup PieceCells(g.cur)
             h == [g EXCEPT !.screen.cells = c]
  <2>2. g.screen.cells \cup (PieceCells(g.cur) \cap Window) = c /\ c \in SUBSET Window
    BY <1>1, <2>1 DEF Spawned
  <2>3. Shown(g) = h
    BY <1>3, <2>2 DEF Shown, draw_piece
  <2> HIDE DEF c
  <2>4. h \in Games /\ h.screen.cells = c /\ SameMove(g, h) /\ h.cur = g.cur /\ h.game_over = g.game_over
    BY <1>1, <2>2, DrawsCells
  <2> HIDE DEF h
  <2>5. h.board = g.board /\ h.level = g.level
    BY <2>4 DEF SameMove, SameRound
  <2> QED  BY <1>3, <2>3, <2>4, <2>5 DEF Spawned, Live, c
<1> QED  BY <1>2, <1>3

(* A board drawn without the falling piece. *)
Bare(g) == g \in Games /\ g.level >= 1 /\ g.game_over = FALSE /\ g.screen.cells = g.board

LEMMA SpawnNextIs ==
  ASSUME NEW g, Bare(g), NEW shuffle \in Bags
  PROVE  /\ Live(spawn_next(g, shuffle)) \/ Lost(spawn_next(g, shuffle))
         /\ SameRound(g, spawn_next(g, shuffle))
<1> DEFINE a == spawn(g, g.next_type)
           b == next_piece_type(a, shuffle)
           c == [b EXCEPT !.hold_used = FALSE]
<1>1. g.next_type \in Types /\ g \in Games
  BY GameFields DEF Bare
<1>2. /\ a \in Games /\ SameMove(g, a) /\ a.cur = Corner(g.next_type) /\ a.screen = g.screen
      /\ a.game_over = g.game_over
  BY <1>1, SpawnIs
<1> HIDE DEF a
<1>3. b \in Games /\ SameDeal(a, b)
  BY <1>2, DealIs
<1> HIDE DEF b
<1>4. /\ c \in Games /\ SameRound(b, c) /\ c.cur = b.cur /\ c.screen = b.screen
      /\ c.game_over = b.game_over
  BY <1>3 DEF Games, SameRound
<1>5. spawn_next(g, shuffle) = Shown(c)
  BY DEF spawn_next, a, b
<1> HIDE DEF c
<1>6. SameRound(g, c) /\ c.cur = Corner(g.next_type) /\ c.screen = g.screen /\ c.game_over = g.game_over
  BY <1>2, <1>3, <1>4 DEF SameMove, SameDeal, SameRound
<1>7. c.cur.type = g.next_type
  BY <1>6 DEF Corner
<1>8. Spawned(c)
  BY <1>4, <1>6, <1>7 DEF Spawned, Bare, SameRound
<1>9. (Live(Shown(c)) \/ Lost(Shown(c))) /\ SameRound(c, Shown(c))
  BY <1>8, ShownIs DEF SameMove
<1>10. SameRound(g, Shown(c))
  BY <1>6, <1>9 DEF SameRound
<1> QED  BY <1>5, <1>9, <1>10

(* A hold puts the held or the next piece in the corner, and may lose. *)
LEMMA HoldIs ==
  ASSUME NEW g, Live(g), NEW shuffle \in Bags
  PROVE  /\ Live(try_hold(g, shuffle)) \/ Lost(try_hold(g, shuffle))
         /\ SameRound(g, try_hold(g, shuffle))
<1>1. CASE g.hold_used
  BY <1>1 DEF try_hold, SameRound
<1>2. CASE ~g.hold_used
  <2> DEFINE e == erase_piece(g)
             h == IF g.hold_type = P_NONE THEN next_piece_type(spawn(e, g.next_type), shuffle)
                  ELSE spawn(e, g.hold_type)
             i == [h EXCEPT !.hold_type = g.cur.type]
             j == [i EXCEPT !.hold_used = TRUE]
  <2>1. /\ g \in Games /\ g.cur \in Placings /\ g.cur.type \in Types /\ g.board \in SUBSET Window
        /\ g.next_type \in Types /\ g.hold_type \in Types \cup {P_NONE} /\ ~collides(g.board, g.cur)
        /\ g.level >= 1 /\ g.game_over = FALSE /\ g.screen.cells = g.board \cup PieceCells(g.cur)
    BY LiveGame, GameFields DEF Live
  <2>2. try_hold(g, shuffle) = Shown(j)
    BY <1>2 DEF try_hold
  <2>3. g.screen.cells \ PieceCells(g.cur) = g.board
    BY <2>1, Fits
  <2>4. e = [g EXCEPT !.screen.cells = g.board]
    BY <2>3 DEF erase_piece
  <2>5. e \in Games /\ e.screen.cells = g.board /\ SameRound(g, e) /\ e.game_over = FALSE
    BY <2>1, <2>4, DrawsCells DEF SameMove
  <2> HIDE DEF e
  <2>6. ASSUME NEW type \in Types
        PROVE  /\ spawn(e, type) \in Games /\ SameRound(g, spawn(e, type))
               /\ spawn(e, type).cur = Corner(type)
               /\ spawn(e, type).screen = e.screen /\ spawn(e, type).game_over = FALSE
    BY <2>5, SpawnIs DEF SameMove, SameRound
  <2>7. \E type \in Types : h.cur = Corner(type)
        /\ h \in Games /\ SameRound(g, h) /\ h.screen = e.screen /\ h.game_over = FALSE
    <3>1. CASE g.hold_type = P_NONE
      <4> DEFINE s == spawn(e, g.next_type)
      <4>1. /\ s \in Games /\ SameRound(g, s) /\ s.cur = Corner(g.next_type)
            /\ s.screen = e.screen /\ s.game_over = FALSE
        BY <2>1, <2>6
      <4>2. h = next_piece_type(s, shuffle)
        BY <3>1
      <4> HIDE DEF s, h
      <4>3. h \in Games /\ SameDeal(s, h)
        BY <4>1, <4>2, DealIs
      <4> QED  BY <2>1, <4>1, <4>3 DEF SameDeal, SameRound
    <3>2. CASE g.hold_type # P_NONE
      <4>1. g.hold_type \in Types /\ h = spawn(e, g.hold_type)
        BY <2>1, <3>2
      <4> HIDE DEF h
      <4> QED  BY <2>6, <4>1
    <3> QED  BY <3>1, <3>2
  <2> HIDE DEF h
  <2>8. i \in Games /\ SameRound(h, i) /\ i.cur = h.cur /\ i.screen = h.screen /\ i.game_over = h.game_over
    BY <2>1, <2>7 DEF Games, SameRound
  <2> HIDE DEF i
  <2>9. j \in Games /\ SameRound(i, j) /\ j.cur = i.cur /\ j.screen = i.screen /\ j.game_over = i.game_over
    BY <2>8 DEF Games, SameRound
  <2> HIDE DEF j
  <2>10. SameRound(g, j) /\ j.screen = e.screen /\ j.game_over = FALSE
    BY <2>7, <2>8, <2>9 DEF SameRound
  <2>11. j.cur = Corner(j.cur.type)
    BY <2>7, <2>8, <2>9 DEF Corner
  <2>12. Spawned(j)
    BY <2>1, <2>5, <2>9, <2>10, <2>11 DEF Spawned, SameRound
  <2>13. (Live(Shown(j)) \/ Lost(Shown(j))) /\ SameRound(j, Shown(j))
    BY <2>12, ShownIs DEF SameMove
  <2> QED  BY <2>2, <2>10, <2>13 DEF SameRound
<1> QED  BY <1>1, <1>2


(***************************************************************************)
(* Clearing lines                                                          *)
(***************************************************************************)
FullRows(board) == {r \in 0..(BOARD_H - 1) : RowFull(board, r)}
Below(F, i) == Cardinality({r \in F : r > i})
Collapsed(board) ==
  {<<cell[1] + Below(FullRows(board), cell[1]), cell[2]>> :
     cell \in {x \in board : x[1] \notin FullRows(board)}}

LEMMA RowsFinite ==
  ASSUME NEW F \in SUBSET (0..(BOARD_H - 1))
  PROVE  IsFiniteSet(F) /\ Cardinality(F) \in Nat /\ Cardinality(F) <= BOARD_H
<1>1. BOARD_H \in Nat /\ 0 \in Int /\ BOARD_H - 1 \in Int /\ 0 <= BOARD_H - 1
  BY TetrisAssumption
<1>2. IsFiniteSet(0..(BOARD_H - 1)) /\ Cardinality(0..(BOARD_H - 1)) = BOARD_H
  BY <1>1, FS_Interval
<1> QED  BY <1>2, FS_Subset, FS_CardinalityType

LEMMA BelowSplits ==
  ASSUME NEW F \in SUBSET (0..(BOARD_H - 1)), NEW i \in Int, NEW k \in Int, i <= k
  PROVE  /\ Below(F, i) \in Nat /\ Below(F, k) \in Nat
         /\ Below(F, i) = Below(F, k) + Cardinality({r \in F : i < r /\ r <= k})
<1> DEFINE A == {r \in F : r > i}
           B == {r \in F : r > k}
           M == {r \in F : i < r /\ r <= k}
<1>1. IsFiniteSet(A) /\ IsFiniteSet(B) /\ IsFiniteSet(M)
  <2>1. A \in SUBSET (0..(BOARD_H - 1)) /\ B \in SUBSET (0..(BOARD_H - 1)) /\ M \in SUBSET (0..(BOARD_H - 1))
    OBVIOUS
  <2> HIDE DEF A, B, M
  <2> QED  BY <2>1, RowsFinite
<1>2. A = B \cup M /\ B \cap M = {}
  <2>1. \A r \in F : r \in Int
    BY TetrisAssumption
  <2>2. \A r \in F : (r > i <=> r > k \/ (i < r /\ r <= k)) /\ ~(r > k /\ r <= k)
    BY <2>1
  <2> QED  BY <2>2
<1>3. Below(F, i) = Cardinality(A) /\ Below(F, k) = Cardinality(B)
  BY DEF Below
<1> HIDE DEF A, B, M
<1>4. Cardinality(A) = Cardinality(B) + Cardinality(M) - Cardinality(B \cap M)
  BY <1>1, <1>2, FS_Union
<1>5. Cardinality(B \cap M) = 0 /\ Cardinality(B) \in Nat /\ Cardinality(M) \in Nat /\ Cardinality(A) \in Nat
  BY <1>1, <1>2, FS_EmptySet, FS_CardinalityType
<1> QED  BY <1>3, <1>4, <1>5 DEF M

(* The row above is one lower after a full row. *)
LEMMA BelowStep ==
  ASSUME NEW F \in SUBSET (0..(BOARD_H - 1)), NEW o \in Int
  PROVE  Below(F, o - 1) = IF o \in F THEN Below(F, o) + 1 ELSE Below(F, o)
<1> DEFINE M == {r \in F : o - 1 < r /\ r <= o}
<1>1. o - 1 \in Int /\ o - 1 <= o
  OBVIOUS
<1>2. Below(F, o) \in Nat /\ Below(F, o - 1) = Below(F, o) + Cardinality(M)
  BY <1>1, BelowSplits
<1>3. CASE o \in F
  <2>1. M = {o}
    <3>1. \A r \in F : r \in Int
      BY TetrisAssumption
    <3>2. \A r \in F : (o - 1 < r /\ r <= o) <=> r = o
      BY <3>1
    <3> QED  BY <1>3, <3>2
  <2>2. Cardinality({o}) = 1
    BY FS_Singleton
  <2> HIDE DEF M
  <2> QED  BY <1>2, <1>3, <2>1, <2>2
<1>4. CASE o \notin F
  <2>1. M = {}
    <3>1. \A r \in F : r \in Int
      BY TetrisAssumption
    <3>2. \A r \in F : (o - 1 < r /\ r <= o) <=> r = o
      BY <3>1
    <3> QED  BY <1>4, <3>2
  <2>2. Cardinality({}) = 0
    BY FS_EmptySet
  <2> HIDE DEF M
  <2> QED  BY <1>2, <1>4, <2>1, <2>2
<1> QED  BY <1>3, <1>4

(* Rows that stay keep their order. *)
LEMMA LandingOrder ==
  ASSUME NEW F \in SUBSET (0..(BOARD_H - 1)), NEW o \in Int, NEW k \in Int, o < k, k \notin F
  PROVE  o + Below(F, o) < k + Below(F, k)
<1> DEFINE M == {r \in F : o < r /\ r <= k}
<1>1. /\ Below(F, o) \in Nat /\ Below(F, k) \in Nat /\ Below(F, o) = Below(F, k) + Cardinality(M)
  BY BelowSplits
<1>2. M \subseteq (o + 1)..(k - 1)
  <2>1. \A r \in F : r \in Int /\ r # k
    BY TetrisAssumption
  <2>2. \A r \in F : o < r /\ r <= k => r \in (o + 1)..(k - 1)
    BY <2>1
  <2> QED  BY <2>2
<1> HIDE DEF M
<1>3. IsFiniteSet((o + 1)..(k - 1)) /\ Cardinality((o + 1)..(k - 1)) = k - 1 - o
  <2>1. o + 1 \in Int /\ k - 1 \in Int
    OBVIOUS
  <2>2. IsFiniteSet((o + 1)..(k - 1))
        /\ Cardinality((o + 1)..(k - 1)) = IF o + 1 > k - 1 THEN 0 ELSE (k - 1) - (o + 1) + 1
    BY <2>1, FS_Interval
  <2> QED  BY <2>2
<1>4. Cardinality(M) <= k - 1 - o /\ Cardinality(M) \in Nat
  BY <1>2, <1>3, FS_Subset, FS_CardinalityType
<1> QED  BY <1>1, <1>4

Sweeps == [board : SUBSET Window, r : -1..(BOARD_H - 1), cleared : Nat]

(* A cell of row i that was in row k of the first board. *)
CameFrom(first, i, c, k) ==
  /\ k \notin FullRows(first) /\ k + Below(FullRows(first), k) = i /\ <<k, c>> \in first

(* The loop after n rounds: the rows up to r are the first board's, moved down
   by what was cleared, the rows below are final. *)
SweptTo(first, n, s) ==
  LET o == s.r - s.cleared
  IN  /\ s \in Sweeps
      /\ s.r = -1 \/ o = BOARD_H - 1 - n
      /\ s.cleared = Below(FullRows(first), o)
      /\ \A i \in 0..s.r : \A c \in 0..(BOARD_W - 1) :
           <<i, c>> \in s.board <=> <<i - s.cleared, c>> \in first
      /\ \A i \in (s.r + 1)..(BOARD_H - 1) : \A c \in 0..(BOARD_W - 1) :
           <<i, c>> \in s.board <=> \E k \in (o + 1)..(BOARD_H - 1) : CameFrom(first, i, c, k)

LEMMA WindowCells ==
  ASSUME NEW b \in SUBSET Window, NEW i, NEW c, <<i, c>> \in b
  PROVE  i \in 0..(BOARD_H - 1) /\ c \in 0..(BOARD_W - 1)
BY DEF Window

LEMMA RemovedCells ==
  ASSUME NEW b \in SUBSET Window, NEW r \in 0..(BOARD_H - 1)
  PROVE  /\ RowRemoved(b, r) \in SUBSET Window
         /\ \A i \in 0..(BOARD_H - 1) : \A c \in 0..(BOARD_W - 1) :
              <<i, c>> \in RowRemoved(b, r) <=>
                IF i > r THEN <<i, c>> \in b ELSE i > 0 /\ <<i - 1, c>> \in b
<1> DEFINE A == {cell \in b : cell[1] > r}
           B == {x \in b : x[1] < r}
           D == {<<cell[1] + 1, cell[2]>> : cell \in B}
<1>1. RowRemoved(b, r) = A \cup D
  BY DEF RowRemoved
<1>2. BOARD_H \in Nat
  BY TetrisAssumption
<1>3. \A cell \in b : cell[1] \in 0..(BOARD_H - 1) /\ cell[2] \in 0..(BOARD_W - 1) /\ cell = <<cell[1], cell[2]>>
  BY DEF Window
<1>4. ASSUME NEW cell \in B
      PROVE  <<cell[1] + 1, cell[2]>> \in Window
  <2>1. cell[1] + 1 \in 0..(BOARD_H - 1) /\ cell[2] \in 0..(BOARD_W - 1)
    BY <1>2, <1>3
  <2> QED  BY <2>1 DEF Window
<1>5. RowRemoved(b, r) \in SUBSET Window
  BY <1>1, <1>4
<1>6. ASSUME NEW i \in 0..(BOARD_H - 1), NEW c \in 0..(BOARD_W - 1)
      PROVE  /\ <<i, c>> \in A <=> i > r /\ <<i, c>> \in b
             /\ <<i, c>> \in D <=> i <= r /\ i > 0 /\ <<i - 1, c>> \in b
  <2>1. <<i, c>>[1] = i /\ <<i, c>>[2] = c /\ <<i - 1, c>>[1] = i - 1 /\ <<i - 1, c>>[2] = c
    OBVIOUS
  <2>2. <<i, c>> \in A <=> i > r /\ <<i, c>> \in b
    BY <2>1
  <2>3. ASSUME <<i, c>> \in D
        PROVE  i <= r /\ i > 0 /\ <<i - 1, c>> \in b
    <3>1. PICK cell \in B : <<i, c>> = <<cell[1] + 1, cell[2]>>
      BY <2>3
    <3>2. i = cell[1] + 1 /\ c = cell[2]
      BY <3>1
    <3>3. cell \in b /\ cell[1] < r /\ cell[1] \in Nat /\ cell = <<cell[1], cell[2]>>
      BY <1>2, <1>3
    <3>4. cell[1] = i - 1
      BY <3>2, <3>3
    <3> QED  BY <3>2, <3>3, <3>4
  <2>4. ASSUME i <= r, i > 0, <<i - 1, c>> \in b
        PROVE  <<i, c>> \in D
    <3>1. <<i - 1, c>> \in B
      BY <2>1, <2>4
    <3>2. <<i, c>> = <<<<i - 1, c>>[1] + 1, <<i - 1, c>>[2]>>
      BY <2>1
    <3> HIDE DEF B
    <3> QED  BY <3>1, <3>2
  <2> QED  BY <2>2, <2>3, <2>4
<1> HIDE DEF A, D
<1>7. ASSUME NEW i \in 0..(BOARD_H - 1), NEW c \in 0..(BOARD_W - 1)
      PROVE  <<i, c>> \in RowRemoved(b, r) <=>
                IF i > r THEN <<i, c>> \in b ELSE i > 0 /\ <<i - 1, c>> \in b
  BY <1>1, <1>2, <1>6
<1> QED  BY <1>5, <1>7


LEMMA SweepType ==
  ASSUME NEW s \in Sweeps
  PROVE  Sweep(s) \in Sweeps
<1>1. s.board \in SUBSET Window /\ s.r \in -1..(BOARD_H - 1) /\ s.cleared \in Nat /\ BOARD_H \in Nat
  BY TetrisAssumption DEF Sweeps
<1>2. CASE s.r < 0
  BY <1>2 DEF Sweep
<1>3. CASE ~(s.r < 0) /\ RowFull(s.board, s.r)
  <2>1. s.r \in 0..(BOARD_H - 1)
    BY <1>1, <1>3
  <2>2. RowRemoved(s.board, s.r) \in SUBSET Window
    BY <1>1, <2>1, RemovedCells
  <2>3. s.cleared + 1 \in Nat
    BY <1>1
  <2>4. [board |-> RowRemoved(s.board, s.r), r |-> s.r, cleared |-> s.cleared + 1] \in Sweeps
    BY <1>1, <2>2, <2>3 DEF Sweeps
  <2> QED  BY <1>3, <2>4 DEF Sweep
<1>4. CASE ~(s.r < 0) /\ ~RowFull(s.board, s.r)
  <2>1. s.r - 1 \in -1..(BOARD_H - 1)
    BY <1>1, <1>4
  <2>2. [s EXCEPT !.r = s.r - 1] \in Sweeps
    BY <2>1 DEF Sweeps
  <2> QED  BY <1>4, <2>2 DEF Sweep
<1> QED  BY <1>2, <1>3, <1>4

LEMMA SweptStep ==
  ASSUME NEW first \in SUBSET Window, NEW n \in Nat, NEW s, SweptTo(first, n, s)
  PROVE  SweptTo(first, n + 1, Sweep(s))
<1> DEFINE F == FullRows(first)
           o == s.r - s.cleared
           t == Sweep(s)
           Final(i, c, low) == \E k \in low..(BOARD_H - 1) : CameFrom(first, i, c, k)
<1>1. /\ s \in Sweeps
      /\ s.r = -1 \/ o = BOARD_H - 1 - n
      /\ s.cleared = Below(F, o)
      /\ \A i \in 0..s.r : \A c \in 0..(BOARD_W - 1) :
           <<i, c>> \in s.board <=> <<i - s.cleared, c>> \in first
      /\ \A i \in (s.r + 1)..(BOARD_H - 1) : \A c \in 0..(BOARD_W - 1) :
           <<i, c>> \in s.board <=> Final(i, c, o + 1)
  BY DEF SweptTo
<1>2. /\ s.board \in SUBSET Window /\ s.r \in -1..(BOARD_H - 1) /\ s.cleared \in Nat
      /\ BOARD_H \in Nat /\ BOARD_W \in Nat /\ BOARD_W >= 4
  BY <1>1, TetrisAssumption DEF Sweeps
<1>3. F \in SUBSET (0..(BOARD_H - 1)) /\ o \in Int
  BY <1>2 DEF FullRows
<1>4. t \in Sweeps
  BY <1>1, SweepType
<1>5. Below(F, o - 1) = IF o \in F THEN Below(F, o) + 1 ELSE Below(F, o)
  BY <1>3, BelowStep
<1>6. CASE s.r < 0
  <2>1. t = s /\ s.r = -1
    BY <1>2, <1>6 DEF Sweep
  <2> QED  BY <1>1, <2>1 DEF SweptTo
<1>7. ASSUME s.r >= 0
      PROVE  RowFull(s.board, s.r) <=> o \in F
  <2>1. s.r \in 0..s.r /\ s.r - s.cleared = o
    BY <1>2, <1>7
  <2>2. \A c \in 0..(BOARD_W - 1) : <<s.r, c>> \in s.board <=> <<o, c>> \in first
    BY <1>1, <2>1
  <2>3. RowFull(s.board, s.r) <=> RowFull(first, o)
    BY <2>2 DEF RowFull
  <2>4. RowFull(first, o) => o \in 0..(BOARD_H - 1)
    <3>1. 0 \in 0..(BOARD_W - 1)
      BY <1>2
    <3> QED  BY <3>1, WindowCells DEF RowFull
  <2> QED  BY <2>3, <2>4 DEF FullRows
<1>8. CASE s.r >= 0 /\ o \in F
  <2>1. /\ t.board = RowRemoved(s.board, s.r) /\ t.r = s.r /\ t.cleared = s.cleared + 1
        /\ t.r - t.cleared = o - 1
    BY <1>2, <1>7, <1>8 DEF Sweep
  <2>2. /\ RowRemoved(s.board, s.r) \in SUBSET Window
        /\ \A i \in 0..(BOARD_H - 1) : \A c \in 0..(BOARD_W - 1) :
             <<i, c>> \in RowRemoved(s.board, s.r) <=>
               IF i > s.r THEN <<i, c>> \in s.board ELSE i > 0 /\ <<i - 1, c>> \in s.board
    <3>1. s.r \in 0..(BOARD_H - 1) /\ s.board \in SUBSET Window
      BY <1>2, <1>8
    <3> QED  BY <3>1, RemovedCells
  <2>3. t.r = -1 \/ t.r - t.cleared = BOARD_H - 1 - (n + 1)
    BY <1>1, <1>2, <1>3, <1>8, <2>1
  <2>4. t.cleared = Below(F, t.r - t.cleared)
    BY <1>1, <1>5, <1>8, <2>1
  <2>5. ASSUME NEW i \in 0..t.r, NEW c \in 0..(BOARD_W - 1)
        PROVE  <<i, c>> \in t.board <=> <<i - t.cleared, c>> \in first
    <3>1. i \in 0..(BOARD_H - 1) /\ ~(i > s.r) /\ i \in Nat
      BY <1>2, <1>8, <2>1
    <3>2. <<i, c>> \in t.board <=> i > 0 /\ <<i - 1, c>> \in s.board
      BY <2>1, <2>2, <3>1
    <3>3. CASE i > 0
      <4>1. i - 1 \in 0..s.r /\ i - 1 - s.cleared = i - t.cleared
        BY <1>2, <2>1, <3>1, <3>3
      <4>2. <<i - 1, c>> \in s.board <=> <<i - 1 - s.cleared, c>> \in first
        BY <1>1, <4>1
      <4> QED  BY <3>2, <3>3, <4>1, <4>2
    <3>4. CASE i = 0
      <4>1. i - t.cleared \notin 0..(BOARD_H - 1)
        BY <1>2, <2>1, <3>4
      <4> QED  BY <3>2, <3>4, <4>1, WindowCells
    <3> QED  BY <3>1, <3>3, <3>4
  <2>6. ASSUME NEW i \in (t.r + 1)..(BOARD_H - 1), NEW c \in 0..(BOARD_W - 1)
        PROVE  <<i, c>> \in t.board <=> Final(i, c, (t.r - t.cleared) + 1)
    <3>1. i \in 0..(BOARD_H - 1) /\ i > s.r /\ i \in (s.r + 1)..(BOARD_H - 1)
      BY <1>2, <1>8, <2>1
    <3>2. <<i, c>> \in t.board <=> Final(i, c, o + 1)
      BY <1>1, <2>1, <2>2, <3>1
    <3>3. Final(i, c, o) <=> Final(i, c, o + 1)
      <4>1. \A k \in Int : k >= o <=> k >= o + 1 \/ k = o
        BY <1>3
      <4>2. ~CameFrom(first, i, c, o)
        BY <1>8 DEF CameFrom
      <4>3. \A k \in o..(BOARD_H - 1) : k \in (o + 1)..(BOARD_H - 1) \/ k = o
        BY <1>2, <1>3
      <4>4. \A k \in (o + 1)..(BOARD_H - 1) : k \in o..(BOARD_H - 1)
        BY <1>2, <1>3
      <4> QED  BY <4>2, <4>3, <4>4
    <3>4. (t.r - t.cleared) + 1 = o
      BY <1>3, <2>1
    <3> QED  BY <3>2, <3>3, <3>4
  <2> QED  BY <1>4, <2>3, <2>4, <2>5, <2>6 DEF SweptTo
<1>9. CASE s.r >= 0 /\ o \notin F
  <2>1. t.board = s.board /\ t.r = s.r - 1 /\ t.cleared = s.cleared /\ t.r - t.cleared = o - 1
    <3>1. t = [s EXCEPT !.r = s.r - 1]
      BY <1>2, <1>7, <1>9 DEF Sweep
    <3>2. t.board = s.board /\ t.r = s.r - 1 /\ t.cleared = s.cleared
      BY <1>1, <3>1 DEF Sweeps
    <3> QED  BY <1>2, <3>2
  <2>2. t.r = -1 \/ t.r - t.cleared = BOARD_H - 1 - (n + 1)
    BY <1>1, <1>2, <1>3, <1>9, <2>1
  <2>3. t.cleared = Below(F, t.r - t.cleared)
    BY <1>1, <1>5, <1>9, <2>1
  <2>4. ASSUME NEW i \in 0..t.r, NEW c \in 0..(BOARD_W - 1)
        PROVE  <<i, c>> \in t.board <=> <<i - t.cleared, c>> \in first
    <3>1. i \in 0..s.r
      BY <1>2, <2>1
    <3> QED  BY <1>1, <2>1, <3>1
  <2>5. ASSUME NEW i \in (t.r + 1)..(BOARD_H - 1), NEW c \in 0..(BOARD_W - 1)
        PROVE  <<i, c>> \in t.board <=> Final(i, c, (t.r - t.cleared) + 1)
    <3>1. (t.r - t.cleared) + 1 = o /\ o + Below(F, o) = s.r
      BY <1>1, <1>2, <1>3, <2>1
    <3>2. \A k \in o..(BOARD_H - 1) : k \in (o + 1)..(BOARD_H - 1) \/ k = o
      BY <1>2, <1>3
    <3>3. \A k \in (o + 1)..(BOARD_H - 1) : k \in o..(BOARD_H - 1)
      BY <1>2, <1>3
    <3>4. CASE i = s.r
      <4>1. i \in 0..s.r /\ i - s.cleared = o
        BY <1>2, <1>9, <3>4
      <4>2. <<i, c>> \in t.board <=> <<o, c>> \in first
        BY <1>1, <2>1, <4>1
      <4>3. ASSUME <<o, c>> \in first
            PROVE  Final(i, c, o)
        <5>1. o \in 0..(BOARD_H - 1)
          BY <4>3, WindowCells
        <5>2. o \in o..(BOARD_H - 1)
          BY <1>2, <5>1
        <5>3. CameFrom(first, i, c, o)
          BY <1>9, <3>1, <3>4, <4>3 DEF CameFrom
        <5> QED  BY <5>2, <5>3
      <4>4. ASSUME Final(i, c, o)
            PROVE  <<o, c>> \in first
        <5>1. PICK k \in o..(BOARD_H - 1) : CameFrom(first, i, c, k)
          BY <4>4
        <5>2. CASE k = o
          BY <5>1, <5>2 DEF CameFrom
        <5>3. CASE k # o
          <6>1. k \in Int /\ o < k /\ k \notin F /\ k + Below(F, k) = i
            BY <1>2, <1>3, <5>1, <5>3 DEF CameFrom
          <6>2. o + Below(F, o) < k + Below(F, k)
            BY <1>3, <6>1, LandingOrder
          <6> QED  BY <1>2, <3>1, <3>4, <6>1, <6>2
        <5> QED  BY <5>2, <5>3
      <4> QED  BY <3>1, <4>2, <4>3, <4>4
    <3>5. CASE i # s.r
      <4>1. i \in (s.r + 1)..(BOARD_H - 1)
        BY <1>2, <1>9, <2>1, <3>5
      <4>2. <<i, c>> \in t.board <=> Final(i, c, o + 1)
        BY <1>1, <2>1, <4>1
      <4>3. ~CameFrom(first, i, c, o)
        BY <3>1, <3>5 DEF CameFrom
      <4>4. Final(i, c, o) <=> Final(i, c, o + 1)
        BY <3>2, <3>3, <4>3
      <4> QED  BY <3>1, <4>2, <4>4
    <3> QED  BY <3>4, <3>5
  <2> QED  BY <1>4, <2>2, <2>3, <2>4, <2>5 DEF SweptTo
<1> QED  BY <1>2, <1>6, <1>8, <1>9


(* clear_lines counts the full rows, takes them out and moves each row that
   stays down by the number of full rows below it. *)
LEMMA ClearsRows ==
  ASSUME NEW first \in SUBSET Window
  PROVE  /\ clear_lines(first).cleared = Cardinality(FullRows(first))
         /\ clear_lines(first).board = Collapsed(first)
         /\ clear_lines(first).board \in SUBSET Window /\ clear_lines(first).cleared \in Nat
<1> DEFINE start == [board |-> first, r |-> BOARD_H - 1, cleared |-> 0]
           after(h) == [n \in 0..(2 * BOARD_H) |-> IF n = 0 THEN start ELSE Sweep(h[n - 1])]
           a == CHOOSE h : h = after(h)
           g == [is \in Nat \X Sweeps |-> Sweep(is[2])]
           F == FullRows(first)
<1>1. BOARD_H \in Nat \ {0} /\ BOARD_W \in Nat \ {0} /\ 2 * BOARD_H \in Nat
  BY TetrisAssumption
<1>2. start \in Sweeps
  BY <1>1 DEF Sweeps
<1>3. F \in SUBSET (0..(BOARD_H - 1))
  BY DEF FullRows
<1>4. g \in StepsOn(Sweeps)
  BY SweepType DEF StepsOn
<1>5. \A n \in Nat : \A s \in Sweeps : g[<<n, s>>] = Sweep(s)
  OBVIOUS
<1> HIDE DEF g, start
<1>6. PICK h : h \in Iterates(Sweeps, start, g, 2 * BOARD_H)
  BY <1>1, <1>2, <1>4, IteratesExist DEF StepsOn
<1>7. h = after(h)
  <2>1. h \in [0..(2 * BOARD_H) -> Sweeps] /\ h[0] = start
    BY <1>6 DEF Iterates
  <2>2. ASSUME NEW n \in 0..(2 * BOARD_H), n # 0
        PROVE  h[n] = Sweep(h[n - 1])
    <3>1. /\ n - 1 \in 0..(2 * BOARD_H - 1) /\ n - 1 \in 0..(2 * BOARD_H) /\ (n - 1) + 1 = n /\ n - 1 \in Nat
      BY <1>1, <2>2
    <3>2. h[n] = g[<<n - 1, h[n - 1]>>]
      BY <1>6, <3>1 DEF Iterates
    <3> QED  BY <1>5, <2>1, <3>1, <3>2
  <2>3. \A n \in 0..(2 * BOARD_H) : h[n] = after(h)[n]
    BY <2>1, <2>2
  <2> QED  BY <2>1, <2>3
<1>8. a = after(a)
  BY <1>7, Zenon
<1>9. \A n \in 0..(2 * BOARD_H) : a[n] = IF n = 0 THEN start ELSE Sweep(a[n - 1])
  BY <1>8, Zenon
<1>10. clear_lines(first) = a[2 * BOARD_H]
  BY DEF clear_lines, start
<1> HIDE DEF a
<1> DEFINE T == {n \in Nat : n <= 2 * BOARD_H => SweptTo(first, n, a[n])}
<1>11. 0 \in T
  <2>1. a[0] = start /\ start.board = first /\ start.r = BOARD_H - 1 /\ start.cleared = 0
    BY <1>1, <1>9 DEF start
  <2>2. Below(F, BOARD_H - 1) = 0
    <3>1. {r \in F : r > BOARD_H - 1} = {}
      BY <1>1, <1>3
    <3> QED  BY <3>1, FS_EmptySet DEF Below
  <2>3. /\ start.r - start.cleared = BOARD_H - 1 /\ BOARD_H - 1 = BOARD_H - 1 - 0
        /\ \A i \in 0..start.r : i - start.cleared = i
        /\ (start.r + 1)..(BOARD_H - 1) = {}
    BY <1>1, <2>1
  <2>4. SweptTo(first, 0, start)
    BY <1>2, <2>1, <2>2, <2>3 DEF SweptTo
  <2> QED  BY <2>1, <2>4
<1>12. ASSUME NEW n \in Nat, n \in T
       PROVE  n + 1 \in T
  <2>1. SUFFICES ASSUME n + 1 <= 2 * BOARD_H PROVE SweptTo(first, n + 1, a[n + 1])
        OBVIOUS
  <2>2. n + 1 \in 0..(2 * BOARD_H) /\ n + 1 # 0 /\ (n + 1) - 1 = n /\ n <= 2 * BOARD_H
    BY <1>1, <2>1
  <2>3. a[n + 1] = Sweep(a[n]) /\ SweptTo(first, n, a[n])
    BY <1>9, <1>12, <2>2
  <2> QED  BY <2>3, SweptStep
<1> HIDE DEF T
<1>13. 2 * BOARD_H \in T
  BY <1>1, <1>11, <1>12, SetInduction
<1> DEFINE s == a[2 * BOARD_H]
           o == s.r - s.cleared
<1>14. SweptTo(first, 2 * BOARD_H, s)
  BY <1>13, <1>1 DEF T
<1> HIDE DEF s
<1>15. /\ s \in Sweeps
       /\ s.r = -1 \/ o = BOARD_H - 1 - 2 * BOARD_H
       /\ s.cleared = Below(F, o)
       /\ \A i \in (s.r + 1)..(BOARD_H - 1) : \A c \in 0..(BOARD_W - 1) :
            <<i, c>> \in s.board <=> \E k \in (o + 1)..(BOARD_H - 1) : CameFrom(first, i, c, k)
  BY <1>14 DEF SweptTo
<1>16. s.board \in SUBSET Window /\ s.r \in -1..(BOARD_H - 1) /\ s.cleared \in Nat /\ o \in Int
  BY <1>1, <1>15 DEF Sweeps
<1>17. s.r = -1
  <2>1. IsFiniteSet(F) /\ Cardinality(F) <= BOARD_H /\ Cardinality(F) \in Nat
    BY <1>3, RowsFinite
  <2>2. {r \in F : r > o} \in SUBSET F
    OBVIOUS
  <2>3. s.cleared <= Cardinality(F)
    BY <1>15, <2>1, <2>2, FS_Subset DEF Below
  <2> QED  BY <1>1, <1>15, <1>16, <2>1, <2>3
<1>18. s.cleared = Cardinality(F)
  <2>1. \A r \in F : r > o
    BY <1>1, <1>3, <1>16, <1>17
  <2>2. {r \in F : r > o} = F
    BY <2>1
  <2> QED  BY <1>15, <2>2 DEF Below
<1>19. ASSUME NEW i \in 0..(BOARD_H - 1), NEW c \in 0..(BOARD_W - 1)
       PROVE  <<i, c>> \in s.board <=> <<i, c>> \in Collapsed(first)
  <2>1. i \in (s.r + 1)..(BOARD_H - 1)
    BY <1>1, <1>17
  <2>2. <<i, c>> \in s.board <=> \E k \in (o + 1)..(BOARD_H - 1) : CameFrom(first, i, c, k)
    BY <1>15, <2>1
  <2>3. ASSUME NEW k \in (o + 1)..(BOARD_H - 1), CameFrom(first, i, c, k)
        PROVE  <<i, c>> \in Collapsed(first)
    <3>1. <<k, c>> \in {x \in first : x[1] \notin F}
      BY <2>3 DEF CameFrom
    <3>2. <<i, c>> = <<<<k, c>>[1] + Below(F, <<k, c>>[1]), <<k, c>>[2]>>
      BY <2>3 DEF CameFrom
    <3> QED  BY <3>1, <3>2 DEF Collapsed
  <2>4. ASSUME <<i, c>> \in Collapsed(first)
        PROVE  \E k \in (o + 1)..(BOARD_H - 1) : CameFrom(first, i, c, k)
    <3>1. PICK cell \in {x \in first : x[1] \notin F} : <<i, c>> = <<cell[1] + Below(F, cell[1]), cell[2]>>
      BY <2>4 DEF Collapsed
    <3>2. cell = <<cell[1], cell[2]>> /\ cell[1] \in 0..(BOARD_H - 1)
      BY <3>1 DEF Window
    <3>3. i = cell[1] + Below(F, cell[1]) /\ c = cell[2]
      BY <3>1
    <3>4. CameFrom(first, i, c, cell[1])
      BY <3>1, <3>2, <3>3 DEF CameFrom
    <3>5. cell[1] \in (o + 1)..(BOARD_H - 1)
      BY <1>1, <1>16, <1>17, <3>2
    <3> QED  BY <3>4, <3>5
  <2> QED  BY <2>2, <2>3, <2>4
<1>20. Collapsed(first) \in SUBSET Window
  <2>1. SUFFICES ASSUME NEW cell \in first, cell[1] \notin F
                 PROVE  <<cell[1] + Below(F, cell[1]), cell[2]>> \in Window
        BY DEF Collapsed
  <2>2. cell[1] \in 0..(BOARD_H - 1) /\ cell[2] \in 0..(BOARD_W - 1)
    BY DEF Window
  <2>3. Below(F, BOARD_H) = 0
    <3>1. {r \in F : r > BOARD_H} = {}
      BY <1>1, <1>3
    <3> QED  BY <3>1, FS_EmptySet DEF Below
  <2>4. BOARD_H \notin F /\ cell[1] \in Int /\ cell[1] < BOARD_H
    BY <1>1, <1>3, <2>2
  <2>5. cell[1] + Below(F, cell[1]) < BOARD_H + Below(F, BOARD_H)
    BY <1>1, <1>3, <2>4, LandingOrder
  <2>6. Below(F, cell[1]) \in Nat
    <3>1. cell[1] <= cell[1]
      BY <2>4
    <3> QED  BY <1>3, <2>4, <3>1, BelowSplits
  <2>7. cell[1] + Below(F, cell[1]) \in 0..(BOARD_H - 1)
    BY <1>1, <2>2, <2>3, <2>5, <2>6
  <2> QED  BY <2>2, <2>7 DEF Window
<1>21. s.board = Collapsed(first)
  <2>1. \A x \in Window : x \in s.board <=> x \in Collapsed(first)
    BY <1>19 DEF Window
  <2> HIDE DEF F, o
  <2> QED  BY <1>16, <1>20, <2>1
<1> QED  BY <1>10, <1>16, <1>18, <1>21 DEF s

(* When nothing is full, nothing moves. *)
LEMMA NothingCleared ==
  ASSUME NEW first \in SUBSET Window, clear_lines(first).cleared = 0
  PROVE  clear_lines(first).board = first
<1> DEFINE F == FullRows(first)
<1>1. Cardinality(F) = 0 /\ clear_lines(first).board = Collapsed(first)
  BY ClearsRows
<1>2. F \in SUBSET (0..(BOARD_H - 1))
  BY DEF FullRows
<1>3. F = {}
  BY <1>1, <1>2, RowsFinite, FS_EmptySet
<1>4. ASSUME NEW i \in Int
      PROVE  Below(F, i) = 0
  BY <1>3, FS_EmptySet DEF Below
<1>5. \A x \in first : x[1] \in Int /\ x[1] + 0 = x[1] /\ x = <<x[1], x[2]>>
  BY TetrisAssumption DEF Window
<1>6. \A x \in first : x[1] \notin F /\ <<x[1] + Below(F, x[1]), x[2]>> = x
  BY <1>3, <1>4, <1>5
<1>7. Collapsed(first) = {<<cell[1] + Below(F, cell[1]), cell[2]>> : cell \in {x \in first : x[1] \notin F}}
  BY DEF Collapsed
<1> HIDE DEF F
<1> QED  BY <1>1, <1>6, <1>7


(***************************************************************************)
(* Locking                                                                 *)
(***************************************************************************)
LEMMA LevelIs ==
  ASSUME NEW g \in Games, g.level >= 1
  PROVE  /\ update_level(g) \in Games /\ update_level(g).level >= 1
         /\ update_level(g).board = g.board /\ update_level(g).lines = g.lines
         /\ update_level(g).game_over = g.game_over
<1> DEFINE nl == 1 + g.lines \div LinesPerLevel
           l == IF nl > g.level THEN nl ELSE g.level
           h == [g EXCEPT !.level = l]
<1>1. g.lines \in Nat /\ g.level \in Nat
  BY GameFields
<1>2. nl \in Nat /\ nl >= 1
  BY <1>1, TetrisAssumption
<1>3. l \in Nat /\ l >= 1
  BY <1>1, <1>2
<1>4. update_level(g) = h
  BY DEF update_level
<1> HIDE DEF l
<1>5. h \in Games /\ h.level = l /\ h.board = g.board /\ h.lines = g.lines /\ h.game_over = g.game_over
  BY <1>3 DEF Games
<1> QED  BY <1>3, <1>4, <1>5

(* A lock leads to the next piece or to the loss of the game; the piece has
   become part of the board and the full rows are gone. *)
LEMMA LockIs ==
  ASSUME NEW g, Live(g), NEW shuffle \in Bags
  PROVE  /\ Live(process_lock(g, shuffle)) \/ Lost(process_lock(g, shuffle))
         /\ process_lock(g, shuffle).board = Collapsed(g.board \cup PieceCells(g.cur))
         /\ process_lock(g, shuffle).lines
              = g.lines + Cardinality(FullRows(g.board \cup PieceCells(g.cur)))
<1> DEFINE filled == g.board \cup PieceCells(g.cur)
           swept == clear_lines(lock_piece(g.board, g.cur))
           top_out == \E cell \in PieceCells(g.cur) : cell[1] < 0
           a == [g EXCEPT !.board = swept.board]
           b == [a EXCEPT !.lines = g.lines + swept.cleared]
           c == update_level(b)
           d == [c EXCEPT !.screen.cells = c.board]
           h == IF swept.cleared = 0 THEN a ELSE d
<1>1. /\ g \in Games /\ g.cur \in Placings /\ g.board \in SUBSET Window /\ g.lines \in Nat
      /\ ~collides(g.board, g.cur) /\ g.level >= 1 /\ g.game_over = FALSE /\ g.screen.cells = filled
  BY LiveGame, GameFields DEF Live
<1>2. PieceCells(g.cur) \in SUBSET Window /\ filled \in SUBSET Window
  BY <1>1, Fits
<1>3. lock_piece(g.board, g.cur) = filled
  BY <1>2 DEF lock_piece
<1>4. ~top_out
  <2>1. \A cell \in Window : ~(cell[1] < 0)
    BY TetrisAssumption DEF Window
  <2> QED  BY <1>2, <2>1
<1>5. /\ swept.board = Collapsed(filled) /\ swept.cleared = Cardinality(FullRows(filled))
      /\ swept.board \in SUBSET Window /\ swept.cleared \in Nat
      /\ swept.cleared = 0 => swept.board = filled
  BY <1>2, <1>3, ClearsRows, NothingCleared
<1>6. process_lock(g, shuffle) = spawn_next(h, shuffle)
  <2>1. [g EXCEPT !.board = swept.board, !.lines = g.lines + swept.cleared] = b
    BY <1>1 DEF Games
  <2>2. draw_board(c) = d
    BY DEF draw_board
  <2> QED  BY <1>4, <2>1, <2>2 DEF process_lock, Settled
<1> HIDE DEF swept, filled
<1>7. /\ a \in Games /\ a.board = swept.board /\ a.level = g.level /\ a.lines = g.lines
      /\ a.game_over = FALSE /\ a.screen = g.screen
  BY <1>1, <1>5 DEF Games
<1> HIDE DEF a
<1>8. /\ b \in Games /\ b.board = swept.board /\ b.level = g.level /\ b.lines = g.lines + swept.cleared
      /\ b.game_over = FALSE
  <2>1. g.lines + swept.cleared \in Nat
    BY <1>1, <1>5
  <2> QED  BY <1>7, <2>1 DEF Games
<1> HIDE DEF b
<1>9. /\ c \in Games /\ c.board = swept.board /\ c.level >= 1 /\ c.lines = g.lines + swept.cleared
      /\ c.game_over = FALSE
  BY <1>1, <1>8, LevelIs
<1> HIDE DEF c
<1>10. /\ d \in Games /\ d.screen.cells = c.board /\ SameMove(c, d) /\ d.game_over = FALSE
  <2>1. c.board \in SUBSET Window
    BY <1>5, <1>9
  <2> QED  BY <1>9, <2>1, DrawsCells
<1> HIDE DEF d
<1>11. Bare(h) /\ h.board = swept.board /\ h.lines = g.lines + swept.cleared
  <2>1. CASE swept.cleared = 0
    BY <1>1, <1>5, <1>7, <2>1 DEF Bare
  <2>2. CASE swept.cleared # 0
    BY <1>9, <1>10, <2>2 DEF Bare, SameMove, SameRound
  <2> QED  BY <2>1, <2>2
<1> HIDE DEF h
<1>12. /\ Live(spawn_next(h, shuffle)) \/ Lost(spawn_next(h, shuffle))
       /\ SameRound(h, spawn_next(h, shuffle))
  BY <1>11, SpawnNextIs
<1> QED  BY <1>5, <1>6, <1>11, <1>12 DEF SameRound, filled


(***************************************************************************)
(* An iteration of play_round                                              *)
(***************************************************************************)
On(g) == Live(g) \/ Lost(g)
SameGame(g, h) == SameRound(g, h) /\ h.cur = g.cur /\ h.game_over = g.game_over

LEMMA OnGame ==
  ASSUME NEW g, On(g)
  PROVE  g \in Games /\ g.level >= 1 /\ g.board \in SUBSET Window /\ g.lines \in Nat
BY GameFields DEF On, Live, Lost

LEMMA RescheduledIs ==
  ASSUME NEW g, On(g)
  PROVE  /\ On(Rescheduled(g)) /\ SameGame(g, Rescheduled(g)) /\ Rescheduled(g).due > 0
         /\ Live(g) => Live(Rescheduled(g))
         /\ Status(g) => Status(Rescheduled(g))
<1> DEFINE d == drop_ms(g.level)
           h == [g EXCEPT !.due = d]
<1>1. g \in Games /\ g.level >= 1 /\ g.level \in Nat /\ g.cur.type \in Types
  BY OnGame, GameFields DEF Placings
<1>2. d \in 0..SlowestDrop /\ d > 0
  BY <1>1, TetrisAssumption DEF drop_ms
<1>3. Rescheduled(g) = h
  BY DEF Rescheduled
<1> HIDE DEF d
<1>4. /\ h \in Games /\ h.due = d /\ h.board = g.board /\ h.lines = g.lines /\ h.level = g.level
      /\ h.cur = g.cur /\ h.game_over = g.game_over /\ h.screen = g.screen
      /\ h.next_type = g.next_type /\ h.hold_type = g.hold_type
  BY <1>1, <1>2 DEF Games
<1> HIDE DEF h
<1>5. Live(g) => Live(h)
  BY <1>4 DEF Live
<1>6. Lost(g) => Lost(h)
  <2>1. spawn(h, g.cur.type).cur = spawn(g, g.cur.type).cur
    BY <1>1, <1>4, SpawnIs
  <2> QED  BY <1>4, <2>1 DEF Lost
<1>7. d > 0
  BY <1>2
<1> QED  BY <1>3, <1>4, <1>5, <1>6, <1>7 DEF On, SameGame, SameRound, Status

LEMMA StatusIs ==
  ASSUME NEW g, On(g)
  PROVE  /\ On(draw_status(g)) /\ SameGame(g, draw_status(g)) /\ draw_status(g).due = g.due
         /\ Live(g) => Live(draw_status(g))
         /\ Status(draw_status(g))
<1> DEFINE s == [[g.screen EXCEPT !.next = g.next_type] EXCEPT !.hold = g.hold_type]
           h == [g EXCEPT !.screen = s]
<1>1. /\ g \in Games /\ g.level >= 1 /\ g.cur.type \in Types /\ g.screen \in Screens
      /\ g.next_type \in Types /\ g.hold_type \in Types \cup {P_NONE}
  BY OnGame, GameFields DEF Placings
<1>2. draw_status(g) = h
  <2>1. h = [[g EXCEPT !.screen.next = g.next_type] EXCEPT !.screen.hold = g.hold_type]
    BY <1>1 DEF Games
  <2> QED  BY <1>1, <2>1 DEF draw_status, Games
<1>3. s \in Screens /\ s.cells = g.screen.cells /\ s.next = g.next_type /\ s.hold = g.hold_type
  <2> DEFINE r == [g.screen EXCEPT !.next = g.next_type]
  <2>1. r \in Screens /\ r.cells = g.screen.cells /\ r.next = g.next_type
    BY <1>1 DEF Screens
  <2>2. s = [r EXCEPT !.hold = g.hold_type]
    OBVIOUS
  <2> HIDE DEF r, s
  <2> QED  BY <1>1, <2>1, <2>2 DEF Screens
<1> HIDE DEF s
<1>4. /\ h \in Games /\ h.due = g.due /\ h.board = g.board /\ h.lines = g.lines /\ h.level = g.level
      /\ h.cur = g.cur /\ h.game_over = g.game_over /\ h.screen = s
      /\ h.next_type = g.next_type /\ h.hold_type = g.hold_type
  BY <1>1, <1>3 DEF Games
<1> HIDE DEF h
<1>5. Live(g) => Live(h)
  BY <1>3, <1>4 DEF Live
<1>6. Lost(g) => Lost(h)
  <2>1. spawn(h, g.cur.type).cur = spawn(g, g.cur.type).cur
    BY <1>1, <1>4, SpawnIs
  <2> QED  BY <1>3, <1>4, <2>1 DEF Lost
<1> QED  BY <1>2, <1>3, <1>4, <1>5, <1>6 DEF On, SameGame, SameRound, Status

(* What an iteration does to the board and to the lines: nothing, or a piece
   of the falling one's type lands on it. *)
Kept(g, h) == h.board = g.board /\ h.lines = g.lines
LandsAt(g, h, p) ==
  /\ p.type = g.cur.type
  /\ ~collides(g.board, p) /\ collides(g.board, Moved(p, 0, 1))
  /\ h.board = Collapsed(g.board \cup PieceCells(p))
  /\ h.lines = g.lines + Cardinality(FullRows(g.board \cup PieceCells(p)))
Lands(g, h) == \E p \in Pieces : LandsAt(g, h, p)

LEMMA LockLands ==
  ASSUME NEW g, Live(g), NEW shuffle \in Bags, collides(g.board, Moved(g.cur, 0, 1))
  PROVE  On(process_lock(g, shuffle)) /\ Lands(g, process_lock(g, shuffle))
<1>1. g.cur \in Pieces /\ ~collides(g.board, g.cur)
  BY GameFields DEF Live
<1>2. LandsAt(g, process_lock(g, shuffle), g.cur)
  BY <1>1, LockIs DEF LandsAt
<1> QED  BY <1>1, <1>2, LockIs DEF Lands, On

LEMMA LandsFrom ==
  ASSUME NEW g, NEW i, Kept(g, i), i.cur.type = g.cur.type, NEW h, Lands(i, h)
  PROVE  Lands(g, h)
BY DEF Lands, LandsAt, Kept

LEMMA LandsOn ==
  ASSUME NEW g, NEW h, Lands(g, h), NEW i, Kept(h, i)
  PROVE  Lands(g, i)
BY DEF Lands, LandsAt, Kept

LEMMA KeptFromRound == \A g, h : (SameRound(g, h) \/ SameMove(g, h) \/ SameGame(g, h)) => Kept(g, h)
BY DEF SameRound, SameMove, SameGame, Kept

Quietly(g, h) == Kept(g, h) /\ (h.cur.type = g.cur.type \/ h.due > 0)
Loudly(g, h) == Lands(g, h) /\ h.due > 0

LEMMA PressedIs ==
  ASSUME NEW g, Live(g), NEW sc \in Keys, NEW shuffle \in Bags
  PROVE  LET h == Pressed(g, sc, shuffle)
         IN  On(h) /\ Status(h) /\ (Quietly(g, h) \/ Loudly(g, h))
<1>1. ASSUME NEW i, On(i), Quietly(g, i) \/ Loudly(g, i)
      PROVE  LET h == draw_status(i) IN On(h) /\ Status(h) /\ (Quietly(g, h) \/ Loudly(g, h))
  <2> DEFINE h == draw_status(i)
  <2>1. On(h) /\ SameGame(i, h) /\ h.due = i.due /\ Status(h)
    BY <1>1, StatusIs
  <2>2. Kept(i, h) /\ h.cur = i.cur
    BY <2>1, KeptFromRound DEF SameGame
  <2> HIDE DEF h
  <2>3. Lands(g, i) => Lands(g, h)
    BY <2>2, LandsOn
  <2>4. Kept(g, i) => Kept(g, h)
    BY <2>2 DEF Kept
  <2>5. On(h) /\ Status(h) /\ (Quietly(g, h) \/ Loudly(g, h))
    BY <1>1, <2>1, <2>2, <2>3, <2>4 DEF Quietly, Loudly
  <2> QED  BY <2>5 DEF h
<1>2. ASSUME NEW i, Live(i), SameMove(g, i), i.cur.type = g.cur.type
      PROVE  On(i) /\ Quietly(g, i)
  BY <1>2, KeptFromRound DEF On, Quietly
<1>3. ASSUME NEW i, On(i), Kept(g, i) \/ Lands(g, i)
      PROVE  On(Rescheduled(i)) /\ (Quietly(g, Rescheduled(i)) \/ Loudly(g, Rescheduled(i)))
  <2> DEFINE h == Rescheduled(i)
  <2>1. On(h) /\ SameGame(i, h) /\ h.due > 0
    BY <1>3, RescheduledIs
  <2>2. Kept(i, h)
    BY <2>1, KeptFromRound
  <2> HIDE DEF h
  <2>3. Lands(g, i) => Lands(g, h)
    BY <2>2, LandsOn
  <2>4. Kept(g, i) => Kept(g, h)
    BY <2>2 DEF Kept
  <2>5. On(h) /\ (Quietly(g, h) \/ Loudly(g, h))
    BY <1>3, <2>1, <2>3, <2>4 DEF Quietly, Loudly
  <2> QED  BY <2>5 DEF h
<1>4. CASE sc = "LEFT"
  <2>1. Pressed(g, sc, shuffle) = draw_status(try_move(g, -1, 0))
    BY <1>4 DEF Pressed
  <2>2. On(try_move(g, -1, 0)) /\ Quietly(g, try_move(g, -1, 0))
    BY <1>2, MovesKeep
  <2> QED  BY <1>1, <2>1, <2>2
<1>5. CASE sc = "RIGHT"
  <2>1. Pressed(g, sc, shuffle) = draw_status(try_move(g, 1, 0))
    BY <1>5 DEF Pressed
  <2>2. On(try_move(g, 1, 0)) /\ Quietly(g, try_move(g, 1, 0))
    BY <1>2, MovesKeep
  <2> QED  BY <1>1, <2>1, <2>2
<1>6. CASE sc = "DOWN"
  <2>1. Pressed(g, sc, shuffle) = draw_status(try_move(g, 0, 1))
    BY <1>6 DEF Pressed
  <2>2. On(try_move(g, 0, 1)) /\ Quietly(g, try_move(g, 0, 1))
    BY <1>2, MovesKeep
  <2> QED  BY <1>1, <2>1, <2>2
<1>7. CASE sc = "CW"
  <2>1. Pressed(g, sc, shuffle) = draw_status(try_rotate(g, 1))
    BY <1>7 DEF Pressed
  <2>2. On(try_rotate(g, 1)) /\ Quietly(g, try_rotate(g, 1))
    BY <1>2, MovesKeep
  <2> QED  BY <1>1, <2>1, <2>2
<1>8. CASE sc = "CCW"
  <2>1. Pressed(g, sc, shuffle) = draw_status(try_rotate(g, -1))
    BY <1>8 DEF Pressed
  <2>2. On(try_rotate(g, -1)) /\ Quietly(g, try_rotate(g, -1))
    BY <1>2, MovesKeep
  <2> QED  BY <1>1, <2>1, <2>2
<1>9. CASE sc = "SPACE"
  <2> DEFINE d == hard_drop(g)
             l == process_lock(d, shuffle)
  <2>1. Pressed(g, sc, shuffle) = draw_status(Rescheduled(l))
    BY <1>9 DEF Pressed
  <2>2. /\ Live(d) /\ SameMove(g, d) /\ d.cur.type = g.cur.type
        /\ collides(d.board, Moved(d.cur, 0, 1))
    BY HardDropKeeps
  <2>3. On(l) /\ Lands(d, l)
    BY <2>2, LockLands
  <2>4. Kept(g, d)
    BY <2>2, KeptFromRound
  <2> HIDE DEF d, l
  <2>5. Lands(g, l)
    BY <2>2, <2>3, <2>4, LandsFrom
  <2>6. On(Rescheduled(l)) /\ (Quietly(g, Rescheduled(l)) \/ Loudly(g, Rescheduled(l)))
    BY <1>3, <2>3, <2>5
  <2> QED  BY <1>1, <2>1, <2>6
<1>10. CASE sc = "C"
  <2> DEFINE l == try_hold(g, shuffle)
  <2>1. Pressed(g, sc, shuffle) = draw_status(Rescheduled(l))
    BY <1>10 DEF Pressed
  <2>2. On(l) /\ SameRound(g, l)
    BY HoldIs DEF On
  <2>3. Kept(g, l)
    BY <2>2, KeptFromRound
  <2> HIDE DEF l
  <2>4. On(Rescheduled(l)) /\ (Quietly(g, Rescheduled(l)) \/ Loudly(g, Rescheduled(l)))
    BY <1>3, <2>2, <2>3
  <2> QED  BY <1>1, <2>1, <2>4
<1> QED  BY <1>4, <1>5, <1>6, <1>7, <1>8, <1>9, <1>10 DEF Keys

(* Gravity moves the piece down or locks it, at its time. *)
LEMMA GravityIs ==
  ASSUME NEW g, On(g), Status(g), NEW shuffle \in Bags
  PROVE  LET h == Gravity(g, shuffle)
         IN  /\ On(h) /\ Status(h)
             /\ Kept(g, h) \/ (Lands(g, h) /\ Live(g) /\ ~(g.due > 0))
<1>1. CASE g.game_over \/ g.due > 0
  BY <1>1 DEF Gravity, Kept
<1>2. CASE ~(g.game_over \/ g.due > 0)
  <2>1. Live(g) /\ g.cur \in Placings
    BY <1>2, LiveGame DEF On, Lost
  <2>2. ASSUME NEW i, On(i), Status(i), Gravity(g, shuffle) = Rescheduled(i), Kept(g, i) \/ Lands(g, i)
        PROVE  LET h == Gravity(g, shuffle)
               IN  /\ On(h) /\ Status(h)
                   /\ Kept(g, h) \/ (Lands(g, h) /\ Live(g) /\ ~(g.due > 0))
    <3> DEFINE h == Rescheduled(i)
    <3>1. On(h) /\ SameGame(i, h) /\ Status(h)
      BY <2>2, RescheduledIs
    <3>2. Kept(i, h)
      BY <3>1, KeptFromRound
    <3> HIDE DEF h
    <3>3. Lands(g, i) => Lands(g, h)
      BY <3>2, LandsOn
    <3>4. Kept(g, i) => Kept(g, h)
      BY <3>2 DEF Kept
    <3>5. Gravity(g, shuffle) = h
      BY <2>2 DEF h
    <3> QED  BY <1>2, <2>1, <2>2, <3>1, <3>3, <3>4, <3>5
  <2>3. CASE collides(g.board, Moved(g.cur, 0, 1))
    <3> DEFINE l == process_lock(g, shuffle)
               i == draw_status(l)
    <3>1. On(l) /\ Lands(g, l)
      BY <2>1, <2>3, LockLands
    <3>2. Gravity(g, shuffle) = Rescheduled(i)
      BY <1>2, <2>3 DEF Gravity
    <3> HIDE DEF l
    <3>3. On(i) /\ SameGame(l, i) /\ Status(i)
      BY <3>1, StatusIs
    <3>4. Kept(l, i)
      BY <3>3, KeptFromRound
    <3> HIDE DEF i
    <3>5. Lands(g, i)
      BY <3>1, <3>4, LandsOn
    <3> QED  BY <2>2, <3>2, <3>3, <3>5
  <2>4. CASE ~collides(g.board, Moved(g.cur, 0, 1))
    <3> DEFINE i == try_move(g, 0, 1)
    <3>1. Live(i) /\ SameMove(g, i)
      BY <2>1, MovesKeep
    <3>2. Gravity(g, shuffle) = Rescheduled(i)
      BY <1>2, <2>4 DEF Gravity
    <3> HIDE DEF i
    <3>3. Kept(g, i) /\ On(i) /\ Status(i)
      BY <3>1, KeptFromRound DEF On, SameMove, Status
    <3> QED  BY <2>2, <3>2, <3>3
  <2> QED  BY <2>3, <2>4
<1> QED  BY <1>1, <1>2


(***************************************************************************)
(* The invariant                                                           *)
(***************************************************************************)

(* In a round the game is Live or Lost and its previews are right; a lost game
   stays lost until a round starts. *)
IInv ==
  /\ TypeOK
  /\ at = "round" => On(game) /\ Status(game)
  /\ LossIsReal

LEMMA LossFromOn ==
  ASSUME NEW g, On(g), g.game_over
  PROVE  g.cur = spawn(g, g.cur.type).cur /\ collides(g.board, g.cur)
BY DEF On, Live, Lost

LEMMA InitIs == Init => IInv
<1> SUFFICES ASSUME Init PROVE IInv
    OBVIOUS
<1>1. Ordered \in Bags /\ Ordered[1] \in Types /\ NTypes \in 1..NTypes /\ 0 \in 0..SlowestDrop
  BY OrderedIsBag, BagTypes, TetrisAssumption
<1>2. [type |-> Ordered[1], rot |-> 0, x |-> 0, y |-> 0] \in Pieces
  BY <1>1, TetrisAssumption DEF Pieces
<1>3. [cells |-> {}, next |-> P_NONE, hold |-> P_NONE] \in Screens
  BY DEF Screens
<1>4. game \in Games
  BY <1>1, <1>2, <1>3 DEF Init, Games
<1>5. at = "shell" /\ game.game_over = FALSE
  BY DEF Init
<1> QED  BY <1>4, <1>5 DEF IInv, TypeOK, LossIsReal

LEMMA NewRoundIs ==
  ASSUME NEW g \in Games, NEW shuffle \in Bags, NEW deal \in Bags
  PROVE  LET h == Rescheduled(draw_status(spawn_next(draw_board(init_game(g, deal)), shuffle)))
         IN  On(h) /\ Status(h)
<1> DEFINE a == [g EXCEPT !.board = {}]
           b == [a EXCEPT !.level = 1]
           c == [b EXCEPT !.lines = 0]
           d == [c EXCEPT !.game_over = FALSE]
           e == [d EXCEPT !.hold_type = P_NONE]
           f == [e EXCEPT !.hold_used = FALSE]
           i == [f EXCEPT !.bag_pos = NTypes]
           j == init_game(g, deal)
           k == [j EXCEPT !.screen.cells = j.board]
           l == spawn_next(k, shuffle)
           m == draw_status(l)
<1>1. j = next_piece_type(i, deal)
  BY DEF init_game, Games
<1>2. a \in Games /\ a.board = {}
  BY DEF Games
<1> HIDE DEF a
<1>3. b \in Games /\ b.level = 1 /\ b.board = {}
  BY <1>2 DEF Games
<1> HIDE DEF b
<1>4. c \in Games /\ c.level = 1 /\ c.board = {}
  BY <1>3 DEF Games
<1> HIDE DEF c
<1>5. d \in Games /\ d.level = 1 /\ d.board = {} /\ d.game_over = FALSE
  BY <1>4 DEF Games
<1> HIDE DEF d
<1>6. e \in Games /\ e.level = 1 /\ e.board = {} /\ e.game_over = FALSE
  BY <1>5 DEF Games
<1> HIDE DEF e
<1>7. f \in Games /\ f.level = 1 /\ f.board = {} /\ f.game_over = FALSE
  BY <1>6 DEF Games
<1> HIDE DEF f
<1>8. i \in Games /\ i.level = 1 /\ i.board = {} /\ i.game_over = FALSE
  <2>1. NTypes \in 1..NTypes
    BY BagTypes
  <2> QED  BY <1>7, <2>1 DEF Games
<1> HIDE DEF i, j
<1>9. j \in Games /\ j.level = 1 /\ j.board = {} /\ j.game_over = FALSE
  BY <1>1, <1>8, DealIs DEF SameDeal, SameRound
<1>10. Bare(k)
  <2>1. j.board \in SUBSET Window
    BY <1>9
  <2> QED  BY <1>9, <2>1, DrawsCells DEF Bare, SameMove, SameRound
<1>11. draw_board(j) = k
  BY DEF draw_board
<1> HIDE DEF k
<1>12. On(l)
  BY <1>10, SpawnNextIs DEF On
<1> HIDE DEF l
<1>13. On(m) /\ Status(m)
  BY <1>12, StatusIs
<1> HIDE DEF m
<1>14. On(Rescheduled(m)) /\ Status(Rescheduled(m))
  BY <1>13, RescheduledIs
<1> QED  BY <1>11, <1>14 DEF j, l, m

LEMMA PlayingIs ==
  ASSUME IInv, Playing
  PROVE  Live(game) /\ Status(game) /\ Refills \subseteq Bags
<1>1. game \in Games /\ Live(game) /\ Status(game)
  BY DEF IInv, Playing, On, Lost, Live
<1>2. game.bag \in Bags
  BY <1>1, GameFields
<1> QED  BY <1>1, <1>2, ShufflesAreBags DEF Refills

LEMMA PressKeyIs ==
  ASSUME IInv, NEW sc \in Keys, PressKey(sc)
  PROVE  /\ at = "round" /\ at' = "round" /\ On(game') /\ Status(game')
         /\ Kept(game, game') \/ Lands(game, game')
<1>1. Live(game) /\ Refills \subseteq Bags /\ at = "round" /\ at' = "round"
  BY PlayingIs DEF PressKey, Playing
<1>2. PICK shuffle \in Bags : game' = Gravity(Pressed(game, sc, shuffle), shuffle)
  BY <1>1 DEF PressKey
<1> DEFINE h == Pressed(game, sc, shuffle)
<1>3. On(h) /\ Status(h) /\ (Quietly(game, h) \/ Loudly(game, h))
  BY <1>1, PressedIs
<1> HIDE DEF h
<1>4. /\ On(game') /\ Status(game')
      /\ Kept(h, game') \/ (Lands(h, game') /\ Live(h) /\ ~(h.due > 0))
  BY <1>2, <1>3, GravityIs DEF h
<1>5. CASE Quietly(game, h)
  <2>1. Kept(h, game') => Kept(game, game')
    BY <1>5 DEF Quietly, Kept
  <2>2. Lands(h, game') /\ ~(h.due > 0) => Lands(game, game')
    BY <1>5, LandsFrom DEF Quietly
  <2> QED  BY <1>1, <1>4, <2>1, <2>2
<1>6. CASE Loudly(game, h)
  <2>1. Kept(h, game') /\ Lands(game, h)
    BY <1>4, <1>6 DEF Loudly
  <2>2. Lands(game, game')
    BY <2>1, LandsOn
  <2> QED  BY <1>1, <1>4, <2>2
<1> QED  BY <1>3, <1>5, <1>6

LEMMA FallIs ==
  ASSUME IInv, Fall
  PROVE  /\ at = "round" /\ at' = "round" /\ On(game') /\ Status(game')
         /\ Kept(game, game') \/ Lands(game, game')
<1>1. Live(game) /\ Status(game) /\ Refills \subseteq Bags /\ at = "round" /\ at' = "round"
  BY PlayingIs DEF Fall, Playing
<1>2. PICK shuffle \in Bags : game' = Gravity(game, shuffle)
  BY <1>1 DEF Fall
<1> QED  BY <1>1, <1>2, GravityIs DEF On

LEMMA TickIs ==
  ASSUME IInv, Tick
  PROVE  /\ at = "round" /\ at' = "round" /\ On(game') /\ Status(game')
         /\ Kept(game, game')
<1>1. On(game) /\ Status(game) /\ game.due > 0 /\ at = "round" /\ at' = "round" /\ game \in Games
  BY DEF IInv, TypeOK, Tick
<1>2. game.due - 1 \in 0..SlowestDrop /\ game.cur.type \in Types
  BY <1>1, GameFields, TetrisAssumption DEF Placings
<1>3. /\ game' \in Games /\ game'.board = game.board /\ game'.lines = game.lines
      /\ game'.level = game.level /\ game'.cur = game.cur /\ game'.game_over = game.game_over
      /\ game'.screen = game.screen /\ game'.next_type = game.next_type
      /\ game'.hold_type = game.hold_type
  <2>1. game' = [game EXCEPT !.due = game.due - 1]
    BY DEF Tick
  <2> QED  BY <1>1, <1>2, <2>1 DEF Games
<1>4. spawn(game', game.cur.type).cur = spawn(game, game.cur.type).cur
  BY <1>1, <1>2, <1>3, SpawnIs
<1>5. Live(game) => Live(game')
  BY <1>3 DEF Live
<1>6. Lost(game) => Lost(game')
  BY <1>3, <1>4 DEF Lost
<1> QED  BY <1>1, <1>3, <1>5, <1>6 DEF On, Status, Kept

LEMMA NextKeeps == IInv /\ [Next]_vars => IInv'
<1> SUFFICES ASSUME IInv, [Next]_vars PROVE IInv'
    OBVIOUS
<1> USE DEF IInv
<1>1. ASSUME at' = "round", On(game'), Status(game')
      PROVE  IInv'
  <2>1. game' \in Games
    BY <1>1, OnGame
  <2>2. game'.game_over => game'.cur = spawn(game', game'.cur.type).cur /\ collides(game'.board, game'.cur)
    BY <1>1, LossFromOn
  <2> QED  BY <1>1, <2>1, <2>2 DEF TypeOK, LossIsReal
<1>2. CASE NewRound
  <2>1. PICK deal \in Shuffles :
          game' = Rescheduled(draw_status(spawn_next(draw_board(init_game(game, deal)), deal)))
    BY <1>2 DEF NewRound
  <2>2. game \in Games /\ deal \in Bags
    BY ShufflesAreBags DEF TypeOK
  <2>3. On(game') /\ Status(game')
    BY <2>1, <2>2, NewRoundIs
  <2> QED  BY <1>1, <1>2, <2>3 DEF NewRound
<1>3. CASE Launch
  BY <1>2, <1>3 DEF Launch
<1>4. CASE Restart
  BY <1>2, <1>4 DEF Restart
<1>5. CASE Quit
  BY <1>5 DEF Quit, TypeOK, LossIsReal
<1>6. CASE Lose
  BY <1>6 DEF Lose, TypeOK, LossIsReal
<1>7. ASSUME NEW sc \in Keys, PressKey(sc)
      PROVE  IInv'
  BY <1>1, <1>7, PressKeyIs
<1>8. CASE Fall
  BY <1>1, <1>8, FallIs
<1>9. CASE Tick
  BY <1>1, <1>9, TickIs
<1>10. CASE UNCHANGED vars
  BY <1>10 DEF vars, TypeOK, LossIsReal
<1> QED  BY <1>3, <1>4, <1>5, <1>6, <1>7, <1>8, <1>9, <1>10 DEF Next

(***************************************************************************)
(* Theorems                                                                *)
(***************************************************************************)

(* The invariant that the others follow from. *)
THEOREM Invariant == Spec => []IInv
<1>1. Init => IInv
  BY InitIs
<1>2. IInv /\ [Next]_vars => IInv'
  BY NextKeeps
<1> QED  BY <1>1, <1>2, PTL DEF Spec

(* Every variable of the game keeps to the values of the code: the bag of
   next_piece_type is a permutation however it is shuffled, and no piece is
   ever above the board. *)
THEOREM TypeCorrect == Spec => []TypeOK
<1>1. IInv => TypeOK
  BY DEF IInv
<1> QED  BY <1>1, Invariant, PTL

(* While a round goes on the falling piece is inside the walls and on no
   locked cell, after any try_move, try_rotate, hard_drop, hold or lock. *)
THEOREM PieceAlwaysFits == Spec => []PieceFits
<1>1. IInv => PieceFits
  BY DEF IInv, PieceFits, On, Live, Lost
<1> QED  BY <1>1, Invariant, PTL

(* game_over is set only for a piece just spawned that cannot be placed. *)
THEOREM LossesAreReal == Spec => []LossIsReal
<1>1. IInv => LossIsReal
  BY DEF IInv
<1> QED  BY <1>1, Invariant, PTL

(* What erase, draw_piece, draw_board and draw_status have drawn piecemeal is
   the game, after each iteration of play_round. *)
THEOREM ScreenIsTrue == Spec => []ScreenTrue
<1>1. IInv => ScreenTrue
  BY DEF IInv, ScreenTrue, On, Live, Lost, Status
<1> QED  BY <1>1, Invariant, PTL

(* The board changes only as a piece lands where it rests, and then exactly
   the full rows go: the action property of process_lock and clear_lines. *)
THEOREM PiecesLandWhole == Spec => LandsWhole
<1> DEFINE A == at = "round" /\ at' = "round" /\ Locks =>
                  \E p \in {q \in Pieces : q.type = game.cur.type} :
                    /\ ~collides(game.board, p) /\ collides(game.board, Moved(p, 0, 1))
                    /\ Landed(game.board \cup PieceCells(p))
<1>1. ASSUME Lands(game, game')
      PROVE  \E p \in {q \in Pieces : q.type = game.cur.type} :
               /\ ~collides(game.board, p) /\ collides(game.board, Moved(p, 0, 1))
               /\ Landed(game.board \cup PieceCells(p))
  <2>1. PICK p \in Pieces : LandsAt(game, game', p)
    BY <1>1 DEF Lands
  <2>2. Landed(game.board \cup PieceCells(p))
    BY <2>1 DEF LandsAt, Landed, Collapsed, FullRows, Below
  <2> QED  BY <2>1, <2>2 DEF LandsAt
<1>2. Kept(game, game') => ~Locks
  BY DEF Kept, Locks
<1>3. IInv /\ [Next]_vars => [A]_vars
  <2> SUFFICES ASSUME IInv, [Next]_vars, at = "round", at' = "round", Locks PROVE A
      OBVIOUS
  <2> HIDE DEF A
  <2>1. Lands(game, game') => A
    BY <1>1 DEF A
  <2>2. CASE Launch \/ Restart \/ Quit \/ Lose
    BY <2>2 DEF Launch, Restart, Quit, Lose
  <2>3. ASSUME NEW sc \in Keys, PressKey(sc)
        PROVE  A
    BY <1>2, <2>1, <2>3, PressKeyIs
  <2>4. CASE Fall
    BY <1>2, <2>1, <2>4, FallIs
  <2>5. CASE Tick
    BY <1>2, <2>5, TickIs
  <2>6. CASE UNCHANGED vars
    BY <2>6 DEF vars, Locks
  <2> QED  BY <2>2, <2>3, <2>4, <2>5, <2>6 DEF Next
<1>4. [][A]_vars => LandsWhole
  BY PTL DEF LandsWhole
<1> HIDE DEF A
<1> QED  BY <1>3, <1>4, Invariant, PTL DEF Spec
=============================================================================
