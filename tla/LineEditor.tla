----------------------------- MODULE LineEditor -----------------------------
(***************************************************************************)
(* The command line: drivers/src/keyboard.c edits key_buffer by the column *)
(* of the cursor of drivers/src/screen.c, and shell_execute_command runs   *)
(* what it finds there.                                                    *)
(*                                                                         *)
(* The keyboard handler runs with interrupts masked and is one action.     *)
(* Two programs print with interrupts enabled, so that a key can be        *)
(* handled between any two of their steps: kernel_main before its idle     *)
(* loop, and the rest of the keyboard handler that launched an app, once   *)
(* the app has left raw mode.  Each is a list of what it still has to do;  *)
(* kprint_at keeps the offset of the next character in a local variable,   *)
(* and print_char stores the character before it moves the cursor.         *)
(*                                                                         *)
(* An offset is half of the code's: it counts cells, not bytes.  Colours   *)
(* are left out, "B" stands for the banner, "o" for a command's output.    *)
(***************************************************************************)
EXTENDS Integers, Sequences, SequencesExt

CONSTANTS
  MAX_COLS, MAX_ROWS,
  Typed,     \* the characters of the keys struck, Shift and Caps Lock applied
  MaxTails,  \* the handlers cut by a further launch, as the stack has room
  MaxAhead   \* the keys struck while a program prints

ASSUME LineEditorAssumption ==
  /\ MAX_COLS \in Nat /\ MAX_COLS >= 5
  /\ MAX_ROWS \in Nat /\ MAX_ROWS >= 2
  /\ Typed \subseteq {"a", "A", " "}
  /\ MaxTails \in Nat /\ MaxAhead \in Nat

VARIABLES
  vidmem,         \* the cells of the screen
  cursor,         \* sw_cursor_offset
  key_buffer,
  programs,       \* the printing programs, the running one last
  ahead,          \* the keys handled while kernel_main or the tail of a launch
                  \* printed, since the last ENTER or Ctrl+C of the idle loop
  wrapped         \* the line has gone on past the first cell of a second row

display == <<vidmem, cursor>>
history == <<ahead, wrapped>>
vars == <<display, key_buffer, programs, history>>

NUL == "NUL"
NL == "\n"
Blank == " "
Cells == 0..(MAX_ROWS * MAX_COLS - 1)
Columns == 0..(MAX_COLS - 1)
EmptyBuffer == [i \in Columns |-> NUL]

(***************************************************************************)
(* screen.c, on a record [vidmem, cursor] of the two.  C's division rounds *)
(* towards zero: the cell before the first one is in column -1.            *)
(***************************************************************************)
get_offset_col(offset) == IF offset < 0 THEN offset ELSE offset % MAX_COLS
get_offset_row(offset) == IF offset < 0 THEN 0 ELSE offset \div MAX_COLS

Screen == [vidmem |-> vidmem, cursor |-> cursor]
Cleared == [vidmem |-> [o \in Cells |-> Blank], cursor |-> 0]

Scrolled(cells) ==
  [o \in Cells |-> IF o + MAX_COLS \in Cells THEN cells[o + MAX_COLS] ELSE NUL]

Next_offset(c, offset) == IF c = NL THEN (get_offset_row(offset) + 1) * MAX_COLS ELSE offset + 1

(* print_char up to set_cursor_offset; the offset it will return. *)
Stored(cells, c, offset) ==
  LET put == IF c = NL THEN cells ELSE [cells EXCEPT ![offset] = c]
  IN  IF Next_offset(c, offset) \in Cells THEN put ELSE Scrolled(put)
Advanced_unscrolled(c, offset) == Next_offset(c, offset)
Advanced(c, offset) ==
  IF Next_offset(c, offset) \in Cells THEN Next_offset(c, offset)
  ELSE Next_offset(c, offset) - MAX_COLS

print_char(scr, c) ==
  [vidmem |-> Stored(scr.vidmem, c, scr.cursor), cursor |-> Advanced(c, scr.cursor)]
kprint(scr, text) ==
  LET after[n \in 0..Len(text)] == IF n = 0 THEN scr ELSE print_char(after[n - 1], text[n])
  IN  after[Len(text)]

(* print_char(0x08, ...): the cell is blanked and the cursor stays on it. *)
kprint_backspace(scr) ==
  IF get_offset_col(scr.cursor - 1) > 1
  THEN [vidmem |-> [scr.vidmem EXCEPT ![scr.cursor - 1] = Blank], cursor |-> scr.cursor - 1]
  ELSE scr

Shows(scr) == vidmem' = scr.vidmem /\ cursor' = scr.cursor

(***************************************************************************)
(* Programs that print with interrupts enabled.  Begin is the read of the  *)
(* cursor at the start of a kprint, Put and Move the two steps of a        *)
(* print_char, Wipe an iteration of the loop that ends                     *)
(* shell_execute_command.                                                  *)
(***************************************************************************)
Clear == [op |-> "clear"]
Begin == [op |-> "begin"]
Put(c) == [op |-> "put", char |-> c]
Move == [op |-> "move"]
Wipe(i) == [op |-> "wipe", index |-> i]

Printing(text) ==
  [i \in 1..(2 * Len(text) + 1) |->
     IF i = 1 THEN Begin ELSE IF i % 2 = 0 THEN Put(text[i \div 2]) ELSE Move]
Wiping == [i \in 1..MAX_COLS |-> Wipe(i - 1)]

(* kernel_main from its last clear_screen; the tail of a launch. *)
Boot == <<Clear>> \o Printing(<<"B", NL>>) \o Printing(<<">", Blank>>)
Tail_of_launch ==
  <<Clear>> \o Printing(<<"B", ">", Blank>>) \o Wiping \o Printing(<<NL, ">", Blank>>)

Idle == programs = <<>>
Running == programs[Len(programs)]
InTime == [boot |-> 0, launch |-> 0]

(* The image with its prompt still to come; the cursor is where the splash
   ended. *)
Init ==
  /\ vidmem = Cleared.vidmem
  /\ cursor \in Cells
  /\ key_buffer = EmptyBuffer
  /\ programs = <<[by |-> "boot", todo |-> Boot, offset |-> 0]>>
  /\ ahead = InTime /\ wrapped = FALSE

(* A step of the running program; with nothing left to do it returns. *)
Continue(offset) ==
  programs' = IF Len(Running.todo) = 1 THEN Front(programs)
              ELSE [programs EXCEPT ![Len(programs)].todo = Tail(@),
                                    ![Len(programs)].offset = offset]

Step ==
  /\ ~Idle
  /\ LET do == Head(Running.todo)
         at == Running.offset
     IN  \/ /\ do.op = "clear"
            /\ Shows(Cleared)
            /\ Continue(at) /\ UNCHANGED key_buffer
         \/ /\ do.op = "begin"
            /\ Continue(cursor) /\ UNCHANGED <<display, key_buffer>>
         \/ /\ do.op = "put"
            /\ vidmem' = Stored(vidmem, do.char, at)
            /\ Continue(Advanced(do.char, at)) /\ UNCHANGED <<cursor, key_buffer>>
         \/ /\ do.op = "move"
            /\ cursor' = at
            /\ Continue(at) /\ UNCHANGED <<vidmem, key_buffer>>
         \/ /\ do.op = "wipe"
            /\ key_buffer' = [key_buffer EXCEPT ![do.index] = NUL]
            /\ Continue(at) /\ UNCHANGED display
  /\ UNCHANGED history

(***************************************************************************)
(* keyboard_callback, out of raw mode                                      *)
(***************************************************************************)
(* The column the handler computes, of the cell before the cursor. *)
Col == get_offset_col(cursor - 1)

(* What the stores into key_buffer make of it; outside they do not happen, or
   for ENTER on the first cell of the screen hit what lies before the array. *)
Kept(i, c) == IF i \in Columns THEN [key_buffer EXCEPT ![i] = c] ELSE key_buffer

(* The history after a key: during whose printing it came.  A user who types
   ahead of a prompt strikes at most MaxAhead keys. *)
Struck(idle) ==
  IF Idle THEN ahead' = idle
  ELSE /\ ahead[programs[1].by] < MaxAhead
       /\ ahead' = [ahead EXCEPT ![programs[1].by] = @ + 1]
Fresh == Struck(InTime) /\ wrapped' = FALSE

TypeKey(c) ==
  /\ Shows(print_char(Screen, c))
  /\ key_buffer' = Kept(Col - 1, c)
  /\ Struck(ahead)
  /\ wrapped' = (wrapped \/ (Idle /\ get_offset_col(cursor) = 0))
  /\ UNCHANGED programs

Backspace ==
  /\ Shows(kprint_backspace(Screen))
  /\ key_buffer' = Kept(Col - 2, NUL)
  /\ Struck(ahead)
  /\ UNCHANGED <<wrapped, programs>>

(* The line as a C string. *)
CString(chars) ==
  LET strlen == CHOOSE n \in 0..MAX_COLS :
                  (n \in Columns => chars[n] = NUL) /\ \A i \in 0..(n - 1) : chars[i] # NUL
  IN  [i \in 1..strlen |-> chars[i - 1]]

Line_unterminated == CString(key_buffer)
Line == CString(Kept(Col, NUL))

NewPrompt(scr) == kprint(scr, <<NL, ">", Blank>>)

(* ENTER, for a line whose command runs inside the handler, with the wipe and
   the new prompt ... *)
Execute ==
  /\ \/ Line = <<>> /\ Shows(NewPrompt(Screen))
     \/ Line # <<>> /\ Shows(NewPrompt(kprint(Screen, <<NL, "o">>)))
     \/ Line # <<>> /\ Shows(NewPrompt(kprint(Cleared, <<">", Blank>>)))
  /\ key_buffer' = EmptyBuffer
  /\ Fresh
  /\ UNCHANGED programs

(* ... and for the name of an app: the app from its entry to the end of its
   raw mode.  What it drew is not kept, the screen is cleared next; tetris and
   gamble leave the cursor on the last cell. *)
Launch ==
  /\ Line # <<>>
  /\ Len(programs) <= MaxTails
  /\ key_buffer' = Kept(Col, NUL)
  /\ cursor' \in {cursor, MAX_ROWS * MAX_COLS - 1}
  /\ programs' = Append(programs, [by |-> "launch", todo |-> Tail_of_launch, offset |-> 0])
  /\ Fresh
  /\ UNCHANGED vidmem

Cancel_keeping ==
  /\ Shows(kprint(Screen, <<"^", "C", NL, ">", Blank>>))
  /\ Fresh
  /\ UNCHANGED <<key_buffer, programs>>

(* Ctrl+C. *)
Cancel ==
  /\ Shows(kprint(Screen, <<"^", "C", NL, ">", Blank>>))
  /\ key_buffer' = EmptyBuffer
  /\ Fresh
  /\ UNCHANGED programs

Next ==
  \/ Step
  \/ \E c \in Typed : TypeKey(c)
  \/ Backspace \/ Execute \/ Launch \/ Cancel

Spec == Init /\ [][Next]_vars

(***************************************************************************)
(* Properties                                                              *)
(***************************************************************************)
Ops == {Clear, Begin, Move} \cup {Put(c) : c \in {"B", ">", Blank, NL}}
         \cup {Wipe(i) : i \in Columns}
Chars == Typed \cup {"B", ">", "o", "^", "C", Blank, NUL}

(* The cursor and every offset a program holds are on the screen, so that
   print_char never writes outside of it, whoever printed in between; and the
   last place of key_buffer is never stored to, so that the shell always finds
   the end of its input. *)
TypeOK ==
  /\ vidmem \in [Cells -> Chars] /\ cursor \in Cells
  /\ key_buffer \in [Columns -> Typed \cup {NUL}] /\ key_buffer[MAX_COLS - 1] = NUL
  /\ \A i \in DOMAIN programs :
       /\ programs[i].todo # <<>> /\ ToSet(programs[i].todo) \subseteq Ops
       /\ programs[i].offset \in Cells
  /\ ahead \in [{"boot", "launch"} -> 0..MaxAhead] /\ wrapped \in BOOLEAN

(* Where the line starts on the screen, after its prompt. *)
LineStart == get_offset_row(cursor - 1) * MAX_COLS + 2
Shown == [i \in 1..(cursor - LineStart) |-> vidmem[LineStart + i - 1]]

Prompted ==
  LineStart <= cursor /\ vidmem[LineStart - 2] = ">" /\ vidmem[LineStart - 1] = Blank

(* The kernel waits with a prompt on the screen, and key_buffer holds the text
   after it and nothing else: backspace stops at the prompt, every key lands on
   its column, Ctrl+C and a command leave nothing behind.  A key struck while a
   prompt was being printed, or a line longer than the row, can break this, but
   only until the next ENTER or Ctrl+C. *)
InSync ==
  Idle /\ ahead = InTime /\ ~wrapped =>
    /\ Prompted
    /\ \A i \in Columns :
         key_buffer[i] = IF LineStart + i < cursor THEN vidmem[LineStart + i] ELSE NUL

(* Even after keys struck while a prompt was being printed, ENTER runs the line
   that is shown, with at most one leftover character behind it (the line is
   ended one place too far). *)
RunsShown ==
  Idle /\ ahead.boot = 0 /\ ~wrapped =>
    LineStart <= cursor /\ IsPrefix(Shown, Line) /\ Len(Line) <= Len(Shown) + 1
=============================================================================
