----------------------------- MODULE StillAlive -----------------------------
(***************************************************************************)
(* The tables of kernel/portal/still_alive.c, and that they are a song     *)
(* Portal can play.  A note is its ticks of 10 ms, negative when it rests; *)
(* a lyric <<beat, ticks per character, the lengths of its rows>>, whose   *)
(* newlines stand between the rows; a frame the beat of its cue.           *)
(***************************************************************************)
EXTENDS Portal, SequencesExt

still_alive_notes == <<
  -100, 25, 25, 25, 25, 25, -250, 25, 25, 25, 25, 50, 25, -50, 50, 25, 25, 25, -150, 25,
  50, 25, 75, 25, 25, 25, 75, 50, 25, 50, 50, -225, 25, 25, 25, 25, 25, -250, 25, 25,
  25, 25, 50, -25, 25, 50, -25, 25, 25, 25, -175, 50, 25, 75, 25, 25, 50, 25, 25, -25,
  25, 25, 25, 25, 25, 25, 25, -50, 25, 25, 50, 50, 25, 25, 25, 25, 25, 25, 50, 25, -25,
  25, 25, 50, 50, 25, 25, 25, 25, 25, 25, 50, 25, -25, 25, 25, 25, 25, 50, 50, 25, 25,
  25, 25, 50, 50, 25, 25, 25, 25, 25, 50, 25, 25, 100, -100, -500, 25, 25, 25, 25, 25,
  25, -275, 25, 25, 25, 75, 25, 50, 50, 25, 25, -175, 50, 25, 75, 50, 50, 25, 75, 25,
  50, 50, -200, 25, 25, 25, 25, 25, 25, -250, 25, 25, 25, 25, 50, -25, 25, 50, -25, 25,
  25, 25, -175, 50, 25, 75, 50, 50, 25, 25, -25, 25, 25, 25, 25, 25, 25, 25, -50, 25,
  25, 50, 50, 25, 25, 25, 25, 25, 25, 50, 50, 25, 25, 50, 50, 25, 25, 25, 25, 25, 25,
  50, 50, 25, 25, 25, 25, 50, 50, 25, 25, 25, 25, 25, 25, 50, 25, 25, 25, 25, 25, 50,
  25, 25, 100, -100, -525, 13, 13, 25, 25, 38, 38, -225, 25, 25, 25, 25, 50, -25, 25,
  50, -25, 25, 25, 25, -175, 50, 25, 75, 50, 50, 25, 75, 25, 50, 50, -225, 25, 25, 25,
  32, 25, -269, 25, 25, 25, 50, -25, 25, 50, -25, 25, 25, 25, -175, 50, 25, 75, 50, 50,
  25, 25, -25, 25, 25, 25, 25, 25, 25, 25, -50, 25, 25, 50, 50, 25, 25, 25, 25, 25, 25,
  50, 50, 25, 25, 50, 50, 25, 25, 25, 25, 25, 25, 50, 50, 25, 25, 25, 25, 25, 25, 50,
  25, 25, 25, 25, 25, 25, 50, 25, 25, 25, 25, 25, 50, 25, 25, 100, -75, 25, 25, 25, 25,
  25, 50, 25, 25, 50, -100, 25, 25, 25, 25, 25, 25, 50, 25, 25, 50, -100, 25, 25, 25,
  25, 25, 25, 50, 25, 25, 50, -125, 25, 25, 25, 25, 25, 50, 25, 25, 50, -100, 25, 25,
  25, 25, 25, 25, 50, 25, 25, 50, -100, 25, 25, 25, 25, -100, 25, 25, 50 >>

still_alive_bass == <<
  -200, 25, 25, 25, 25, 25, 25, 25, 25, 25, 25, 25, 25, 25, 25, 25, 25, 25, 25, 25, 25,
  25, 25, 25, 25, 25, 25, 25, 25, 25, 25, 25, 25, 25, 25, 25, 25, 25, 25, 25, 25, 25,
  25, 25, 25, 25, 25, 25, 25, 25, 25, 25, 25, 25, 25, 25, 25, 25, 25, 25, 25, 25, 25,
  25, 25, 25, 25, 25, 25, 25, 25, 25, 25, 25, 25, 25, 25, 25, 25, 25, 25, 25, 25, 25,
  25, 25, 25, 25, 25, 25, 25, 25, 25, 25, 25, 25, 25, 25, 25, 25, 25, 25, 25, 25, 25,
  25, 25, 25, 25, 25, 25, 25, 25, 25, 25, 25, 100, -25, 25, 25, 25, -25, 25, 25, 25,
  -25, 25, 25, 25, 25, 25, 25, 25, -25, 25, 25, 25, -25, 25, 25, 25, -25, 25, 25, 25,
  25, 25, 25, 25, -25, 25, 25, 25, 25, 25, 25, 25, 25, 25, 25, 25, 25, 25, 25, 25, 25,
  25, 25, 25, 25, 25, 25, 25, 25, 25, 25, 25, 25, 25, 25, 25, 25, 25, 25, 25, 25, 25,
  25, 25, 25, 25, 25, 25, 25, 25, 25, 25, 25, 25, 25, 25, 25, 25, 25, 25, 25, 25, 25,
  25, 25, 25, 25, 25, 25, 25, 25, 25, 25, 25, 25, 25, 25, 25, 25, 25, 25, 25, 25, 25,
  25, 25, 25, 25, 25, 25, 25, 25, 25, 25, 25, 25, 25, 25, 25, 25, 25, 25, 25, 25, 25,
  25, 25, 25, 25, 25, 25, 25, 25, 25, 25, 25, 25, 25, 25, 25, 25, 25, 25, 25, 25, 25,
  25, 25, 25, 25, 25, 25, 25, 25, 25, 25, 25, 25, 25, 25, 25, 25, 25, 25, 25, 25, 25,
  25, 25, 25, 25, 25, 25, 25, 25, 25, 25, 25, 25, 25, 25, 25, 25, 25, 25, 25, 25, 25,
  25, 25, 25, 25, 25, 25, 25, 25, 25, 25, 25, 25, 25, 25, 25, 25, -25, 25, 25, 25, -25,
  25, 25, 25, 25, 25, 25, 25, -25, 25, 25, 25, -25, 25, 25, 25, -25, 25, 25, 25, 25, 25,
  25, 25, -25, 25, 25, 25, 25, 25, 25, 25, 25, 25, 25, 25, 25, 25, 25, 25, 25, 25, 25,
  25, 25, 25, 25, 25, 25, 25, 25, 25, 25, 25, 25, 25, 25, 25, 25, 25, 25, 25, 25, 25,
  25, 25, 25, 25, 25, 25, 25, 25, 25, 25, 25, 25, 25, 25, 25, 25, 25, 25, 25, 25, 25,
  25, 25, 25, 25, 25, 25, 25, 25, 25, 25, 25, 25, 25, 25, 25, 25, 25, 25, 25, 25, 25,
  25, 25, 25, 25, 25, 25, 25, 25, 25, 25, 25, 25, 25, 25, 25, 25, 25, 25, 25, 25, 25,
  25, 25, 25, 25, 25, 25, 25, 25, 25, 25, 25, 25, 25, 25, 25, 25, 25, 25, 25, 25, 25,
  25, 25, 25, 25, 25, 25, 25, 25, 25, 25, 25, 25, 25, 25, 25, 25, 25, 25, 25, 25, 25,
  25, 25, 25, 25, 25, 25, 25, 25, 25, 25, 25, 25, 25, 25, 25, 25, 25, 25, 25, 25, 25,
  25, 25, 25, 25, 25, 25, 25, 25, 25, 25, 25, 25, 25, 25, -25, 25, 25, 25, -25, 25, 25,
  25, 25, 25, 25, 25, -25, 25, 25, 25, -25, 25, 25, 25, -25, 25, 25, 25, 25, 25, 25, 25,
  -25, 25, 25, 25, 25, 25, 25, 25, 25, 25, 25, 25, 25, 25, 25, 25, 25, 25, 25, 25, 25,
  25, 25, 25, 25, 25, 25, 25, 25, 25, 25, 25, 25, 25, 25, 25, 25, 25, 25, 25, 25, 25,
  25, 25, 25, 25, 25, 25, 25, 25, 25, 25, 25, 25, 25, 25, 25, 25, 25, 25, 25, 25, 25,
  25, 25, 25, 25, 25, 25, 25, 25, 25, 25, 25, 25, 25, 25, 25, 25, 25, 25, 25, 25, 25,
  25, 25, 25, 25, 25, 25, 25, 25, 25, 25, 25, 25, 25, 25, 25, 25, 25, 25, 25, 25, 25,
  25, 25, 25, 25, 25, 25, 25, 25, 25, 25, 25, 25, 25, 25, 25, 25 >>

still_alive_lyrics == <<
  <<0,6,<<0,0>>>>, <<1,6,<<19,0>>>>, <<7,6,<<18>>>>, <<12,6,<<5,0>>>>, <<14,6,<<5>>>>,
  <<15,6,<<8,0>>>>, <<19,6,<<10>>>>, <<21,6,<<3>>>>, <<22,12,<<9,0>>>>, <<26,6,<<3>>>>,
  <<27,13,<<13,0>>>>, <<32,6,<<16,0>>>>, <<38,6,<<18,0>>>>, <<44,10,<<8>>>>,
  <<47,6,<<7,0>>>>, <<51,10,<<16>>>>, <<56,12,<<10,0>>>>, <<60,6,<<29,0,0>>>>,
  <<68,6,<<27,0>>>>, <<74,8,<<19,0>>>>, <<81,8,<<23,0>>>>, <<87,8,<<25,0>>>>,
  <<94,6,<<16>>>>, <<98,8,<<10,0>>>>, <<100,6,<<15>>>>, <<104,8,<<9,0>>>>,
  <<106,6,<<19>>>>, <<111,7,<<3,0>>>>, <<112,12,<<12>>>>, <<116,6,<<0,0,26,0,0>>>>,
  <<117,6,<<19,0>>>>, <<124,6,<<10>>>>, <<127,14,<<3>>>>, <<128,10,<<18,0>>>>,
  <<134,12,<<31,0>>>>, <<141,10,<<14,0>>>>, <<145,6,<<22,0>>>>, <<152,6,<<22>>>>,
  <<158,10,<<5>>>>, <<161,10,<<7,0>>>>, <<165,12,<<30,0>>>>, <<173,6,<<23,0>>>>,
  <<181,6,<<24,0>>>>, <<187,8,<<22,0>>>>, <<193,8,<<22,0>>>>, <<199,6,<<24,0>>>>,
  <<205,6,<<26,0>>>>, <<211,6,<<34,0>>>>, <<218,8,<<22,0>>>>, <<224,12,<<12,0>>>>,
  <<228,10,<<0,0,15,0,0>>>>, <<229,6,<<19>>>>, <<234,14,<<3,0>>>>, <<236,6,<<10>>>>,
  <<240,10,<<15>>>>, <<245,12,<<7,0>>>>, <<249,10,<<30,0>>>>, <<256,8,<<12,0>>>>,
  <<260,6,<<12>>>>, <<262,10,<<7,0>>>>, <<266,6,<<17>>>>, <<274,10,<<11,0>>>>,
  <<278,14,<<8>>>>, <<281,8,<<19,0>>>>, <<286,8,<<28,0>>>>, <<294,6,<<24,0>>>>,
  <<300,6,<<27,0>>>>, <<306,8,<<22,0>>>>, <<312,6,<<29,0>>>>, <<319,6,<<24,0>>>>,
  <<326,6,<<29,0>>>>, <<333,6,<<21,0>>>>, <<338,14,<<11,0>>>>, <<341,6,<<0,0,4>>>>,
  <<342,6,<<19,0>>>>, <<348,10,<<12,0>>>>, <<351,6,<<5>>>>, <<352,6,<<25,0>>>>,
  <<359,10,<<12,0>>>>, <<362,6,<<6>>>>, <<363,6,<<24,0>>>>, <<370,10,<<12,0>>>>,
  <<373,6,<<0,14,0>>>>, <<374,6,<<26,0>>>>, <<380,10,<<12,0>>>>, <<383,6,<<0,17,0>>>>,
  <<384,6,<<30,0>>>>, <<391,10,<<12,0>>>>, <<395,10,<<0,0,11,0>>>>, <<400,6,<<0,0,0>>>> >>

still_alive_frames ==
  <<0, 32, 60, 68, 94, 106, 138, 145, 161, 173, 205, 211, 218, 262, 281, 294,
    300, 306, 319, 326, 333>>

(* ms_to_ticks has been applied; the words are left out. *)
Voice(table) ==
  [i \in 1..Len(table) |-> <<table[i] > 0, IF table[i] > 0 THEN table[i] ELSE -table[i]>>]

Row(n) == [i \in 1..n |-> "x"]
Joined(rows) == FoldLeft(LAMBDA text, n : text \o <<NL>> \o Row(n), Row(rows[1]), Tail(rows))
Verse(table) ==
  [i \in 1..Len(table) |->
     [beat |-> table[i][1], ticks |-> table[i][2], text |-> Joined(table[i][3])]]

(* The columns in which the lyrics begin: one without a newline leaves the next
   in its row. *)
Columns(table) ==
  LET from[i \in 1..Len(table)] ==
        IF i = 1 THEN 0
        ELSE LET rows == table[i - 1][3]
             IN  Last(rows) + (IF Len(rows) = 1 THEN from[i - 1] ELSE 0)
  IN  from

(* The song satisfies what Portal assumes of its tables, and the box of
   portal.c, 36 characters wide, breaks no row of it. *)
ASSUME StillAliveAssumption ==
  /\ Song(Voice(still_alive_notes), Voice(still_alive_bass),
          Verse(still_alive_lyrics), still_alive_frames)
  /\ \A i \in 1..Len(still_alive_lyrics) :
       LET rows == still_alive_lyrics[i][3]
       IN  /\ Columns(still_alive_lyrics)[i] + rows[1] <= 36
           /\ \A j \in 2..Len(rows) : rows[j] <= 36
=============================================================================
