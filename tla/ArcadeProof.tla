---------------------------- MODULE ArcadeProof ----------------------------
(***************************************************************************)
(* The casino and the song never go wrong, for any skins, capacity, song   *)
(* and box, and whenever a Ctrl+C comes.                                   *)
(*                                                                         *)
(* IInv below is inductive.  For the casino it says who may have the       *)
(* speaker on, where a paid case may be owed, and which numbers the        *)
(* entries have; for the song, that the cues taken are those of the beats  *)
(* played, and that what is typed is what the lines taken so far hold.     *)
(* Texts are typed and the inventory is sorted by recursion: their lemmas  *)
(* are by induction (Recursion).                                           *)
(***************************************************************************)
EXTENDS Arcade, Recursion, SequenceTheorems, FiniteSetTheorems

(***************************************************************************)
(* The lyric box.  Rows is the number of rows the text may have reached.   *)
(***************************************************************************)
Cells == (0..(BOX_LYRIC_H - 1)) \X (0..(BOX_LYRIC_W - 1))
Before(cell, b) == cell[1] < b.ly_row \/ (cell[1] = b.ly_row /\ cell[2] < b.ly_col)
BoxTypes(rows) == [ly_col : 0..BOX_LYRIC_W, ly_row : 0..(rows - 1), cells : SUBSET Cells]
Written(rows) == {b \in BoxTypes(rows) : \A cell \in b.cells : Before(cell, b)}
Boxes == Written(BOX_LYRIC_H)

LEMMA EmptyIsBox == EmptyBox \in Boxes
<1> QED  BY PortalAssumption DEF EmptyBox, Boxes, Written, BoxTypes

LEMMA OverflowedIsBox ==
  ASSUME NEW b \in Written(BOX_LYRIC_H + 1)
  PROVE  /\ Overflowed(b) \in Boxes
         /\ b.ly_row < BOX_LYRIC_H => Overflowed(b) = b
<1>1. b.ly_row \in Nat /\ (b.ly_row < BOX_LYRIC_H => b \in Boxes)
  BY PortalAssumption DEF Boxes, Written, BoxTypes
<1>2. b.ly_row >= BOX_LYRIC_H <=> ~(b.ly_row < BOX_LYRIC_H)
  BY <1>1, PortalAssumption
<1> QED  BY <1>1, <1>2, EmptyIsBox DEF Overflowed, lyric_box_overflow

LEMMA NextRow ==
  ASSUME NEW b \in Boxes
  PROVE  [b EXCEPT !.ly_col = 0, !.ly_row = @ + 1] \in Written(BOX_LYRIC_H + 1)
<1> DEFINE n == [b EXCEPT !.ly_col = 0, !.ly_row = @ + 1]
<1>1. b.ly_col \in Nat /\ b.ly_row \in 0..(BOX_LYRIC_H - 1) /\ b.cells \subseteq Cells
  BY DEF Boxes, Written, BoxTypes
<1>2. n = [ly_col |-> 0, ly_row |-> b.ly_row + 1, cells |-> b.cells]
  <2> DEFINE c == [b EXCEPT !.ly_col = 0]
  <2>1. c = [ly_col |-> 0, ly_row |-> b.ly_row, cells |-> b.cells]
    BY DEF Boxes, Written, BoxTypes
  <2>2. n = [c EXCEPT !.ly_row = b.ly_row + 1]
    OBVIOUS
  <2> HIDE DEF c
  <2> QED  BY <2>1, <2>2
<1> HIDE DEF n
<1>3. n \in BoxTypes(BOX_LYRIC_H + 1)
  BY <1>1, <1>2, PortalAssumption DEF BoxTypes
<1>4. ASSUME NEW cell \in n.cells
      PROVE  Before(cell, n)
  <2>1. cell[1] \in Int /\ cell[2] \in Int /\ Before(cell, b)
    BY <1>2 DEF Boxes, Written, BoxTypes, Cells
  <2> QED  BY <1>1, <1>2, <2>1 DEF Before
<1>5. n \in Written(BOX_LYRIC_H + 1)
  BY <1>3, <1>4 DEF Written
<1> QED  BY <1>5 DEF n

LEMMA PrintedIsBox ==
  ASSUME NEW b \in Boxes, b.ly_col < BOX_LYRIC_W
  PROVE  Printed(b) \in Boxes
<1> DEFINE cell == <<b.ly_row, b.ly_col>>
           p == [ly_col |-> b.ly_col + 1, ly_row |-> b.ly_row, cells |-> b.cells \cup {cell}]
<1>1. b.ly_col \in 0..(BOX_LYRIC_W - 1) /\ b.ly_row \in 0..(BOX_LYRIC_H - 1)
  BY PortalAssumption DEF Boxes, Written, BoxTypes
<1>2. Printed(b) = p
  <2> DEFINE c == [b EXCEPT !.cells = @ \cup {cell}]
  <2>1. c = [ly_col |-> b.ly_col, ly_row |-> b.ly_row, cells |-> b.cells \cup {cell}]
    BY DEF Boxes, Written, BoxTypes
  <2>2. Printed(b) = [c EXCEPT !.ly_col = b.ly_col + 1]
    BY DEF Printed
  <2> HIDE DEF c
  <2> QED  BY <2>1, <2>2
<1>3. p \in BoxTypes(BOX_LYRIC_H)
  BY <1>1, PortalAssumption DEF Boxes, Written, BoxTypes, Cells
<1>4. ASSUME NEW c \in b.cells
      PROVE  Before(c, p)
  <2>1. c[1] \in Int /\ c[2] \in Int /\ Before(c, b)
    BY DEF Boxes, Written, BoxTypes, Cells
  <2> QED  BY <1>1, <2>1 DEF Before
<1>5. Before(cell, p)
  BY <1>1 DEF Before
<1>6. p \in Boxes
  BY <1>3, <1>4, <1>5 DEF Boxes, Written
<1> QED  BY <1>2, <1>6

(* A character of any kind leaves a box a box. *)
LEMMA PutcKeepsBox ==
  ASSUME NEW b \in Boxes, NEW c
  PROVE  portal_putc(b, c) \in Boxes
<1>1. CASE c = NL
  BY <1>1, NextRow, OverflowedIsBox DEF portal_putc
<1>2. CASE c # NL
  <2>1. Wrapped(b) \in Written(BOX_LYRIC_H + 1)
    <3>1. b \in Written(BOX_LYRIC_H + 1)
      BY PortalAssumption DEF Boxes, Written, BoxTypes
    <3> QED  BY <3>1, NextRow DEF Wrapped
  <2>2. Wrapped(b).ly_col < BOX_LYRIC_W
    BY PortalAssumption DEF Wrapped, Boxes, Written, BoxTypes
  <2> DEFINE o == Overflowed(Wrapped(b))
  <2>3. o \in Boxes /\ o.ly_col < BOX_LYRIC_W
    <3>1. o \in Boxes
      BY <2>1, OverflowedIsBox
    <3>2. o = Wrapped(b) \/ o = EmptyBox
      BY DEF Overflowed, lyric_box_overflow
    <3> QED  BY <2>2, <3>1, <3>2, PortalAssumption DEF EmptyBox
  <2>4. Printed(o) \in Boxes
    BY <2>3, PrintedIsBox
  <2>5. Printed(o) \in Written(BOX_LYRIC_H + 1)
    BY <2>4, PortalAssumption DEF Boxes, Written, BoxTypes
  <2> QED  BY <1>2, <2>5, OverflowedIsBox DEF portal_putc
<1> QED  BY <1>1, <1>2

(* So does a text: by induction on the characters that are typed. *)
LEMMA PutsKeepsBox ==
  ASSUME NEW b \in Boxes, NEW text, Len(text) \in Nat
  PROVE  portal_puts(b, text) \in Boxes
<1> DEFINE g == [s \in Nat \X Boxes |-> portal_putc(s[2], text[s[1] + 1])]
           after(h) == [n \in Nat |-> IF n = 0 THEN b ELSE portal_putc(h[n - 1], text[n])]
           a == CHOOSE h : h = after(h)
<1>1. \E h : h = after(h)
  <2>1. g \in StepsOn(Boxes)
    BY PutcKeepsBox DEF StepsOn
  <2>2. \A n \in Nat, x \in Boxes : g[<<n, x>>] = portal_putc(x, text[n + 1])
    OBVIOUS
  <2> HIDE DEF g
  <2>3. PICK f : f \in Iterations(Boxes, b, g)
    BY <2>1, Iteration
  <2>4. ASSUME NEW n \in Nat
        PROVE  f[n] = after(f)[n]
    <3>1. CASE n # 0
      <4>1. n - 1 \in Nat /\ (n - 1) + 1 = n
        BY <3>1
      <4> QED  BY <2>2, <2>3, <3>1, <4>1 DEF Iterations
    <3> QED  BY <2>3, <3>1 DEF Iterations
  <2> QED  BY <2>3, <2>4 DEF Iterations
<1>2. a = after(a)
  <2> HIDE DEF after
  <2> QED  BY <1>1
<1>3. Nat \subseteq {n \in Nat : a[n] \in Boxes}
  <2> DEFINE T == {n \in Nat : a[n] \in Boxes}
  <2> HIDE DEF a
  <2>1. 0 \in T
    BY <1>2
  <2>2. ASSUME NEW n \in Nat, n \in T
        PROVE  n + 1 \in T
    <3>1. after(a)[n + 1] = portal_putc(a[(n + 1) - 1], text[n + 1])
      OBVIOUS
    <3>2. (n + 1) - 1 = n
      OBVIOUS
    <3> HIDE DEF after
    <3>3. a[n + 1] = portal_putc(a[n], text[n + 1])
      BY <1>2, <3>1, <3>2
    <3> QED  BY <2>2, <3>3, PutcKeepsBox
  <2> HIDE DEF T
  <2>3. Nat \subseteq T
    BY <2>1, <2>2, SetInduction
  <2> QED  BY <2>3 DEF T
<1>4. portal_puts(b, text) = a[Len(text)]
  BY DEF portal_puts
<1> QED  BY <1>3, <1>4
(***************************************************************************)
(* The invariant                                                           *)
(***************************************************************************)
(* The casino: who may have the speaker on, what is owed and where, and    *)
(* which entries the inventory has.                                        *)
Beeping == {"poor", "slot", "flashed", "tune"}

Numbered ==
  /\ inv_count = IF inv_seq_counter < INV_CAP THEN inv_seq_counter ELSE INV_CAP
  /\ \A i \in 1..inv_count :
       inventory[i].seq = ((inv_seq_counter - inv_count) + (i - 1)) % SeqWrap

GambleInv ==
  /\ GambleTypeOK
  /\ at \in Opening => winner \in Skins
  /\ owed => at \in Opening \/ (at = "menu" /\ cancel_requested)
  /\ speaker # "off" => app = "portal" \/ at \in Beeping
  /\ Numbered

(* The song, on a state s of portal_vars as a record: its fields, the cues taken
   of the beats below `beat`, and the characters typed. *)
SongFields == {"mel_i", "mel_due", "melody", "bass_i", "bass_due", "bass", "lyric_i", "line",
               "line_pos", "next_char", "frame_i", "toggle"}
Voices == [sounds : BOOLEAN, done : BOOLEAN]

Fields(s) ==
  /\ DOMAIN s = {"song", "box", "shown", "typed"} /\ DOMAIN s.song = SongFields
  /\ s.song.mel_i \in 0..Len(Notes) /\ s.song.bass_i \in 0..Len(Bass)
  /\ s.song.mel_due \in Nat /\ s.song.bass_due \in Nat /\ s.song.next_char \in Nat
  /\ s.song.melody \in Voices /\ s.song.bass \in Voices /\ s.song.toggle \in BOOLEAN
  /\ s.song.lyric_i \in 0..Len(Lyrics) /\ s.song.frame_i \in 1..Len(Frames)
  /\ s.song.line \in {0, s.song.lyric_i}
  /\ s.song.line # 0 => s.song.line_pos \in 0..Len(Text(s))
  /\ s.box \in Boxes /\ s.shown = s.song.frame_i

LyricsTaken(s, beat) ==
  \A i \in 1..Len(Lyrics) : i <= s.song.lyric_i <=> Lyrics[i].beat < beat

FramesTaken(s, beat) ==
  \A i \in 1..Len(Frames) : i <= s.song.frame_i <=> Frames[i] < beat \/ i = 1

Counted(s) ==
  s.typed = IF Typing(s) THEN Length[s.song.lyric_i - 1] + s.song.line_pos
            ELSE Length[s.song.lyric_i]

Playing(s) ==
  /\ Fields(s)
  /\ LyricsTaken(s, s.song.mel_i) /\ FramesTaken(s, s.song.mel_i)
  /\ Counted(s)
  /\ s.song.melody.done => s.song.mel_i = Len(Notes)

PortalInv ==
  IF app = "portal" THEN Playing(Now)
  ELSE song = NotStarted /\ box = EmptyBox /\ shown = 0 /\ typed = 0

IInv == AppStateTypeOK /\ GambleInv /\ PortalInv

(***************************************************************************)
(* Cues.  Beats that ascend from one cue to the next ascend throughout, so *)
(* that the cue after those taken is the only one a beat can have.         *)
(***************************************************************************)
LEMMA AscendingBeats ==
  ASSUME NEW b, NEW n \in Nat, \A i \in 1..n : b[i] \in Nat,
         \A i \in 1..(n - 1) : b[i] < b[i + 1]
  PROVE  \A i, j \in 1..n : i < j => b[i] < b[j]
<1> DEFINE T == {d \in Nat : \A i \in 1..n : i + 1 + d <= n => b[i] < b[i + 1 + d]}
<1>1. 0 \in T
  OBVIOUS
<1>2. ASSUME NEW d \in Nat, d \in T
      PROVE  d + 1 \in T
  <2>1. SUFFICES ASSUME NEW i \in 1..n, i + 1 + (d + 1) <= n PROVE b[i] < b[i + 1 + (d + 1)]
        OBVIOUS
  <2> DEFINE k == i + 1 + d
  <2>2. k \in 1..(n - 1) /\ i + 1 + (d + 1) = k + 1
    BY <2>1
  <2>3. b[i] < b[k]
    BY <1>2, <2>1
  <2>4. b[k] < b[k + 1] /\ b[i] \in Nat /\ b[k] \in Nat /\ b[k + 1] \in Nat
    BY <2>2
  <2> QED  BY <2>2, <2>3, <2>4
<1> HIDE DEF T
<1>3. Nat \subseteq T
  BY <1>1, <1>2, SetInduction
<1>4. ASSUME NEW i \in 1..n, NEW j \in 1..n, i < j
      PROVE  b[i] < b[j]
  <2>1. j - (i + 1) \in T /\ i + 1 + (j - (i + 1)) = j
    BY <1>3, <1>4
  <2> QED  BY <2>1 DEF T
<1> QED  BY <1>4

(* What the tables are. *)
LEMMA Tables ==
  /\ Len(Notes) \in Nat /\ Len(Bass) \in Nat /\ Len(Lyrics) \in Nat
  /\ Len(Frames) \in Nat \ {0} /\ Frames[1] = 0
  /\ \A i \in 1..Len(Notes) : Notes[i][1] \in BOOLEAN /\ Notes[i][2] \in Nat
  /\ \A i \in 1..Len(Bass) : Bass[i][1] \in BOOLEAN /\ Bass[i][2] \in Nat
  /\ \A i \in 1..Len(Lyrics) : /\ Lyrics[i].text \in Seq(STRING)
                               /\ Lyrics[i].ticks \in Nat
                               /\ Lyrics[i].beat \in 0..(Len(Notes) - 1)
  /\ \A i \in 1..Len(Frames) : Frames[i] \in 0..(Len(Notes) - 1)
  /\ \A i, j \in 1..Len(Lyrics) : i < j => Lyrics[i].beat < Lyrics[j].beat
  /\ \A i, j \in 1..Len(Frames) : i < j => Frames[i] < Frames[j]
<1> DEFINE Voice == BOOLEAN \X (Nat \ {0})
           Lyric == [beat : Nat, text : Seq(STRING) \ {<<>>}, ticks : Nat \ {0}]
<1>1. Notes \in Seq(Voice) /\ Bass \in Seq(Voice) /\ Lyrics \in Seq(Lyric) /\ Frames \in Seq(Nat)
  BY PortalAssumption DEF Song
<1>2. /\ Len(Notes) \in Nat /\ Len(Bass) \in Nat /\ Len(Lyrics) \in Nat
      /\ Len(Frames) \in Nat \ {0} /\ Frames[1] = 0
  BY <1>1, PortalAssumption DEF Song
<1>3. /\ \A i \in 1..Len(Notes) : Notes[i] \in Voice
      /\ \A i \in 1..Len(Bass) : Bass[i] \in Voice
      /\ \A i \in 1..Len(Lyrics) : Lyrics[i] \in Lyric
      /\ \A i \in 1..Len(Frames) : Frames[i] \in Nat
  <2> HIDE DEF Voice, Lyric
  <2> QED  BY <1>1
<1>4. /\ \A i \in 1..Len(Notes) : Notes[i][1] \in BOOLEAN /\ Notes[i][2] \in Nat
      /\ \A i \in 1..Len(Bass) : Bass[i][1] \in BOOLEAN /\ Bass[i][2] \in Nat
      /\ \A i \in 1..Len(Lyrics) : /\ Lyrics[i].text \in Seq(STRING)
                                   /\ Lyrics[i].ticks \in Nat /\ Lyrics[i].beat \in Nat
  BY <1>3
<1> DEFINE beats == Beats(Lyrics)
<1>5. Len(beats) = Len(Lyrics) /\ \A i \in 1..Len(Lyrics) : beats[i] = Lyrics[i].beat
  BY <1>2 DEF Beats
<1>6. Ascending(beats) /\ Ascending(Frames) /\ Played(beats, Notes) /\ Played(Frames, Notes)
  BY PortalAssumption DEF Song, Cued
<1> HIDE DEF beats
<1>7. \A i, j \in 1..Len(Lyrics) : i < j => beats[i] < beats[j]
  BY <1>2, <1>4, <1>5, <1>6, AscendingBeats DEF Ascending
<1>8. \A i, j \in 1..Len(Frames) : i < j => Frames[i] < Frames[j]
  BY <1>2, <1>3, <1>6, AscendingBeats DEF Ascending
<1> QED  BY <1>2, <1>3, <1>4, <1>5, <1>6, <1>7, <1>8 DEF Played

(* The characters of the lines, line by line. *)
LEMMA Lengths ==
  /\ Length[0] = 0
  /\ \A n \in 0..Len(Lyrics) : Length[n] \in Nat
  /\ \A n \in 1..Len(Lyrics) : Length[n] = Length[n - 1] + Len(Lyrics[n].text)
<1> DEFINE N == Len(Lyrics)
           size(n) == IF n \in 1..N THEN Len(Lyrics[n].text) ELSE 0
           g == [s \in Nat \X Nat |-> s[2] + size(s[1] + 1)]
           sums(h) == [n \in 0..N |-> IF n = 0 THEN 0 ELSE h[n - 1] + Len(Lyrics[n].text)]
<1>1. \A n \in Nat : size(n) \in Nat
  BY Tables
<1>2. PICK f : f \in Iterations(Nat, 0, g)
  <2>1. g \in StepsOn(Nat)
    BY <1>1 DEF StepsOn
  <2> HIDE DEF g
  <2> QED  BY <2>1, Iteration
<1>3. \A n \in Nat : f[n] \in Nat /\ f[0] = 0 /\ f[n + 1] = f[n] + size(n + 1)
  BY <1>2 DEF Iterations
<1> DEFINE l == [n \in 0..N |-> f[n]]
<1>4. l = sums(l)
  <2>1. ASSUME NEW n \in 0..N, n # 0
        PROVE  l[n] = l[n - 1] + Len(Lyrics[n].text)
    <3>1. n - 1 \in Nat /\ n - 1 \in 0..N /\ (n - 1) + 1 = n /\ n \in 1..N
      BY <2>1, Tables
    <3>2. l[n] = f[n] /\ l[n - 1] = f[n - 1]
      BY <3>1
    <3> QED  BY <1>3, <3>1, <3>2
  <2> QED  BY <1>3, <2>1
<1>5. Length = sums(Length)
  <2>1. Length = CHOOSE h : h = sums(h)
    BY DEF Length
  <2> HIDE DEF sums, l
  <2> QED  BY <1>4, <2>1
<1>6. N \in Nat
  BY Tables
<1>7. Length[0] = 0 /\ \A n \in 1..N : Length[n] = Length[n - 1] + Len(Lyrics[n].text)
  BY <1>5, <1>6
<1>8. \A n \in 0..N : Length[n] \in Nat
  <2> DEFINE T == {n \in Nat : n <= N => Length[n] \in Nat}
  <2>1. 0 \in T
    BY <1>7
  <2>2. ASSUME NEW n \in Nat, n \in T
        PROVE  n + 1 \in T
    <3>1. SUFFICES ASSUME n + 1 <= N PROVE Length[n + 1] \in Nat
          OBVIOUS
    <3>2. n + 1 \in 1..N /\ (n + 1) - 1 = n
      BY <1>6, <3>1
    <3>3. Length[n] \in Nat /\ Len(Lyrics[n + 1].text) \in Nat
      BY <1>6, <2>2, <3>1, <3>2, Tables
    <3> QED  BY <1>7, <3>2, <3>3
  <2> HIDE DEF T
  <2>3. Nat \subseteq T
    BY <2>1, <2>2, SetInduction
  <2> QED  BY <1>6, <2>3 DEF T
<1> QED  BY <1>7, <1>8

(***************************************************************************)
(* The parts of an iteration.  Each takes the song it finds to a song.     *)
(***************************************************************************)
Others(s, t, fields) == \A x \in SongFields \ fields : t.song[x] = s.song[x]

(* The line that is being typed is flushed: all of it is counted. *)
LEMMA FlushedWhole ==
  ASSUME NEW s, Fields(s), Counted(s)
  PROVE  LET t == Flushed(s)
         IN  /\ DOMAIN t = {"song", "box", "shown", "typed"}
             /\ t.song = s.song /\ t.shown = s.shown /\ t.box \in Boxes
             /\ t.typed = Length[s.song.lyric_i]
<1>1. CASE s.song.line = 0
  BY <1>1 DEF Flushed, Typing, Fields, Counted
<1>2. CASE s.song.line # 0
  <2> DEFINE text == Text(s)
             rest == SubSeq(text, s.song.line_pos + 1, Len(text))
             t == Flushed(s)
  <2>1. s.song.line = s.song.lyric_i /\ s.song.lyric_i \in 1..Len(Lyrics)
    BY <1>2, Tables DEF Fields
  <2>2. text \in Seq(STRING) /\ text = Lyrics[s.song.lyric_i].text
    BY <2>1, Tables DEF Text
  <2>3. s.song.line_pos \in 0..Len(text) /\ Len(text) \in Nat
    BY <1>2, <2>2 DEF Fields
  <2> HIDE DEF text
  <2>4. Len(rest) = Len(text) - s.song.line_pos /\ Len(rest) \in Nat
    BY <2>2, <2>3
  <2>5. t = [s EXCEPT !.box = portal_puts(s.box, rest), !.typed = @ + Len(rest)]
    BY <1>2 DEF Flushed, Typing, text
  <2> HIDE DEF t, rest
  <2>6. portal_puts(s.box, rest) \in Boxes
    BY <2>4, PutsKeepsBox DEF Fields
  <2>7. /\ DOMAIN t = {"song", "box", "shown", "typed"}
        /\ t.song = s.song /\ t.shown = s.shown /\ t.box \in Boxes
        /\ t.typed = s.typed + Len(rest)
    BY <2>5, <2>6 DEF Fields
  <2>8. s.typed = Length[s.song.lyric_i - 1] + s.song.line_pos
    BY <1>2 DEF Counted, Typing
  <2>9. /\ Length[s.song.lyric_i] = Length[s.song.lyric_i - 1] + Len(text)
        /\ Length[s.song.lyric_i - 1] \in Nat
    <3>1. s.song.lyric_i - 1 \in 0..Len(Lyrics)
      BY <2>1, Tables
    <3> QED  BY <2>1, <2>2, <3>1, Lengths
  <2>10. t.typed = Length[s.song.lyric_i]
    BY <2>3, <2>4, <2>7, <2>8, <2>9
  <2> QED  BY <2>7, <2>10 DEF t
<1> QED  BY <1>1, <1>2

(* A line whose beat is played is cued, and no other. *)
LEMMA LyricCueTakes ==
  ASSUME NEW s, Fields(s), Counted(s), LyricsTaken(s, s.song.mel_i)
  PROVE  LET t == LyricCue(s)
         IN  /\ Fields(t) /\ Counted(t) /\ LyricsTaken(t, s.song.mel_i + 1)
             /\ Others(s, t, {"line", "line_pos", "next_char", "lyric_i"})
<1> DEFINE L == s.song.lyric_i
           beat == s.song.mel_i
           t == LyricCue(s)
<1>1. L \in 0..Len(Lyrics) /\ L \in Nat /\ beat \in Nat /\ Len(Lyrics) \in Nat
  BY Tables DEF Fields
<1>2. \A i \in 1..Len(Lyrics) : Lyrics[i].beat \in Nat
  BY Tables
<1>3. \A i \in 1..Len(Lyrics) : i > L + 1 => Lyrics[L + 1].beat < Lyrics[i].beat
  <2>1. \A i, j \in 1..Len(Lyrics) : i < j => Lyrics[i].beat < Lyrics[j].beat
    BY Tables
  <2>2. ASSUME NEW i \in 1..Len(Lyrics), i > L + 1
        PROVE  L + 1 \in 1..Len(Lyrics) /\ L + 1 < i
    BY <1>1, <2>2
  <2> QED  BY <2>1, <2>2
<1>4. L < Len(Lyrics) => Lyrics[L + 1].beat >= beat
  BY <1>1, <1>2 DEF LyricsTaken
<1>5. CASE L < Len(Lyrics) /\ Lyrics[L + 1].beat = beat
  <2> DEFINE f == Flushed(s)
  <2>1. /\ DOMAIN f = {"song", "box", "shown", "typed"}
        /\ f.song = s.song /\ f.shown = s.shown /\ f.box \in Boxes
        /\ f.typed = Length[L]
    BY FlushedWhole
  <2>2. t = [f EXCEPT !.song.line = L + 1, !.song.line_pos = 0,
                      !.song.next_char = 0, !.song.lyric_i = @ + 1]
    BY <1>5 DEF LyricCue
  <2> HIDE DEF t, f
  <2>3. /\ DOMAIN t = {"song", "box", "shown", "typed"} /\ DOMAIN t.song = SongFields
        /\ t.song.line = L + 1 /\ t.song.lyric_i = L + 1
        /\ t.song.line_pos = 0 /\ t.song.next_char = 0
        /\ t.box = f.box /\ t.shown = f.shown /\ t.typed = f.typed
    BY <2>1, <2>2 DEF Fields, SongFields
  <2>4. Others(s, t, {"line", "line_pos", "next_char", "lyric_i"})
    BY <2>1, <2>2 DEF Fields, SongFields, Others
  <2>5. /\ t.song.mel_i = s.song.mel_i /\ t.song.bass_i = s.song.bass_i
        /\ t.song.mel_due = s.song.mel_due /\ t.song.bass_due = s.song.bass_due
        /\ t.song.melody = s.song.melody /\ t.song.bass = s.song.bass
        /\ t.song.toggle = s.song.toggle /\ t.song.frame_i = s.song.frame_i
    BY <2>4 DEF Others, SongFields
  <2>6. Len(Text(t)) \in Nat /\ L + 1 \in 1..Len(Lyrics)
    BY <1>1, <1>5, <2>3, Tables DEF Text
  <2>7. Fields(t)
    BY <2>1, <2>3, <2>5, <2>6 DEF Fields
  <2>8. Counted(t)
    <3>1. Length[L] \in Nat /\ (L + 1) - 1 = L /\ L + 1 # 0
      BY <1>1, Lengths
    <3>2. t.typed = Length[t.song.lyric_i - 1] + t.song.line_pos
      BY <2>1, <2>3, <3>1
    <3> QED  BY <2>3, <3>1, <3>2 DEF Counted, Typing
  <2>9. LyricsTaken(t, beat + 1)
    <3>1. ASSUME NEW i \in 1..Len(Lyrics)
          PROVE  i <= L + 1 <=> Lyrics[i].beat < beat + 1
      BY <1>1, <1>2, <1>3, <1>5 DEF LyricsTaken
    <3> QED  BY <2>3, <3>1 DEF LyricsTaken
  <2> QED  BY <2>4, <2>7, <2>8, <2>9 DEF t
<1>6. CASE ~(L < Len(Lyrics) /\ Lyrics[L + 1].beat = beat)
  <2>1. t = s
    BY <1>6 DEF LyricCue
  <2>2. ASSUME NEW i \in 1..Len(Lyrics)
        PROVE  i <= L <=> Lyrics[i].beat < beat + 1
    <3>1. CASE i <= L
      BY <1>1, <1>2, <3>1 DEF LyricsTaken
    <3>2. CASE i > L
      <4>1. Lyrics[L + 1].beat > beat /\ L + 1 \in 1..Len(Lyrics)
        BY <1>1, <1>2, <1>4, <1>6, <3>2
      <4>2. Lyrics[i].beat >= Lyrics[L + 1].beat
        BY <1>1, <1>2, <1>3, <3>2, <4>1
      <4> QED  BY <1>1, <1>2, <3>2, <4>1, <4>2
    <3> QED  BY <1>1, <3>1, <3>2
  <2> QED  BY <2>1, <2>2 DEF LyricsTaken, Others
<1> QED  BY <1>5, <1>6

(* So is a picture. *)
LEMMA FrameCueTakes ==
  ASSUME NEW s, Fields(s), Counted(s), FramesTaken(s, s.song.mel_i)
  PROVE  LET t == FrameCue(s)
         IN  /\ Fields(t) /\ Counted(t) /\ FramesTaken(t, s.song.mel_i + 1)
             /\ Others(s, t, {"frame_i"})
<1> DEFINE F == s.song.frame_i
           beat == s.song.mel_i
           t == FrameCue(s)
<1>1. F \in 1..Len(Frames) /\ F \in Nat /\ beat \in Nat /\ Len(Frames) \in Nat
  BY Tables DEF Fields
<1>2. \A i \in 1..Len(Frames) : Frames[i] \in Nat
  BY Tables
<1>3. \A i \in 1..Len(Frames) : i > F + 1 => Frames[F + 1] < Frames[i]
  <2>1. \A i, j \in 1..Len(Frames) : i < j => Frames[i] < Frames[j]
    BY Tables
  <2>2. ASSUME NEW i \in 1..Len(Frames), i > F + 1
        PROVE  F + 1 \in 1..Len(Frames) /\ F + 1 < i
    BY <1>1, <2>2
  <2> QED  BY <2>1, <2>2
<1>4. F < Len(Frames) => Frames[F + 1] >= beat
  BY <1>1, <1>2 DEF FramesTaken
<1>5. CASE F < Len(Frames) /\ Frames[F + 1] = beat
  <2>1. t = [s EXCEPT !.shown = F + 1, !.song.frame_i = @ + 1]
    BY <1>5 DEF FrameCue
  <2> HIDE DEF t
  <2>2. /\ DOMAIN t = {"song", "box", "shown", "typed"} /\ DOMAIN t.song = SongFields
        /\ t.song.frame_i = F + 1 /\ t.shown = F + 1
        /\ t.box = s.box /\ t.typed = s.typed
    BY <2>1 DEF Fields, SongFields
  <2>3. Others(s, t, {"frame_i"})
    BY <2>1 DEF Fields, SongFields, Others
  <2>4. /\ t.song.mel_i = s.song.mel_i /\ t.song.bass_i = s.song.bass_i
        /\ t.song.mel_due = s.song.mel_due /\ t.song.bass_due = s.song.bass_due
        /\ t.song.melody = s.song.melody /\ t.song.bass = s.song.bass
        /\ t.song.toggle = s.song.toggle /\ t.song.next_char = s.song.next_char
        /\ t.song.lyric_i = s.song.lyric_i
        /\ t.song.line = s.song.line /\ t.song.line_pos = s.song.line_pos
    BY <2>3 DEF Others, SongFields
  <2>5. Fields(t) /\ Counted(t)
    BY <1>1, <1>5, <2>2, <2>4 DEF Fields, Text, Counted, Typing
  <2>6. FramesTaken(t, beat + 1)
    <3>1. ASSUME NEW i \in 1..Len(Frames)
          PROVE  i <= F + 1 <=> Frames[i] < beat + 1 \/ i = 1
      BY <1>1, <1>2, <1>3, <1>5 DEF FramesTaken
    <3> QED  BY <2>2, <3>1 DEF FramesTaken
  <2> QED  BY <2>3, <2>5, <2>6 DEF t
<1>6. CASE ~(F < Len(Frames) /\ Frames[F + 1] = beat)
  <2>1. t = s
    BY <1>6 DEF FrameCue
  <2>2. ASSUME NEW i \in 1..Len(Frames)
        PROVE  i <= F <=> Frames[i] < beat + 1 \/ i = 1
    <3>1. CASE i <= F
      BY <1>1, <1>2, <3>1 DEF FramesTaken
    <3>2. CASE i > F
      <4>1. Frames[F + 1] > beat /\ F + 1 \in 1..Len(Frames)
        BY <1>1, <1>2, <1>4, <1>6, <3>2
      <4>2. Frames[i] >= Frames[F + 1]
        BY <1>1, <1>2, <1>3, <3>2, <4>1
      <4> QED  BY <1>1, <1>2, <3>2, <4>1, <4>2
    <3> QED  BY <1>1, <3>1, <3>2
  <2> QED  BY <2>1, <2>2 DEF FramesTaken, Others
<1> QED  BY <1>5, <1>6

(* A note that has ended is followed by the next; the others are left. *)
LEMMA AdvancedVoice ==
  ASSUME NEW notes, Len(notes) \in Nat,
         \A i \in 1..Len(notes) : notes[i][1] \in BOOLEAN /\ notes[i][2] \in Nat,
         NEW i \in 0..Len(notes), NEW due \in Nat, NEW voice \in Voices
  PROVE  LET next == Advanced(notes, i, due, voice)
         IN  /\ next.i \in 0..Len(notes) /\ next.due \in Nat /\ next.voice \in Voices
             /\ next.voice.done /\ (voice.done => i = Len(notes)) =>
                  i = Len(notes) /\ next.i = Len(notes)
             /\ next.i = IF ~voice.done /\ due = 0 /\ i < Len(notes) THEN i + 1 ELSE i
<1>1. CASE voice.done \/ due > 0
  BY <1>1 DEF Advanced
<1>2. CASE ~voice.done /\ due = 0 /\ i = Len(notes)
  BY <1>2 DEF Advanced, Voices
<1>3. CASE ~voice.done /\ due = 0 /\ i < Len(notes)
  <2>1. i + 1 \in 1..Len(notes)
    BY <1>3
  <2> QED  BY <1>3, <2>1 DEF Advanced, Voices
<1> QED  BY <1>1, <1>2, <1>3

(* The next note leaves the lyrics and the pictures alone. *)
LEMMA NoteAdvances ==
  ASSUME NEW s, Fields(s), Counted(s), s.song.melody.done => s.song.mel_i = Len(Notes)
  PROVE  LET t == Note(s)
         IN  /\ Fields(t) /\ Counted(t)
             /\ t.song.melody.done => s.song.mel_i = Len(Notes) /\ t.song.mel_i = Len(Notes)
             /\ Others(s, t, {"mel_i", "mel_due", "melody"})
             /\ t.song.mel_i = IF ~s.song.melody.done /\ s.song.mel_due = 0
                                  /\ s.song.mel_i < Len(Notes)
                               THEN s.song.mel_i + 1 ELSE s.song.mel_i
             /\ t.box = s.box /\ t.shown = s.shown /\ t.typed = s.typed
<1> DEFINE next == Advanced(Notes, s.song.mel_i, s.song.mel_due, s.song.melody)
           t == Note(s)
<1>1. /\ next.i \in 0..Len(Notes) /\ next.due \in Nat /\ next.voice \in Voices
      /\ next.voice.done => next.i = Len(Notes) /\ s.song.mel_i = Len(Notes)
      /\ next.i = IF ~s.song.melody.done /\ s.song.mel_due = 0 /\ s.song.mel_i < Len(Notes)
                  THEN s.song.mel_i + 1 ELSE s.song.mel_i
  <2>1. /\ s.song.mel_i \in 0..Len(Notes) /\ s.song.mel_due \in Nat /\ s.song.melody \in Voices
        /\ s.song.melody.done => s.song.mel_i = Len(Notes)
    BY DEF Fields
  <2>2. /\ Len(Notes) \in Nat
        /\ \A i \in 1..Len(Notes) : Notes[i][1] \in BOOLEAN /\ Notes[i][2] \in Nat
    BY Tables
  <2> QED  BY <2>1, <2>2, AdvancedVoice
<1>2. t = [s EXCEPT !.song.mel_i = next.i, !.song.mel_due = next.due,
                    !.song.melody = next.voice]
  BY DEF Note
<1> HIDE DEF t, next
<1>3. /\ DOMAIN t = {"song", "box", "shown", "typed"} /\ DOMAIN t.song = SongFields
      /\ t.song.mel_i = next.i /\ t.song.mel_due = next.due /\ t.song.melody = next.voice
      /\ t.box = s.box /\ t.shown = s.shown /\ t.typed = s.typed
  BY <1>2 DEF Fields, SongFields
<1>4. Others(s, t, {"mel_i", "mel_due", "melody"})
  BY <1>2 DEF Fields, SongFields, Others
<1>5. /\ t.song.bass_i = s.song.bass_i /\ t.song.bass_due = s.song.bass_due
      /\ t.song.bass = s.song.bass /\ t.song.frame_i = s.song.frame_i
      /\ t.song.toggle = s.song.toggle /\ t.song.next_char = s.song.next_char
      /\ t.song.lyric_i = s.song.lyric_i
      /\ t.song.line = s.song.line /\ t.song.line_pos = s.song.line_pos
  BY <1>4 DEF Others, SongFields
<1>6. Fields(t) /\ Counted(t)
  BY <1>1, <1>3, <1>5 DEF Fields, Text, Counted, Typing
<1> QED  BY <1>1, <1>3, <1>4, <1>6 DEF t

(* A beat of the melody takes its cues, then its note. *)
LEMMA MelodyPlays ==
  ASSUME NEW s, Playing(s)
  PROVE  LET t == Melody(s)
         IN  /\ Playing(t)
             /\ t.song.melody.done => t.typed = s.typed /\ t.shown = s.shown
                                      /\ t.song.line = s.song.line
<1> DEFINE t == Melody(s)
<1> SUFFICES /\ Playing(t)
             /\ t.song.melody.done => t.typed = s.typed /\ t.shown = s.shown
                                      /\ t.song.line = s.song.line
    OBVIOUS
<1> HIDE DEF t
<1>1. CASE ~s.song.melody.done /\ s.song.mel_due = 0 /\ s.song.mel_i < Len(Notes)
  <2> DEFINE u == LyricCue(s)
             c == FrameCue(u)
             beat == s.song.mel_i
  <2>1. /\ Fields(u) /\ Counted(u) /\ LyricsTaken(u, beat + 1)
        /\ Others(s, u, {"line", "line_pos", "next_char", "lyric_i"})
    BY LyricCueTakes DEF Playing
  <2> HIDE DEF u
  <2>2. /\ u.song.mel_i = s.song.mel_i /\ u.song.frame_i = s.song.frame_i
        /\ u.song.melody = s.song.melody /\ u.song.mel_due = s.song.mel_due
    BY <2>1 DEF Others, SongFields
  <2>3. FramesTaken(u, u.song.mel_i)
    BY <2>2 DEF Playing, FramesTaken
  <2>4. /\ Fields(c) /\ Counted(c) /\ FramesTaken(c, beat + 1) /\ Others(u, c, {"frame_i"})
    BY <2>1, <2>2, <2>3, FrameCueTakes
  <2> HIDE DEF c
  <2>5. /\ c.song.mel_i = beat /\ c.song.lyric_i = u.song.lyric_i
        /\ c.song.melody = s.song.melody /\ c.song.mel_due = s.song.mel_due
    BY <2>2, <2>4 DEF Others, SongFields
  <2>6. LyricsTaken(c, beat + 1)
    BY <2>1, <2>5 DEF LyricsTaken
  <2> DEFINE n == Note(c)
  <2>7. /\ Fields(n) /\ Counted(n)
        /\ n.song.melody.done => n.song.mel_i = Len(Notes)
        /\ Others(c, n, {"mel_i", "mel_due", "melody"}) /\ n.song.mel_i = beat + 1
    BY <1>1, <2>4, <2>5, NoteAdvances
  <2>8. ~n.song.melody.done
    BY <1>1, <2>4, <2>5, NoteAdvances
  <2> HIDE DEF n
  <2>9. n.song.lyric_i = c.song.lyric_i /\ n.song.frame_i = c.song.frame_i
    BY <2>7 DEF Others, SongFields
  <2>10. LyricsTaken(n, n.song.mel_i) /\ FramesTaken(n, n.song.mel_i)
    BY <2>4, <2>6, <2>7, <2>9 DEF LyricsTaken, FramesTaken
  <2>11. t = n
    BY <1>1 DEF t, Melody, Cues, n, c, u
  <2> QED  BY <2>7, <2>8, <2>10, <2>11 DEF Playing
<1>2. CASE ~(~s.song.melody.done /\ s.song.mel_due = 0 /\ s.song.mel_i < Len(Notes))
  <2> DEFINE n == Note(s)
  <2>1. /\ Fields(n) /\ Counted(n)
        /\ n.song.melody.done => n.song.mel_i = Len(Notes)
        /\ Others(s, n, {"mel_i", "mel_due", "melody"}) /\ n.song.mel_i = s.song.mel_i
        /\ n.typed = s.typed /\ n.shown = s.shown
    BY <1>2, NoteAdvances DEF Playing
  <2> HIDE DEF n
  <2>2. /\ n.song.lyric_i = s.song.lyric_i /\ n.song.frame_i = s.song.frame_i
        /\ n.song.line = s.song.line
    BY <2>1 DEF Others, SongFields
  <2>3. t = n
    BY <1>2 DEF t, Melody, n
  <2> QED  BY <2>1, <2>2, <2>3 DEF Playing, LyricsTaken, FramesTaken
<1> QED  BY <1>1, <1>2

(* The second voice and the typewriter, which has typed all of a line before
   it lets go of it. *)
LEMMA BassPlays ==
  ASSUME NEW s, Playing(s)
  PROVE  LET t == BassLine(s)
         IN  /\ Playing(t)
             /\ t.typed = s.typed /\ t.shown = s.shown /\ t.song.line = s.song.line
             /\ t.song.melody = s.song.melody
<1> DEFINE next == Advanced(Bass, s.song.bass_i, s.song.bass_due, s.song.bass)
           t == BassLine(s)
<1>1. next.i \in 0..Len(Bass) /\ next.due \in Nat /\ next.voice \in Voices
  <2>1. s.song.bass_i \in 0..Len(Bass) /\ s.song.bass_due \in Nat /\ s.song.bass \in Voices
    BY DEF Playing, Fields
  <2>2. /\ Len(Bass) \in Nat
        /\ \A i \in 1..Len(Bass) : Bass[i][1] \in BOOLEAN /\ Bass[i][2] \in Nat
    BY Tables
  <2> QED  BY <2>1, <2>2, AdvancedVoice
<1>2. t = [s EXCEPT !.song.bass_i = next.i, !.song.bass_due = next.due,
                    !.song.bass = next.voice]
  BY DEF BassLine
<1> HIDE DEF t, next
<1>3. /\ DOMAIN t = {"song", "box", "shown", "typed"} /\ DOMAIN t.song = SongFields
      /\ t.song.bass_i = next.i /\ t.song.bass_due = next.due /\ t.song.bass = next.voice
      /\ t.box = s.box /\ t.shown = s.shown /\ t.typed = s.typed
  BY <1>2 DEF Playing, Fields, SongFields
<1>4. Others(s, t, {"bass_i", "bass_due", "bass"})
  BY <1>2 DEF Playing, Fields, SongFields, Others
<1>5. /\ t.song.mel_i = s.song.mel_i /\ t.song.mel_due = s.song.mel_due
      /\ t.song.melody = s.song.melody /\ t.song.frame_i = s.song.frame_i
      /\ t.song.toggle = s.song.toggle /\ t.song.next_char = s.song.next_char
      /\ t.song.lyric_i = s.song.lyric_i
      /\ t.song.line = s.song.line /\ t.song.line_pos = s.song.line_pos
  BY <1>4 DEF Others, SongFields
<1>6. Playing(t)
  BY <1>1, <1>3, <1>5 DEF Playing, Fields, Text, Counted, Typing, LyricsTaken, FramesTaken
<1> QED  BY <1>3, <1>5, <1>6 DEF t

LEMMA ToggledPlays ==
  ASSUME NEW s, Playing(s)
  PROVE  LET t == Toggled(s)
         IN  /\ Playing(t)
             /\ t.typed = s.typed /\ t.shown = s.shown /\ t.song.line = s.song.line
             /\ t.song.melody = s.song.melody
<1> DEFINE t == [s EXCEPT !.song.toggle = ~@]
<1>1. /\ DOMAIN t = {"song", "box", "shown", "typed"} /\ DOMAIN t.song = SongFields
      /\ t.song.toggle \in BOOLEAN
      /\ t.box = s.box /\ t.shown = s.shown /\ t.typed = s.typed
  BY DEF Playing, Fields, SongFields
<1>2. Others(s, t, {"toggle"})
  BY DEF Playing, Fields, SongFields, Others
<1> HIDE DEF t
<1>3. /\ t.song.mel_i = s.song.mel_i /\ t.song.mel_due = s.song.mel_due
      /\ t.song.melody = s.song.melody /\ t.song.frame_i = s.song.frame_i
      /\ t.song.bass_i = s.song.bass_i /\ t.song.bass_due = s.song.bass_due
      /\ t.song.bass = s.song.bass /\ t.song.next_char = s.song.next_char
      /\ t.song.lyric_i = s.song.lyric_i
      /\ t.song.line = s.song.line /\ t.song.line_pos = s.song.line_pos
  BY <1>2 DEF Others, SongFields
<1>4. Playing(t)
  BY <1>1, <1>3 DEF Playing, Fields, Text, Counted, Typing, LyricsTaken, FramesTaken
<1>5. Toggled(s) = IF Interleaving(s) THEN t ELSE s
  BY DEF Toggled, t
<1> QED  BY <1>1, <1>3, <1>4, <1>5

LEMMA TypewriterTypes ==
  ASSUME NEW s, Playing(s)
  PROVE  LET t == Typewriter(s)
         IN  /\ Playing(t)
             /\ t.shown = s.shown /\ t.song.melody = s.song.melody
             /\ t.song.line = 0 => t.typed = s.typed
<1> DEFINE t == Typewriter(s)
<1> SUFFICES /\ Playing(t)
             /\ t.shown = s.shown /\ t.song.melody = s.song.melody
             /\ t.song.line = 0 => t.typed = s.typed
    OBVIOUS
<1>1. CASE ~Typing(s) \/ s.song.next_char > 0
  <2>1. t = s
    BY <1>1 DEF Typewriter
  <2> QED  BY <2>1
<1>2. CASE Typing(s) /\ ~(s.song.next_char > 0)
  <2> DEFINE text == Text(s)
  <2>1. /\ s.song.line = s.song.lyric_i /\ s.song.lyric_i \in 1..Len(Lyrics)
        /\ s.song.line_pos \in 0..Len(text) /\ Fields(s) /\ Counted(s)
    BY <1>2, Tables DEF Playing, Fields, Typing
  <2>2. text = Lyrics[s.song.lyric_i].text /\ Len(text) \in Nat
    BY <2>1, Tables DEF Text
  <2>3. CASE s.song.line_pos = Len(text)
    <3>1. t = [s EXCEPT !.song.line = 0]
      BY <1>2, <2>3 DEF Typewriter
    <3> HIDE DEF t, text
    <3>2. /\ DOMAIN t = {"song", "box", "shown", "typed"} /\ DOMAIN t.song = SongFields
          /\ t.song.line = 0
          /\ t.box = s.box /\ t.shown = s.shown /\ t.typed = s.typed
      BY <2>1, <3>1 DEF Fields, SongFields
    <3>3. Others(s, t, {"line"})
      BY <2>1, <3>1 DEF Fields, SongFields, Others
    <3>4. /\ t.song.mel_i = s.song.mel_i /\ t.song.mel_due = s.song.mel_due
          /\ t.song.melody = s.song.melody /\ t.song.frame_i = s.song.frame_i
          /\ t.song.bass_i = s.song.bass_i /\ t.song.bass_due = s.song.bass_due
          /\ t.song.bass = s.song.bass /\ t.song.next_char = s.song.next_char
          /\ t.song.lyric_i = s.song.lyric_i /\ t.song.toggle = s.song.toggle
          /\ t.song.line_pos = s.song.line_pos
      BY <3>3 DEF Others, SongFields
    <3>5. t.typed = Length[s.song.lyric_i]
      <4>1. s.typed = Length[s.song.lyric_i - 1] + Len(text)
        BY <1>2, <2>1, <2>3 DEF Counted
      <4> QED  BY <2>1, <2>2, <3>2, <4>1, Lengths
    <3>6. Fields(t) /\ Counted(t)
      BY <2>1, <3>2, <3>4, <3>5 DEF Fields, Counted, Typing
    <3> QED  BY <3>2, <3>4, <3>6 DEF Playing, LyricsTaken, FramesTaken
  <2>4. CASE s.song.line_pos # Len(text)
    <3>1. t = [s EXCEPT !.box = portal_putc(@, text[s.song.line_pos + 1]), !.typed = @ + 1,
                        !.song.line_pos = @ + 1, !.song.next_char = Lyrics[s.song.line].ticks]
      BY <1>2, <2>4 DEF Typewriter
    <3> HIDE DEF t
    <3>2. portal_putc(s.box, text[s.song.line_pos + 1]) \in Boxes
      BY <2>1, PutcKeepsBox DEF Fields
    <3>3. Lyrics[s.song.line].ticks \in Nat
      BY <2>1, Tables
    <3> HIDE DEF text
    <3>4. /\ DOMAIN t = {"song", "box", "shown", "typed"} /\ DOMAIN t.song = SongFields
          /\ t.song.line_pos = s.song.line_pos + 1 /\ t.song.next_char \in Nat
          /\ t.box \in Boxes /\ t.shown = s.shown /\ t.typed = s.typed + 1
      BY <2>1, <3>1, <3>2, <3>3 DEF Fields, SongFields
    <3>5. Others(s, t, {"line_pos", "next_char"})
      BY <2>1, <3>1 DEF Fields, SongFields, Others
    <3>6. /\ t.song.mel_i = s.song.mel_i /\ t.song.mel_due = s.song.mel_due
          /\ t.song.melody = s.song.melody /\ t.song.frame_i = s.song.frame_i
          /\ t.song.bass_i = s.song.bass_i /\ t.song.bass_due = s.song.bass_due
          /\ t.song.bass = s.song.bass /\ t.song.line = s.song.line
          /\ t.song.lyric_i = s.song.lyric_i /\ t.song.toggle = s.song.toggle
      BY <3>5 DEF Others, SongFields
    <3>7. Text(t) = text /\ t.song.line_pos \in 0..Len(text)
      BY <2>1, <2>2, <2>4, <3>4, <3>6 DEF Text, text
    <3>8. Fields(t)
      BY <2>1, <3>4, <3>6, <3>7 DEF Fields
    <3>9. Counted(t)
      <4>1. s.typed = Length[s.song.lyric_i - 1] + s.song.line_pos
        BY <1>2, <2>1 DEF Counted
      <4>2. Length[s.song.lyric_i - 1] \in Nat
        <5>1. s.song.lyric_i - 1 \in 0..Len(Lyrics)
          BY <2>1, Tables
        <5> QED  BY <5>1, Lengths
      <4>3. t.typed = Length[s.song.lyric_i - 1] + (s.song.line_pos + 1)
        <5>1. s.song.line_pos \in Nat
          BY <2>1, <2>2
        <5> QED  BY <3>4, <4>1, <4>2, <5>1
      <4>4. t.song.line # 0
        BY <1>2, <3>6 DEF Typing
      <4> QED  BY <3>4, <3>6, <4>3, <4>4 DEF Counted, Typing
    <3> QED  BY <1>2, <3>4, <3>6, <3>8, <3>9 DEF Playing, LyricsTaken, FramesTaken, Typing
  <2> QED  BY <2>3, <2>4
<1> QED  BY <1>1, <1>2

(* An iteration plays on, and one that ends the song has nothing left to type
   or to show. *)
LEMMA IterationPlays ==
  ASSUME NEW s, Playing(s)
  PROVE  LET t == Typewriter(Toggled(BassLine(Melody(s))))
         IN  /\ Playing(t)
             /\ Over(t) => s.typed = Length[Len(Lyrics)] /\ s.shown = Len(Frames)
<1> DEFINE m == Melody(s)
           b == BassLine(m)
           o == Toggled(b)
           t == Typewriter(o)
<1>1. /\ Playing(m)
      /\ m.song.melody.done => m.typed = s.typed /\ m.shown = s.shown
                               /\ m.song.line = s.song.line
  BY MelodyPlays
<1>2. /\ Playing(b) /\ b.typed = m.typed /\ b.shown = m.shown
      /\ b.song.melody = m.song.melody
  <2> HIDE DEF m
  <2> QED  BY <1>1, BassPlays
<1>3. /\ Playing(o) /\ o.typed = b.typed /\ o.shown = b.shown
      /\ o.song.melody = b.song.melody
  <2> HIDE DEF b
  <2> QED  BY <1>2, ToggledPlays
<1>4. /\ Playing(t) /\ t.shown = o.shown /\ t.song.melody = o.song.melody
      /\ t.song.line = 0 => t.typed = o.typed
  <2> HIDE DEF o
  <2> QED  BY <1>3, TypewriterTypes
<1>5. ASSUME Over(t)
      PROVE  s.typed = Length[Len(Lyrics)] /\ s.shown = Len(Frames)
  <2> HIDE DEF m, b, o, t
  <2>1. t.song.melody.done /\ t.song.line = 0
    BY <1>5 DEF Over, Typing
  <2>2. t.typed = s.typed /\ t.shown = s.shown
    BY <1>1, <1>2, <1>3, <1>4, <2>1
  <2>3. /\ t.song.mel_i = Len(Notes)
        /\ t.song.lyric_i \in 0..Len(Lyrics) /\ t.song.frame_i \in 1..Len(Frames)
        /\ LyricsTaken(t, Len(Notes)) /\ FramesTaken(t, Len(Notes))
        /\ t.typed = Length[t.song.lyric_i] /\ t.shown = t.song.frame_i
    BY <1>4, <2>1 DEF Playing, Fields, Counted, Typing
  <2>4. t.song.lyric_i = Len(Lyrics)
    <3>1. Len(Lyrics) # 0 => Lyrics[Len(Lyrics)].beat < Len(Notes)
      BY Tables
    <3> QED  BY <2>3, <3>1, Tables DEF LyricsTaken
  <2>5. t.song.frame_i = Len(Frames)
    <3>1. Frames[Len(Frames)] < Len(Notes)
      BY Tables
    <3> QED  BY <2>3, <3>1, Tables DEF FramesTaken
  <2> QED  BY <2>2, <2>3, <2>4, <2>5
<1> HIDE DEF t
<1>6. Typewriter(Toggled(BassLine(Melody(s)))) = t
  BY DEF t
<1> QED  BY <1>4, <1>5, <1>6

(***************************************************************************)
(* The steps                                                               *)
(***************************************************************************)
LEMMA StartPlays ==
  Playing([song |-> NotStarted, box |-> EmptyBox, shown |-> 1, typed |-> 0])
<1> DEFINE s == [song |-> NotStarted, box |-> EmptyBox, shown |-> 1, typed |-> 0]
<1>1. /\ DOMAIN s = {"song", "box", "shown", "typed"} /\ DOMAIN NotStarted = SongFields
      /\ NotStarted.melody \in Voices /\ NotStarted.bass \in Voices
      /\ ~NotStarted.melody.done
  BY DEF NotStarted, SongFields, Silent, Voices
<1>2. Fields(s)
  <2>1. /\ s.song = NotStarted /\ s.box \in Boxes /\ s.shown = 1
        /\ NotStarted.mel_i = 0 /\ NotStarted.bass_i = 0 /\ NotStarted.mel_due = 0
        /\ NotStarted.bass_due = 0 /\ NotStarted.next_char = 0 /\ NotStarted.toggle = FALSE
        /\ NotStarted.lyric_i = 0 /\ NotStarted.line = 0 /\ NotStarted.frame_i = 1
    BY EmptyIsBox DEF NotStarted
  <2> HIDE DEF s
  <2>2. /\ 0 \in 0..Len(Notes) /\ 0 \in 0..Len(Bass) /\ 0 \in 0..Len(Lyrics)
        /\ 1 \in 1..Len(Frames)
    BY Tables
  <2>3. 0 \in Nat /\ s.song.line \in {0, s.song.lyric_i} /\ s.shown = s.song.frame_i
    BY <2>1
  <2>4. DOMAIN s = {"song", "box", "shown", "typed"} /\ DOMAIN s.song = SongFields
    BY <1>1, <2>1
  <2> HIDE DEF s
  <2> QED  BY <1>1, <2>1, <2>2, <2>3, <2>4 DEF Fields
<1>3. LyricsTaken(s, 0)
  BY Tables DEF LyricsTaken, NotStarted
<1>4. FramesTaken(s, 0)
  BY Tables DEF FramesTaken, NotStarted
<1>5. Counted(s) /\ s.song.mel_i = 0 /\ ~s.song.melody.done
  BY <1>1, Lengths DEF Counted, Typing, NotStarted
<1> QED  BY <1>2, <1>3, <1>4, <1>5 DEF Playing

LEMMA Initial == Init => IInv
<1> SUFFICES ASSUME Init PROVE IInv
    OBVIOUS
<1>1. AppStateTypeOK /\ PortalInv
  BY DEF Init, AppStateInit, PortalInit, AppStateTypeOK, PortalInv
<1>2. GambleTypeOK
  <2>1. inventory \in Seq(Entries) /\ inv_count = 0
    BY DEF Init, GambleInit, inv_count
  <2>2. at \in Waiting \cup Opening \cup {"off", "poor"} /\ left \in 0..(Strip + 6)
    BY GambleAssumption DEF Init, GambleInit, Waiting
  <2>3. /\ app = "shell" /\ at = "off" /\ coins = 0 /\ inv_seq_counter = 0
        /\ winner = NoSkin /\ sort_recent = FALSE /\ owed = FALSE
    BY DEF Init, AppStateInit, GambleInit
  <2>4. coins \in Nat /\ inv_seq_counter \in Nat /\ inv_count <= INV_CAP
    BY <2>1, <2>3, GambleAssumption
  <2>5. /\ winner \in Skins \cup {NoSkin} /\ sort_recent \in BOOLEAN /\ owed \in BOOLEAN
        /\ at = "off" <=> app # "gamble"
    BY <2>3
  <2> QED  BY <2>1, <2>2, <2>4, <2>5 DEF GambleTypeOK
<1>3. Numbered
  <2>1. inv_count = 0 /\ inv_seq_counter = 0
    BY DEF Init, GambleInit, inv_count
  <2>2. 1..inv_count = {}
    BY <2>1
  <2> QED  BY <2>1, <2>2, GambleAssumption DEF Numbered
<1>4. at = "off" /\ ~owed /\ speaker = "off"
  BY DEF Init, AppStateInit, GambleInit
<1> QED  BY <1>1, <1>2, <1>3, <1>4 DEF IInv, GambleInv, Opening

(* While a song plays, the clock ticks, and Ctrl+C or its end takes it away. *)
LEMMA PortalKeeps ==
  ASSUME IInv, PortalNext, UNCHANGED gamble_vars
  PROVE  IInv'
<1> USE DEF gamble_vars, opening
<1>1. GambleInv' <=>
        /\ at = "off" <=> app' # "gamble"
        /\ owed => at \in Opening \/ (at = "menu" /\ cancel_requested')
        /\ speaker' # "off" => app' = "portal" \/ at \in Beeping
  BY DEF IInv, GambleInv, GambleTypeOK, Numbered, inv_count
<1>2. app # "gamble" => at = "off" /\ ~owed
  BY DEF IInv, GambleInv, GambleTypeOK, Opening
<1>3. CASE portal_run
  <2>1. Now' = [song |-> NotStarted, box |-> EmptyBox, shown |-> 1, typed |-> 0]
    BY <1>3 DEF portal_run, Now
  <2>2. PortalInv' /\ AppStateTypeOK'
    BY <1>3, <2>1, StartPlays DEF portal_run, Started, PortalInv, IInv, AppStateTypeOK
  <2>3. GambleInv'
    BY <1>1, <1>2, <1>3 DEF portal_run, Started
  <2> QED  BY <2>2, <2>3 DEF IInv
<1>4. CASE Iterate
  <2> DEFINE t == Typewriter(Toggled(BassLine(Melody(Now))))
  <2>1. Playing(t)
    BY <1>4, IterationPlays DEF Iterate, IInv, PortalInv
  <2>2. CASE Over(t)
    <3>1. PortalEnds /\ app = "portal"
      BY <1>4, <2>2 DEF Iterate
    <3> QED  BY <1>1, <1>2, <3>1
             DEF PortalEnds, Ended, speaker_stop, PortalInv, IInv, AppStateTypeOK
  <2>3. CASE ~Over(t)
    <3>1. /\ app = "portal" /\ Becomes(t) /\ speaker_play_freq(Tone(t))
          /\ app' = app /\ cancel_requested' = cancel_requested
      <4>1. app = "portal" /\ IF Over(t) THEN PortalEnds
                              ELSE /\ Becomes(t) /\ speaker_play_freq(Tone(t))
                                   /\ UNCHANGED <<app, cancel_requested>>
        BY <1>4 DEF Iterate
      <4> HIDE DEF t
      <4> QED  BY <2>3, <4>1
    <3>2. Playing(Now')
      <4> HIDE DEF t
      <4>1. /\ Now'.song = t.song /\ Now'.box = t.box /\ Now'.shown = t.shown
            /\ Now'.typed = t.typed /\ DOMAIN Now' = {"song", "box", "shown", "typed"}
        BY <3>1 DEF Becomes, Now
      <4> QED  BY <2>1, <4>1
               DEF Playing, Fields, Text, Counted, Typing, LyricsTaken, FramesTaken
    <3>3. speaker' \in {"off", "beep", "melody", "bass"}
      BY <3>1 DEF speaker_play_freq, Tone
    <3> HIDE DEF t
    <3>4. PortalInv' /\ AppStateTypeOK'
      BY <2>1, <3>1, <3>2, <3>3 DEF PortalInv, IInv, AppStateTypeOK
    <3>5. GambleInv'
      BY <1>1, <1>2, <3>1
    <3> QED  BY <3>4, <3>5 DEF IInv
  <2> QED  BY <2>2, <2>3
<1>5. CASE PortalCancelled
  BY <1>1, <1>2, <1>5 DEF PortalCancelled, PortalEnds, Ended, speaker_stop, PortalInv, IInv,
                          AppStateTypeOK
<1>6. CASE PortalTick
  <2>1. /\ app = "portal" /\ UNCHANGED <<shared, box, shown, typed>> /\ Playing(Now)
        /\ song' = [song EXCEPT !.mel_due = Sooner(@), !.bass_due = Sooner(@),
                                !.next_char = Sooner(@)]
    BY <1>6 DEF PortalTick, IInv, PortalInv
  <2>2. DOMAIN song = SongFields
    BY <2>1 DEF Playing, Fields, Now
  <2>3. /\ DOMAIN song' = SongFields
        /\ song'.mel_due = Sooner(song.mel_due) /\ song'.bass_due = Sooner(song.bass_due)
        /\ song'.next_char = Sooner(song.next_char)
        /\ \A x \in SongFields \ {"mel_due", "bass_due", "next_char"} : song'[x] = song[x]
    BY <2>1, <2>2 DEF SongFields
  <2>4. /\ song'.mel_i = song.mel_i /\ song'.melody = song.melody
        /\ song'.bass_i = song.bass_i /\ song'.bass = song.bass
        /\ song'.lyric_i = song.lyric_i /\ song'.line = song.line
        /\ song'.line_pos = song.line_pos /\ song'.frame_i = song.frame_i
        /\ song'.toggle = song.toggle
    BY <2>3 DEF SongFields
  <2>5. /\ song'.mel_due \in Nat /\ song'.bass_due \in Nat /\ song'.next_char \in Nat
    BY <2>1, <2>3 DEF Sooner, Playing, Fields, Now
  <2>6. Playing(Now)'
    BY <2>1, <2>3, <2>4, <2>5
       DEF Playing, Fields, Now, Text, Counted, Typing, LyricsTaken, FramesTaken, shared
  <2> QED  BY <1>1, <2>1, <2>6 DEF PortalInv, IInv, GambleInv, GambleTypeOK, AppStateTypeOK, shared
<1> QED  BY <1>3, <1>4, <1>5, <1>6 DEF PortalNext

(* Ctrl+C, and a round of tetris with its coins. *)
LEMMA OutsideKeeps ==
  ASSUME IInv, CtrlC \/ Tetris
  PROVE  IInv'
<1>1. CASE CtrlC
  BY <1>1 DEF CtrlC, gamble_vars, opening, portal_vars, IInv, AppStateTypeOK, GambleInv,
              GambleTypeOK, Numbered, inv_count, PortalInv, Playing, Fields, Text, Counted, Typing,
              LyricsTaken, FramesTaken, Now
<1>2. CASE Tetris
  <2>1. PICK amount \in Winnings : gamble_add_coins(amount)
    BY <1>2 DEF Tetris
  <2>2. coins' \in Nat
    BY <2>1, ArcadeAssumption DEF gamble_add_coins, IInv, GambleInv, GambleTypeOK
  <2>3. /\ app = "shell" /\ cancel_requested' = FALSE /\ app' = app /\ speaker' = speaker
        /\ UNCHANGED <<inventory, inv_seq_counter, at, left, winner, sort_recent, owed>>
        /\ UNCHANGED <<song, box, shown, typed>>
    BY <1>2, <2>1 DEF Tetris, gamble_add_coins, opening, portal_vars
  <2>4. at = "off" /\ ~owed
    BY <2>3 DEF IInv, GambleInv, GambleTypeOK, Opening
  <2>5. GambleInv'
    BY <2>2, <2>3, <2>4 DEF IInv, GambleInv, GambleTypeOK, Numbered, inv_count, Opening
  <2> QED  BY <2>3, <2>5 DEF IInv, AppStateTypeOK, PortalInv
<1> QED  BY <1>1, <1>2

(* A skin that is won is the newest entry, and takes the place of the oldest
   when the inventory is full. *)
LEMMA KeepKeeps ==
  ASSUME GambleInv, Keep
  PROVE  /\ inventory' \in Seq(Entries) /\ Len(inventory') <= INV_CAP
         /\ inv_seq_counter' \in Nat /\ Numbered'
<1> DEFINE e == [skin |-> winner, seq |-> inv_seq_counter % SeqWrap]
           older == IF inv_count >= INV_CAP THEN Tail(inventory) ELSE inventory
<1>1. /\ inventory \in Seq(Entries) /\ inv_count \in Nat /\ inv_count <= INV_CAP
      /\ inv_seq_counter \in Nat /\ winner \in Skins /\ INV_CAP \in Nat \ {0}
      /\ SeqWrap \in Nat \ {0} /\ Numbered
  BY GambleAssumption DEF Keep, GambleInv, GambleTypeOK, Opening, inv_count
<1>2. inventory' = Append(older, e) /\ inv_seq_counter' = inv_seq_counter + 1
  BY DEF Keep, inventory_add
<1>3. e \in Entries /\ e.seq = inv_seq_counter % SeqWrap
  BY <1>1 DEF Entries
<1> HIDE DEF e
<1> DEFINE d == IF inv_count >= INV_CAP THEN 1 ELSE 0
<1>4. /\ older \in Seq(Entries) /\ Len(older) = inv_count - d
      /\ \A i \in 1..(inv_count - d) : older[i] = inventory[i + d]
  <2>1. CASE inv_count >= INV_CAP
    <3>1. inventory # <<>>
      BY <1>1, <2>1 DEF inv_count
    <3> QED  BY <1>1, <2>1, <3>1 DEF inv_count
  <2>2. CASE ~(inv_count >= INV_CAP)
    BY <1>1, <2>2 DEF inv_count
  <2> QED  BY <2>1, <2>2
<1> HIDE DEF older
<1>5. /\ inventory' \in Seq(Entries) /\ Len(inventory') = (inv_count - d) + 1
      /\ inventory'[(inv_count - d) + 1] = e
      /\ \A i \in 1..(inv_count - d) : inventory'[i] = inventory[i + d]
  BY <1>2, <1>3, <1>4, AppendProperties
<1>6. inv_count' = (inv_count - d) + 1
  BY <1>5 DEF inv_count
<1>7. inv_count' = IF inv_seq_counter' < INV_CAP THEN inv_seq_counter' ELSE INV_CAP
  BY <1>1, <1>2, <1>6 DEF Numbered
<1>8. ASSUME NEW i \in 1..inv_count'
      PROVE  inventory'[i].seq = ((inv_seq_counter' - inv_count') + (i - 1)) % SeqWrap
  <2>1. CASE i = (inv_count - d) + 1
    <3>1. (inv_seq_counter' - inv_count') + (i - 1) = inv_seq_counter
      BY <1>1, <1>2, <1>6, <2>1
    <3> QED  BY <1>3, <1>5, <2>1, <3>1
  <2>2. CASE i # (inv_count - d) + 1
    <3>1. i \in 1..(inv_count - d) /\ i + d \in 1..inv_count
      BY <1>1, <1>6, <2>2
    <3>2. (inv_seq_counter' - inv_count') + (i - 1) = (inv_seq_counter - inv_count) + ((i + d) - 1)
      BY <1>1, <1>2, <1>6, <3>1
    <3> QED  BY <1>1, <1>5, <3>1, <3>2 DEF Numbered
  <2> QED  BY <2>1, <2>2
<1>9. inv_count' <= INV_CAP
  BY <1>1, <1>6
<1> QED  BY <1>1, <1>2, <1>5, <1>7, <1>8, <1>9 DEF Numbered, inv_count

(***************************************************************************)
(* The casino.  A step that holds what the user owns moves from place to   *)
(* place: what the invariant asks of the move.                             *)
(***************************************************************************)
LEMMA MoveKeeps ==
  ASSUME IInv, Holding, UNCHANGED portal_vars,
         app # "portal", app' # "portal",
         app' = "gamble" \/ (app' = "shell" /\ at' = "off"),
         app' = "gamble" => at' \in Waiting \cup Opening \cup {"poor"},
         cancel_requested' \in BOOLEAN, left' \in 0..(Strip + 6),
         winner' \in Skins \cup {NoSkin}, sort_recent' \in BOOLEAN, owed' \in BOOLEAN,
         at' \in Opening => winner' \in Skins,
         owed' => at' \in Opening \/ (at' = "menu" /\ cancel_requested'),
         speaker' \in {"off", "beep"}, speaker' # "off" => at' \in Beeping
  PROVE  IInv'
<1>1. at' = "off" <=> app' # "gamble"
  BY DEF Waiting, Opening
<1>2. GambleTypeOK'
  BY <1>1 DEF Holding, IInv, GambleInv, GambleTypeOK, inv_count
<1>3. Numbered'
  BY DEF Holding, IInv, GambleInv, Numbered, inv_count
<1>4. GambleInv'
  BY <1>2, <1>3 DEF GambleInv
<1>5. PortalInv' /\ AppStateTypeOK'
  BY DEF IInv, PortalInv, AppStateTypeOK, portal_vars
<1> QED  BY <1>4, <1>5 DEF IInv

(* Where the casino stands, as the invariant has it. *)
LEMMA Standing ==
  ASSUME IInv
  PROVE  /\ at = "off" <=> app # "gamble"
         /\ cancel_requested \in BOOLEAN /\ left \in 0..(Strip + 6)
         /\ winner \in Skins \cup {NoSkin} /\ sort_recent \in BOOLEAN /\ owed \in BOOLEAN
         /\ at \in Opening => winner \in Skins
         /\ owed => at \in Opening \/ (at = "menu" /\ cancel_requested)
         /\ speaker \in {"off", "beep", "melody", "bass"}
         /\ app # "portal" /\ at \notin Beeping => speaker = "off"
<1> QED  BY DEF IInv, GambleInv, GambleTypeOK, AppStateTypeOK

LEMMA MenuKeeps ==
  ASSUME IInv, UNCHANGED portal_vars,
         gamble_run \/ MenuKey \/ Exit \/ MenuAgain \/ AnyKey \/ ShowInventory \/ Toggle \/ Back
  PROVE  IInv'
<1> USE Standing DEF Goto, Waiting, Opening, Beeping
<1>1. CASE gamble_run
  <2>1. cancel_requested' \in BOOLEAN
    BY <1>1 DEF gamble_run, Started
  <2> QED  BY <1>1, <2>1, MoveKeeps, GambleAssumption DEF gamble_run, Started, Holding
<1>2. CASE MenuKey
  BY <1>2, MoveKeeps, GambleAssumption DEF MenuKey, shared
<1>3. CASE Exit
  <2>1. cancel_requested' \in BOOLEAN /\ owed' \in BOOLEAN /\ ~owed'
    BY <1>3 DEF Exit, Ended
  <2> QED  BY <1>3, <2>1, MoveKeeps, GambleAssumption DEF Exit, Ended, speaker_stop
<1>4. CASE MenuAgain
  BY <1>4, MoveKeeps, GambleAssumption DEF MenuAgain, shared
<1>5. CASE AnyKey
  BY <1>5, MoveKeeps, GambleAssumption DEF AnyKey, shared
<1>6. CASE ShowInventory
  <2>1. sort_recent' \in BOOLEAN
    BY <1>6 DEF ShowInventory
  <2> QED  BY <1>6, <2>1, MoveKeeps, GambleAssumption DEF ShowInventory, shared
<1>7. CASE Toggle
  BY <1>7, MoveKeeps, GambleAssumption DEF Toggle, shared
<1>8. CASE Back
  <2>1. sort_recent' \in BOOLEAN
    BY <1>8 DEF Back
  <2> QED  BY <1>8, <2>1, MoveKeeps, GambleAssumption DEF Back, shared
<1> QED  BY <1>1, <1>2, <1>3, <1>4, <1>5, <1>6, <1>7, <1>8

(* A loop that beeps, between two places of the opening of a case. *)
LEMMA BeepingKeeps ==
  ASSUME IInv, UNCHANGED portal_vars,
         NEW place \in Opening, NEW next \in Opening,
         NEW rounds \in 0..(Strip + 6),
         \/ Beeps(place, next) /\ next \in Beeping
         \/ BeepEnds(place, next)
         \/ LoopEnds(place, next, rounds)
  PROVE  IInv'
<1> USE Standing, GambleAssumption DEF Goto, Opening, Beeping
<1>1. CASE Beeps(place, next) /\ next \in Beeping
  BY <1>1, MoveKeeps DEF Beeps, speaker_play_freq
<1>2. CASE BeepEnds(place, next)
  BY <1>2, MoveKeeps DEF BeepEnds, speaker_stop
<1>3. CASE LoopEnds(place, next, rounds)
  BY <1>3, MoveKeeps DEF LoopEnds, speaker_stop
<1> QED  BY <1>1, <1>2, <1>3

LEMMA OpeningKeeps ==
  ASSUME IInv, UNCHANGED portal_vars,
         \/ \E case_id \in Opened : TooPoor(case_id)
         \/ PoorEnds \/ animate_case_open \/ GiveUp \/ Landed \/ reveal_winner \/ play_tune
  PROVE  IInv'
<1> USE Standing, GambleAssumption DEF Goto, Waiting, Opening, Beeping
<1>1. ASSUME NEW case_id \in Opened, TooPoor(case_id)
      PROVE  IInv'
  BY <1>1, MoveKeeps DEF TooPoor, speaker_play_freq
<1>2. CASE PoorEnds
  BY <1>2, MoveKeeps DEF PoorEnds, speaker_stop
<1>3. CASE animate_case_open
  <2>1. 0 \in 0..(Strip + 6)
    OBVIOUS
  <2> QED  BY <1>3, <2>1, BeepingKeeps DEF animate_case_open
<1>4. CASE GiveUp
  BY <1>4, MoveKeeps DEF GiveUp, shared
<1>5. CASE Landed
  BY <1>5, MoveKeeps DEF Landed, shared
<1>6. CASE reveal_winner
  <2>1. CASE Beeps("flash", "flashed") \/ BeepEnds("flashed", "flash")
    <3>1. 0 \in 0..(Strip + 6)
      OBVIOUS
    <3> QED  BY <2>1, <3>1, BeepingKeeps
  <2>2. CASE ~(Beeps("flash", "flashed") \/ BeepEnds("flashed", "flash"))
    <3>1. /\ at = "flash" /\ Holding /\ UNCHANGED <<shared, winner, sort_recent, owed>>
          /\ at' \in {"revealed", "tune"}
          /\ left' = IF cancel_requested THEN 0 ELSE fanfare[winner[1] + 1]
      BY <1>6, <2>2 DEF reveal_winner
    <3>2. winner[1] + 1 \in 1..5
      BY <3>1 DEF R_COUNT
    <3>3. fanfare[winner[1] + 1] \in 0..6
      BY <3>2 DEF fanfare
    <3>4. left' \in 0..(Strip + 6)
      BY <3>1, <3>3
    <3> QED  BY <3>1, <3>4, MoveKeeps DEF shared
  <2> QED  BY <2>1, <2>2
<1>7. CASE play_tune
  <2>1. 0 \in 0..(Strip + 6)
    OBVIOUS
  <2> QED  BY <1>7, <2>1, BeepingKeeps DEF play_tune
<1> QED  BY <1>1, <1>2, <1>3, <1>4, <1>5, <1>6, <1>7

(* The coins are there when a case is bought, and its skin is one. *)
LEMMA BuyingKeeps ==
  ASSUME IInv, UNCHANGED portal_vars, (\E case_id \in Opened : Open(case_id)) \/ Keep
  PROVE  IInv'
<1>1. PortalInv'
  <2>1. at \in {"menu_key", "revealed"} /\ app' = app
    BY DEF Open, Keep, shared
  <2>2. app = "gamble"
    BY <2>1, Standing
  <2> QED  BY <2>1, <2>2 DEF IInv, PortalInv, portal_vars
<1>2. AppStateTypeOK'
  BY DEF Open, Keep, shared, IInv, AppStateTypeOK
<1>3. ASSUME NEW case_id \in Opened, Open(case_id)
      PROVE  GambleInv'
  <2>1. price[case_id] \in Nat
    BY <1>3, GambleAssumption DEF price
  <2>2. coins' \in Nat
    BY <1>3, <2>1 DEF Open, IInv, GambleInv, GambleTypeOK
  <2>3. winner' \in Skins /\ left' \in 0..(Strip + 6) /\ at' = "strip"
    BY <1>3, GambleAssumption DEF Open, roll_skin, Goto
  <2>4. /\ app = "gamble" /\ speaker = "off" /\ owed' \in BOOLEAN
        /\ UNCHANGED <<app, cancel_requested, speaker, inventory, inv_seq_counter, sort_recent>>
    BY <1>3, Standing DEF Open, Beeping, shared
  <2> QED  BY <2>2, <2>3, <2>4
           DEF IInv, GambleInv, GambleTypeOK, Numbered, inv_count, Opening
<1>4. ASSUME Keep
      PROVE  GambleInv'
  <2>1. /\ inventory' \in Seq(Entries) /\ inv_count' <= INV_CAP
        /\ inv_seq_counter' \in Nat /\ Numbered'
    BY <1>4, KeepKeeps DEF IInv, inv_count
  <2>2. app = "gamble" /\ speaker = "off"
    BY <1>4, Standing DEF Keep, Beeping
  <2>3. owed' = FALSE /\ winner' = NoSkin /\ at' = "any_key" /\ left' = 0
    BY <1>4 DEF Keep, Goto
  <2>4. UNCHANGED <<app, cancel_requested, speaker, coins, sort_recent>>
    BY <1>4 DEF Keep, shared
  <2>5. left' \in 0..(Strip + 6)
    BY <2>3, GambleAssumption
  <2>6. owed' \in BOOLEAN /\ winner' \in Skins \cup {NoSkin}
    BY <2>3
  <2>7. coins' \in Nat /\ sort_recent' \in BOOLEAN
    BY <2>4 DEF IInv, GambleInv, GambleTypeOK
  <2>8. GambleTypeOK'
    BY <2>1, <2>2, <2>3, <2>4, <2>5, <2>6, <2>7 DEF GambleTypeOK, Waiting
  <2>9. ~owed' /\ speaker' = "off" /\ at' \notin Opening
    BY <2>2, <2>3, <2>4 DEF Opening
  <2> QED  BY <2>1, <2>8, <2>9 DEF GambleInv
<1> QED  BY <1>1, <1>2, <1>3, <1>4 DEF IInv

LEMMA Inductive == IInv /\ [Next]_vars => IInv'
<1> SUFFICES ASSUME IInv, [Next]_vars PROVE IInv'
    OBVIOUS
<1>1. CASE GambleNext /\ UNCHANGED portal_vars
  BY <1>1, MenuKeeps, OpeningKeeps, BuyingKeeps DEF GambleNext
<1>2. CASE PortalNext /\ UNCHANGED gamble_vars
  BY <1>2, PortalKeeps
<1>3. CASE CtrlC \/ Tetris
  BY <1>3, OutsideKeeps
<1>4. CASE UNCHANGED vars
  BY <1>4 DEF vars, shared, gamble_vars, opening, portal_vars, IInv, AppStateTypeOK, GambleInv,
              GambleTypeOK, Numbered, inv_count, PortalInv, Playing, Fields, Text, Counted, Typing,
              LyricsTaken, FramesTaken, Now
<1> QED  BY <1>1, <1>2, <1>3, <1>4 DEF Next

LEMMA Invariant == Spec => []IInv
<1> QED  BY Initial, Inductive, PTL DEF Spec

(***************************************************************************)
(* The theorems                                                            *)
(***************************************************************************)
(* The casino, its inventory, the speaker and the song keep their types: no
   price, roll, drop of an old entry, cue or note leads out of them. *)
THEOREM TypeCorrect == Spec => []TypeOK
<1>1. IInv => TypeOK
  <2> SUFFICES ASSUME IInv PROVE TypeOK
      OBVIOUS
  <2>1. CASE app = "portal"
    <3>1. Playing(Now) /\ Len(Lyrics) \in Nat
      BY <2>1, Tables DEF IInv, PortalInv
    <3>2. song.line \in 0..song.lyric_i
      BY <3>1 DEF Playing, Fields, Now
    <3>3. PortalTypeOK
      BY <3>1, <3>2 DEF PortalTypeOK, Playing, Fields, Now, Typing, Text
    <3> QED  BY <3>3 DEF IInv, GambleInv, TypeOK
  <2>2. CASE app # "portal"
    <3>1. song = NotStarted /\ shown = 0
      BY <2>2 DEF IInv, PortalInv
    <3>2. PortalTypeOK
      BY <3>1, Tables DEF NotStarted, PortalTypeOK, Now, Typing
    <3> QED  BY <3>2 DEF IInv, GambleInv, TypeOK
  <2> QED  BY <2>1, <2>2
<1> QED  BY <1>1, Invariant, PTL

(* A case that was paid for is in the inventory once the casino waits for a key,
   unless a Ctrl+C came while it was being opened. *)
THEOREM PaidCasesAreGot == Spec => []PaidIsGot
<1>1. IInv => PaidIsGot
  BY DEF IInv, GambleInv, PaidIsGot
<1> QED  BY <1>1, Invariant, PTL

(* Whatever loop of gamble or portal a Ctrl+C interrupts, the speaker is off at
   the prompt and wherever the casino waits. *)
THEOREM SpeakerIsQuiet == Spec => []SpeakerQuiet
<1>1. IInv => SpeakerQuiet
  BY DEF IInv, GambleInv, GambleTypeOK, SpeakerQuiet, Waiting, Beeping
<1> QED  BY <1>1, Invariant, PTL

(* For every song whose cues ascend, every lyric and picture cued by a beat that
   was played has been taken, and no other. *)
THEOREM CuesAreTaken == Spec => []CuesTaken
<1>1. IInv => CuesTaken
  <2> SUFFICES ASSUME IInv, app = "portal" PROVE CuesTaken
      BY DEF CuesTaken
  <2>1. Playing(Now) /\ song.lyric_i \in 0..Len(Lyrics)
    BY DEF IInv, PortalInv, Playing, Fields, Now
  <2>2. {i \in 1..Len(Lyrics) : Lyrics[i].beat < song.mel_i} = 1..song.lyric_i
    BY <2>1, Tables DEF Playing, LyricsTaken, Now
  <2>3. Cardinality(1..song.lyric_i) = song.lyric_i
    <3> DEFINE n == song.lyric_i
    <3>1. n \in Nat
      BY <2>1, Tables
    <3> HIDE DEF n
    <3>2. Cardinality(1..n) = IF 1 > n THEN 0 ELSE n - 1 + 1
      BY <3>1, FS_Interval
    <3>3. Cardinality(1..n) = n
      BY <3>1, <3>2
    <3> QED  BY <3>3 DEF n
  <2>4. Typing(Now) => song.line = song.lyric_i
    BY <2>1 DEF Playing, Fields, Now, Typing
  <2>5. shown = song.frame_i /\ \A i \in 1..Len(Frames) : i <= shown <=> Frames[i] < song.mel_i \/ i = 1
    BY <2>1 DEF Playing, Fields, FramesTaken, Now
  <2> QED  BY <2>2, <2>3, <2>4, <2>5 DEF CuesTaken
<1> QED  BY <1>1, Invariant, PTL

(* In a box of any size, the typewriter stays inside and types over nothing it
   shows. *)
THEOREM BoxIsKept == Spec => []BoxKept
<1>1. IInv => BoxKept
  <2> SUFFICES ASSUME IInv PROVE BoxKept
      OBVIOUS
  <2>1. box \in Boxes
    BY EmptyIsBox DEF IInv, PortalInv, Playing, Fields, Now
  <2> QED  BY <2>1, PortalAssumption DEF Boxes, Written, BoxTypes, Cells, Before, BoxKept
<1> QED  BY <1>1, Invariant, PTL

LEMMA EndsWhole ==
  ASSUME IInv, Next, app = "portal", app' = "shell", ~cancel_requested
  PROVE  typed = Length[Len(Lyrics)] /\ shown = Len(Frames)
<1>1. at = "off"
  BY Standing
<1>2. ~GambleNext
  BY <1>1 DEF GambleNext, gamble_run, Started, MenuKey, Exit, MenuAgain, TooPoor, Open, PoorEnds,
              animate_case_open, Beeps, BeepEnds, LoopEnds, GiveUp, Landed, reveal_winner,
              play_tune, Keep, AnyKey, ShowInventory, Toggle, Back
<1>3. Iterate
  BY <1>2 DEF Next, CtrlC, Tetris, PortalNext, portal_run, Started, PortalCancelled, PortalTick, shared
<1> DEFINE t == Typewriter(Toggled(BassLine(Melody(Now))))
<1>4. Over(t)
  <2>1. IF Over(t) THEN PortalEnds
        ELSE /\ Becomes(t) /\ speaker_play_freq(Tone(t))
             /\ UNCHANGED <<app, cancel_requested>>
    BY <1>3 DEF Iterate
  <2> HIDE DEF t
  <2> QED  BY <2>1
<1>5. Over(t) => Now.typed = Length[Len(Lyrics)] /\ Now.shown = Len(Frames)
  BY IterationPlays DEF IInv, PortalInv
<1> HIDE DEF t
<1> QED  BY <1>4, <1>5 DEF Now

(* A song that ends of itself has typed every character and shown every picture,
   however late its loop ran. *)
THEOREM SongIsWhole == Spec => SungWhole
<1>1. IInv /\ [Next]_vars =>
        [app = "portal" /\ app' = "shell" /\ ~cancel_requested =>
           typed = Length[Len(Lyrics)] /\ shown = Len(Frames)]_<<shared, portal_vars>>
  BY EndsWhole DEF vars
<1> QED  BY <1>1, Invariant, PTL DEF Spec, SungWhole

(***************************************************************************)
(* The two orders of the inventory.  Ahead is what the sort compares by;   *)
(* inserting v behind the first l entries of an order gives o (Put).       *)
(***************************************************************************)
Ahead(e, f, recent) == IF recent THEN Newer(e, f) ELSE Rarer(e, f)
Put(order, l, v, o) ==
  /\ Len(o) = Len(order) + 1
  /\ \A k \in 1..Len(o) :
       o[k] = IF k <= l THEN order[k] ELSE IF k = l + 1 THEN v ELSE order[k - 1]

LEMMA InsertAtPuts ==
  ASSUME NEW V, NEW order \in Seq(V), NEW v \in V, NEW l \in 0..Len(order)
  PROVE  InsertAt(order, l + 1, v) \in Seq(V) /\ Put(order, l, v, InsertAt(order, l + 1, v))
<1> DEFINE n == Len(order)
           front == SubSeq(order, 1, l)
           back == SubSeq(order, l + 1, n)
<1>1. n \in Nat /\ l \in Nat /\ l <= n
  OBVIOUS
<1>2. front \in Seq(V) /\ Len(front) = l /\ \A k \in 1..l : front[k] = order[k]
  BY <1>1
<1>3. back \in Seq(V) /\ Len(back) = n - l /\ \A k \in 1..(n - l) : back[k] = order[l + k]
  BY <1>1
<1>4. InsertAt(order, l + 1, v) = (front \o <<v>>) \o back
  <2>1. (l + 1) - 1 = l
    BY <1>1
  <2> QED  BY <2>1 DEF InsertAt
<1> HIDE DEF front, back
<1> DEFINE head == front \o <<v>>
           o == head \o back
<1>8. /\ head \in Seq(V) /\ Len(head) = l + 1 /\ head[l + 1] = v
      /\ \A k \in 1..l : head[k] = order[k]
  <2>1. <<v>> \in Seq(V) /\ Len(<<v>>) = 1 /\ <<v>>[1] = v
    OBVIOUS
  <2> QED  BY <1>1, <1>2, <2>1, ConcatProperties
<1> HIDE DEF head
<1>5. o \in Seq(V) /\ Len(o) = n + 1
  <2>1. o \in Seq(V) /\ Len(o) = Len(head) + Len(back)
    BY <1>3, <1>8, ConcatProperties
  <2> HIDE DEF o
  <2> QED  BY <1>1, <1>3, <1>8, <2>1
<1>6. ASSUME NEW k \in 1..(n + 1)
      PROVE  o[k] = IF k <= l THEN order[k] ELSE IF k = l + 1 THEN v ELSE order[k - 1]
  <2>1. CASE k <= l
    <3>1. o[k] = head[k]
      BY <1>1, <1>3, <1>8, <2>1, ConcatProperties
    <3> QED  BY <1>1, <1>8, <2>1, <3>1
  <2>2. CASE k = l + 1
    <3>1. o[k] = head[k]
      BY <1>1, <1>3, <1>8, <2>2, ConcatProperties
    <3> QED  BY <1>1, <1>8, <2>2, <3>1
  <2>3. CASE k > l + 1
    <3>1. k - (l + 1) \in 1..(n - l) /\ l + (k - (l + 1)) = k - 1
      BY <1>1, <2>3
    <3>2. o[k] = back[k - (l + 1)]
      BY <1>1, <1>3, <1>8, <2>3, ConcatProperties
    <3> HIDE DEF o, n
    <3>3. o[k] = order[k - 1]
      BY <1>3, <3>1, <3>2
    <3> QED  BY <1>1, <2>3, <3>3
  <2> HIDE DEF o, n
  <2> QED  BY <1>1, <2>1, <2>2, <2>3
<1> HIDE DEF o
<1>7. InsertAt(order, l + 1, v) = o
  BY <1>4 DEF o, head
<1> QED  BY <1>5, <1>6, <1>7 DEF Put

(* The place of an entry: behind the last one it is not ahead of. *)
LEMMA InsertedPuts ==
  ASSUME NEW V, NEW order \in Seq(V), NEW v \in V, NEW recent
  PROVE  /\ Inserted(order, v, recent) \in Seq(V)
         /\ \E l \in 0..Len(order) :
              /\ Put(order, l, v, Inserted(order, v, recent))
              /\ l # 0 => ~Ahead(v, order[l], recent)
              /\ \A k \in 1..Len(order) : k > l => Ahead(v, order[k], recent)
<1> DEFINE stops == {j \in 1..Len(order) : ~Ahead(v, order[j], recent)}
           last == IF stops = {} THEN 0 ELSE CHOOSE j \in stops : \A k \in stops : k <= j
<1>1. Len(order) \in Nat
  OBVIOUS
<1>2. Inserted(order, v, recent) = InsertAt(order, last + 1, v)
  BY DEF Inserted, Ahead
<1>3. /\ last \in 0..Len(order)
      /\ last # 0 => last \in stops
      /\ \A k \in stops : k <= last
  <2>1. CASE stops = {}
    BY <1>1, <2>1
  <2>2. CASE stops # {}
    <3>1. PICK s \in stops : TRUE
      BY <2>2
    <3> DEFINE T == {Len(order) - j : j \in stops}
    <3>2. T \in SUBSET Nat /\ T # {}
      BY <1>1, <3>1
    <3>3. PICK m \in T : \A x \in T : m <= x
      BY <3>2, Least, Zenon
    <3>4. PICK j \in stops : m = Len(order) - j
      BY <3>3
    <3>5. ASSUME NEW k \in stops
          PROVE  k <= j
      <4>1. Len(order) - k \in T
        OBVIOUS
      <4>2. m <= Len(order) - k
        BY <3>3, <4>1
      <4> QED  BY <1>1, <3>4, <4>2
    <3>6. last \in stops /\ \A k \in stops : k <= last
      <4> HIDE DEF stops
      <4> QED  BY <2>2, <3>5, Zenon
    <3> HIDE DEF last
    <3> QED  BY <1>1, <3>6
  <2> QED  BY <2>1, <2>2
<1> HIDE DEF last
<1>4. \A k \in 1..Len(order) : k > last => Ahead(v, order[k], recent)
  BY <1>1, <1>3
<1>5. last # 0 => ~Ahead(v, order[last], recent)
  BY <1>3
<1>6. InsertAt(order, last + 1, v) \in Seq(V) /\ Put(order, last, v, InsertAt(order, last + 1, v))
  BY <1>3, InsertAtPuts
<1> QED  BY <1>2, <1>3, <1>4, <1>5, <1>6, Zenon

(* The sort takes one entry after the other. *)
Sorting(recent, p) ==
  /\ p[0] = <<>>
  /\ \A n \in Nat : p[n + 1] = Inserted(p[n], inventory[n + 1], recent)
  /\ Sorted(recent) = p[inv_count]

LEMMA Sorts ==
  ASSUME NEW recent, inv_count \in Nat
  PROVE  \E p : Sorting(recent, p)
<1> DEFINE V == {inventory[n + 1] : n \in Nat}
           g == [s \in Nat \X Seq(V) |-> Inserted(s[2], inventory[s[1] + 1], recent)]
           after(h) == [n \in Nat |-> IF n = 0 THEN <<>>
                                      ELSE Inserted(h[n - 1], inventory[n], recent)]
           p == CHOOSE h : h = after(h)
<1>1. \E h : h = after(h)
  <2>1. g \in StepsOn(Seq(V))
    <3>1. \A n \in Nat, x \in Seq(V) : Inserted(x, inventory[n + 1], recent) \in Seq(V)
      <4> SUFFICES ASSUME NEW n \in Nat, NEW x \in Seq(V)
                   PROVE  Inserted(x, inventory[n + 1], recent) \in Seq(V)
        OBVIOUS
      <4>1. inventory[n + 1] \in V
        OBVIOUS
      <4> HIDE DEF V
      <4> QED  BY <4>1, InsertedPuts
    <3> HIDE DEF V
    <3> QED  BY <3>1 DEF StepsOn
  <2>2. \A n \in Nat, x \in Seq(V) : g[<<n, x>>] = Inserted(x, inventory[n + 1], recent)
    OBVIOUS
  <2>3. <<>> \in Seq(V)
    OBVIOUS
  <2> HIDE DEF g, V
  <2>4. PICK f : f \in Iterations(Seq(V), <<>>, g)
    BY <2>1, <2>3, Iteration
  <2>5. ASSUME NEW n \in Nat
        PROVE  f[n] = after(f)[n]
    <3>1. CASE n # 0
      <4>1. n - 1 \in Nat /\ (n - 1) + 1 = n
        BY <3>1
      <4> QED  BY <2>2, <2>4, <3>1, <4>1 DEF Iterations
    <3> QED  BY <2>4, <3>1 DEF Iterations
  <2>6. f \in [Nat -> Seq(V)]
    BY <2>4 DEF Iterations
  <2> QED  BY <2>5, <2>6
<1>2. p = after(p)
  <2> HIDE DEF after
  <2> QED  BY <1>1, Zenon
<1>3. Sorted(recent) = p[inv_count]
  BY DEF Sorted
<1> HIDE DEF p
<1>4. p[0] = <<>> /\ \A n \in Nat : p[n + 1] = Inserted(p[n], inventory[n + 1], recent)
  <2>1. ASSUME NEW n \in Nat
        PROVE  p[n + 1] = Inserted(p[n], inventory[n + 1], recent)
    <3>1. n + 1 \in Nat /\ n + 1 # 0 /\ (n + 1) - 1 = n
      OBVIOUS
    <3> QED  BY <1>2, <3>1
  <2> QED  BY <1>2, <2>1
<1>5. Sorting(recent, p)
  BY <1>3, <1>4 DEF Sorting
<1> QED  BY <1>5, Zenon

(* After n entries: those n, and in order if their numbers ascend. *)
Seqs(order) == {order[i].seq : i \in 1..Len(order)}
Ascend == \A i, j \in 1..inv_count : i < j => inventory[i].seq < inventory[j].seq
Lists(order, n) ==
  /\ order \in Seq(Entries) /\ Len(order) = n
  /\ Seqs(order) = {inventory[i].seq : i \in 1..n}
InOrder(order, recent) ==
  \A i, j \in 1..Len(order) : i < j => Ahead(order[i], order[j], recent)

LEMMA AheadOrders ==
  ASSUME GambleAssumption, NEW recent, NEW e \in Entries, NEW f \in Entries, NEW h \in Entries
  PROVE  /\ Ahead(e, f, recent) /\ Ahead(f, h, recent) => Ahead(e, h, recent)
         /\ ~Ahead(e, f, recent) /\ e.seq # f.seq => Ahead(f, e, recent)
<1>1. \A x \in Entries : x.seq \in Nat /\ x.skin[1] \in Nat
  BY DEF Entries, GambleAssumption
<1>2. e.seq \in Nat /\ f.seq \in Nat /\ h.seq \in Nat
      /\ e.skin[1] \in Nat /\ f.skin[1] \in Nat /\ h.skin[1] \in Nat
  BY <1>1
<1> QED  BY <1>2 DEF Ahead, Newer, Rarer

LEMMA InsertLists ==
  ASSUME GambleTypeOK, NEW recent, NEW n \in Nat, n + 1 <= inv_count,
         NEW order, Lists(order, n), Ascend => InOrder(order, recent)
  PROVE  LET o == Inserted(order, inventory[n + 1], recent)
         IN  Lists(o, n + 1) /\ (Ascend => InOrder(o, recent))
<1> DEFINE v == inventory[n + 1]
           o == Inserted(order, v, recent)
<1>1. inv_count \in Nat /\ n + 1 \in 1..inv_count /\ v \in Entries
      /\ \A i \in 1..n : i \in 1..inv_count /\ i < n + 1
  BY DEF GambleTypeOK, inv_count
<1>2. order \in Seq(Entries) /\ Len(order) = n
      /\ \A i \in 1..n : order[i] \in Entries
  BY DEF Lists
<1>3. o \in Seq(Entries) /\ \E l \in 0..Len(order) :
              /\ Put(order, l, v, o)
              /\ l # 0 => ~Ahead(v, order[l], recent)
              /\ \A k \in 1..Len(order) : k > l => Ahead(v, order[k], recent)
  <2> HIDE DEF v
  <2> QED  BY <1>1, <1>2, InsertedPuts
<1> HIDE DEF o
<1>4. PICK l \in 0..n :
              /\ Put(order, l, v, o)
              /\ l # 0 => ~Ahead(v, order[l], recent)
              /\ \A k \in 1..n : k > l => Ahead(v, order[k], recent)
  BY <1>2, <1>3
<1> HIDE DEF v
<1>5. /\ Len(o) = n + 1
      /\ \A k \in 1..(n + 1) :
           o[k] = IF k <= l THEN order[k] ELSE IF k = l + 1 THEN v ELSE order[k - 1]
  BY <1>2, <1>4 DEF Put
<1>6. Lists(o, n + 1)
  <2>1. Seqs(o) = Seqs(order) \cup {v.seq}
    <3>1. ASSUME NEW k \in 1..(n + 1)
          PROVE  o[k].seq \in Seqs(order) \cup {v.seq}
      <4>1. k <= l => k \in 1..n
        OBVIOUS
      <4>2. k > l + 1 => k - 1 \in 1..n
        OBVIOUS
      <4> QED  BY <1>2, <1>5, <4>1, <4>2 DEF Seqs
    <3>2. ASSUME NEW k \in 1..n
          PROVE  order[k].seq \in Seqs(o)
      <4>1. CASE k <= l
        <5>1. k \in 1..(n + 1) /\ o[k] = order[k]
          BY <1>5, <4>1
        <5> QED  BY <1>5, <5>1 DEF Seqs
      <4>2. CASE k > l
        <5>1. k + 1 \in 1..(n + 1) /\ o[k + 1] = order[(k + 1) - 1] /\ (k + 1) - 1 = k
          BY <1>5, <4>2
        <5> QED  BY <1>5, <5>1 DEF Seqs
      <4> QED  BY <4>1, <4>2
    <3>3. v.seq \in Seqs(o)
      <4>1. l + 1 \in 1..(n + 1) /\ o[l + 1] = v
        BY <1>5
      <4> QED  BY <1>5, <4>1 DEF Seqs
    <3> QED  BY <1>2, <1>5, <3>1, <3>2, <3>3 DEF Seqs
  <2>2. {inventory[i].seq : i \in 1..(n + 1)} = {inventory[i].seq : i \in 1..n} \cup {v.seq}
    <3>1. 1..(n + 1) = (1..n) \cup {n + 1}
      OBVIOUS
    <3> QED  BY <3>1 DEF v
  <2> QED  BY <1>3, <1>5, <2>1, <2>2 DEF Lists
<1>7. ASSUME Ascend
      PROVE  InOrder(o, recent)
  <2>1. \A k \in 1..n : order[k].seq # v.seq
    <3> SUFFICES ASSUME NEW k \in 1..n
                 PROVE  order[k].seq # v.seq
      OBVIOUS
    <3>1. order[k].seq \in {inventory[i].seq : i \in 1..n}
      BY <1>2 DEF Lists, Seqs
    <3>2. PICK i \in 1..n : order[k].seq = inventory[i].seq
      BY <3>1
    <3>3. inventory[i].seq < v.seq
      BY <1>1, <1>7 DEF Ascend, v
    <3>4. v.seq \in Nat
      BY <1>1, GambleAssumption DEF Entries
    <3>5. inventory[i].seq \in Nat
      <4>1. inventory[i] \in Entries
        BY <1>1 DEF GambleTypeOK, inv_count
      <4> QED  BY <4>1, GambleAssumption DEF Entries
    <3> QED  BY <3>2, <3>3, <3>4, <3>5
  <2>2. \A i, j \in 1..n : i < j => Ahead(order[i], order[j], recent)
    BY <1>2, <1>7 DEF InOrder
  <2>3. \A k \in 1..n : k <= l => Ahead(order[k], v, recent)
    <3> SUFFICES ASSUME NEW k \in 1..n, k <= l
                 PROVE  Ahead(order[k], v, recent)
      OBVIOUS
    <3>1. l \in 1..n
      OBVIOUS
    <3>2. Ahead(order[l], v, recent)
      BY <1>1, <1>2, <1>4, <2>1, <3>1, AheadOrders, GambleAssumption
    <3>3. CASE k < l
      <4>1. Ahead(order[k], order[l], recent)
        BY <2>2, <3>1, <3>3
      <4> QED  BY <1>1, <1>2, <3>1, <3>2, <4>1, AheadOrders, GambleAssumption
    <3>4. CASE k = l
      BY <3>2, <3>4
    <3> QED  BY <3>3, <3>4
  <2> SUFFICES ASSUME NEW i \in 1..(n + 1), NEW j \in 1..(n + 1), i < j
               PROVE  Ahead(o[i], o[j], recent)
    BY <1>5 DEF InOrder
  <2>4. CASE j <= l
    <3>1. i \in 1..n /\ j \in 1..n /\ o[i] = order[i] /\ o[j] = order[j]
      BY <1>5, <2>4
    <3> QED  BY <2>2, <3>1
  <2>5. CASE j = l + 1
    <3>1. i \in 1..n /\ i <= l /\ o[i] = order[i] /\ o[j] = v
      BY <1>5, <2>5
    <3> QED  BY <2>3, <3>1
  <2>6. CASE j > l + 1 /\ i <= l
    <3>1. i \in 1..n /\ j - 1 \in 1..n /\ i < j - 1 /\ o[i] = order[i] /\ o[j] = order[j - 1]
      BY <1>5, <2>6
    <3> QED  BY <2>2, <3>1
  <2>7. CASE j > l + 1 /\ i = l + 1
    <3>1. j - 1 \in 1..n /\ j - 1 > l /\ o[i] = v /\ o[j] = order[j - 1]
      BY <1>5, <2>7
    <3> QED  BY <1>4, <3>1
  <2>8. CASE j > l + 1 /\ i > l + 1
    <3>1. i - 1 \in 1..n /\ j - 1 \in 1..n /\ i - 1 < j - 1 /\ o[i] = order[i - 1] /\ o[j] = order[j - 1]
      BY <1>5, <2>8
    <3> QED  BY <2>2, <3>1
  <2> QED  BY <2>4, <2>5, <2>6, <2>7, <2>8
<1> QED  BY <1>6, <1>7 DEF o, v

LEMMA SortedLists ==
  ASSUME GambleTypeOK, NEW recent
  PROVE  Lists(Sorted(recent), inv_count) /\ (Ascend => InOrder(Sorted(recent), recent))
<1>1. inv_count \in Nat
  BY DEF GambleTypeOK, inv_count
<1>2. PICK p : Sorting(recent, p)
  BY <1>1, Sorts
<1> DEFINE T == {n \in Nat : n <= inv_count =>
                   Lists(p[n], n) /\ (Ascend => InOrder(p[n], recent))}
<1>3. 0 \in T
  <2>1. p[0] = <<>>
    BY <1>2 DEF Sorting
  <2>2. Lists(<<>>, 0)
    BY DEF Lists, Seqs
  <2>3. InOrder(<<>>, recent)
    BY DEF InOrder
  <2> QED  BY <2>1, <2>2, <2>3
<1>4. ASSUME NEW n \in Nat, n \in T
      PROVE  n + 1 \in T
  <2>1. SUFFICES ASSUME n + 1 <= inv_count
                 PROVE  Lists(p[n + 1], n + 1) /\ (Ascend => InOrder(p[n + 1], recent))
    OBVIOUS
  <2>2. Lists(p[n], n) /\ (Ascend => InOrder(p[n], recent))
    BY <1>1, <1>4, <2>1
  <2>3. p[n + 1] = Inserted(p[n], inventory[n + 1], recent)
    BY <1>2 DEF Sorting
  <2> QED  BY <2>1, <2>2, <2>3, InsertLists
<1>5. Nat \subseteq T
  <2> HIDE DEF T
  <2> QED  BY <1>3, <1>4, SetInduction
<1> QED  BY <1>1, <1>2, <1>5 DEF Sorting

(* Numbers that ascend from one entry to the next ascend throughout. *)
LEMMA Unwrapped ==
  ASSUME GambleTypeOK, \A i \in 1..(inv_count - 1) : inventory[i].seq < inventory[i + 1].seq
  PROVE  Ascend
<1>1. inv_count \in Nat /\ \A i \in 1..inv_count : inventory[i].seq \in Nat
  <2>1. inv_count \in Nat /\ \A i \in 1..inv_count : inventory[i] \in Entries
    BY DEF GambleTypeOK, inv_count
  <2>2. \A e \in Entries : e.seq \in Nat
    BY GambleAssumption DEF Entries
  <2> QED  BY <2>1, <2>2
<1> DEFINE T == {n \in Nat : \A i \in 1..n : n + 1 <= inv_count =>
                               inventory[i].seq < inventory[n + 1].seq}
<1>2. 0 \in T
  OBVIOUS
<1>3. ASSUME NEW n \in Nat, n \in T
      PROVE  n + 1 \in T
  <2> SUFFICES ASSUME NEW i \in 1..(n + 1), (n + 1) + 1 <= inv_count
               PROVE  inventory[i].seq < inventory[(n + 1) + 1].seq
    OBVIOUS
  <2>1. n + 1 \in 1..(inv_count - 1) /\ i \in 1..inv_count /\ (n + 1) + 1 \in 1..inv_count
    BY <1>1
  <2>2. inventory[n + 1].seq < inventory[(n + 1) + 1].seq
    BY <2>1
  <2>3. i # n + 1 => inventory[i].seq < inventory[n + 1].seq
    BY <1>1, <1>3
  <2> QED  BY <1>1, <2>1, <2>2, <2>3
<1>4. Nat \subseteq T
  <2> HIDE DEF T
  <2> QED  BY <1>2, <1>3, SetInduction
<1> SUFFICES ASSUME NEW i \in 1..inv_count, NEW j \in 1..inv_count, i < j
             PROVE  inventory[i].seq < inventory[j].seq
  BY DEF Ascend
<1>5. j - 1 \in T /\ i \in 1..(j - 1) /\ (j - 1) + 1 = j /\ j <= inv_count
  BY <1>1, <1>4
<1> QED  BY <1>5

LEMMA NumbersAreNewest ==
  ASSUME GambleTypeOK, Numbered
  PROVE  /\ Cardinality(Newest) = inv_count
         /\ {inventory[i].seq : i \in 1..inv_count} = {n % SeqWrap : n \in Newest}
<1> DEFINE c == inv_seq_counter
           n == inv_count
<1>1. c \in Nat /\ n \in Nat /\ n <= c /\ Newest = (c - n)..(c - 1)
  BY GambleAssumption DEF GambleTypeOK, Numbered, Newest, inv_count
<1>2. \A i \in 1..n : inventory[i].seq = ((c - n) + (i - 1)) % SeqWrap
  BY DEF Numbered
<1> HIDE DEF c, n
<1>3. Cardinality(Newest) = n
  <2>1. c - n \in Int /\ c - 1 \in Int
    BY <1>1
  <2>2. Cardinality((c - n)..(c - 1)) = IF c - n > c - 1 THEN 0 ELSE (c - 1) - (c - n) + 1
    BY <2>1, FS_Interval
  <2> QED  BY <1>1, <2>2
<1>4. ASSUME NEW i \in 1..n
      PROVE  inventory[i].seq \in {m % SeqWrap : m \in Newest}
  <2>1. (c - n) + (i - 1) \in Newest
    BY <1>1
  <2> QED  BY <1>2, <2>1
<1>5. ASSUME NEW m \in Newest
      PROVE  m % SeqWrap \in {inventory[i].seq : i \in 1..n}
  <2>1. m - (c - n) + 1 \in 1..n /\ (c - n) + ((m - (c - n) + 1) - 1) = m
    BY <1>1
  <2> QED  BY <1>2, <2>1
<1> QED  BY <1>3, <1>4, <1>5 DEF n

(* What the numbers of the entries say of the two listings. *)
LEMMA NumberedLists ==
  ASSUME GambleTypeOK, Numbered
  PROVE  ListsInOrder
<1> DEFINE unwrapped == \A i \in 1..(inv_count - 1) : inventory[i].seq < inventory[i + 1].seq
<1>1. unwrapped => Ascend
  BY Unwrapped
<1> SUFFICES ASSUME NEW recent \in BOOLEAN, NEW order, order = Sorted(recent)
             PROVE  /\ Len(order) = Cardinality(Newest)
                    /\ {order[i].seq : i \in 1..Len(order)} = {n % SeqWrap : n \in Newest}
                    /\ unwrapped =>
                         \A i, j \in 1..inv_count : i < j =>
                           IF recent \/ order[i].skin[1] = order[j].skin[1]
                           THEN order[i].seq > order[j].seq
                           ELSE order[i].skin[1] > order[j].skin[1]
  BY DEF ListsInOrder
<1> HIDE DEF unwrapped
<1>2. Lists(order, inv_count) /\ (Ascend => InOrder(order, recent))
  BY SortedLists
<1>3. Len(order) = inv_count /\ Seqs(order) = {inventory[i].seq : i \in 1..inv_count}
      /\ \A i \in 1..inv_count : order[i] \in Entries
  BY <1>2 DEF Lists
<1>4. ASSUME unwrapped, NEW i \in 1..inv_count, NEW j \in 1..inv_count, i < j
      PROVE  IF recent \/ order[i].skin[1] = order[j].skin[1]
             THEN order[i].seq > order[j].seq
             ELSE order[i].skin[1] > order[j].skin[1]
  <2>1. Ahead(order[i], order[j], recent)
    BY <1>1, <1>2, <1>3, <1>4 DEF InOrder
  <2>2. \A x \in Entries : x.seq \in Nat /\ x.skin[1] \in Nat
    BY GambleAssumption DEF Entries
  <2>3. /\ order[i].seq \in Nat /\ order[j].seq \in Nat
        /\ order[i].skin[1] \in Nat /\ order[j].skin[1] \in Nat
    BY <1>3, <2>2
  <2> QED  BY <2>1, <2>3 DEF Ahead, Newer, Rarer
<1> QED  BY <1>3, <1>4, NumbersAreNewest DEF Seqs

(* Both listings of the inventory have the INV_CAP newest entries, each once and
   in their order, for every capacity and wrap of the numbers, however often
   the inventory was trimmed. *)
THEOREM ListsStayInOrder == Spec => []ListsInOrder
<1>1. IInv => ListsInOrder
  BY NumberedLists DEF IInv, GambleInv
<1> QED  BY <1>1, Invariant, PTL
=============================================================================
