------------------------------- MODULE Portal -------------------------------
(***************************************************************************)
(* kernel/portal/portal.c: two voices, a typewriter and pictures, cued by  *)
(* the beats of the melody.                                                *)
(*                                                                         *)
(* An iteration of the loop of portal_run reads the clock once and is one  *)
(* action; how long after the last one it comes is open (it spins for an   *)
(* unknown time while both voices sound).  A deadline is the time left to  *)
(* it, 0 once it has passed.  A note is <<sounds, ticks>>, a lyric         *)
(* [beat, text, ticks] with a text of characters, a frame the beat of its  *)
(* cue; the sentinels of the tables are their ends.                        *)
(***************************************************************************)
EXTENDS AppState, Integers, Sequences, FiniteSets

CONSTANTS
  Notes, Bass, Lyrics, Frames,
  BOX_LYRIC_W, BOX_LYRIC_H

NL == "\n"

(* Cues are compared for equality with the beat that is played, one beat at a
   time: each has a beat of its own, in order, before the end. *)
Ascending(beats) == \A i \in 1..(Len(beats) - 1) : beats[i] < beats[i + 1]
Played(beats, notes) == \A i \in 1..Len(beats) : beats[i] \in 0..(Len(notes) - 1)
Cued(beats, notes) == Ascending(beats) /\ Played(beats, notes)

Beats(lyrics) == [i \in 1..Len(lyrics) |-> lyrics[i].beat]

Song(notes, bass, lyrics, frames) ==
  /\ notes \in Seq(BOOLEAN \X (Nat \ {0})) /\ bass \in Seq(BOOLEAN \X (Nat \ {0}))
  /\ lyrics \in Seq([beat : Nat, text : Seq(STRING) \ {<<>>}, ticks : Nat \ {0}])
  /\ frames \in Seq(Nat) /\ frames # <<>> /\ frames[1] = 0
  /\ Cued(Beats(lyrics), notes) /\ Cued(frames, notes)

ASSUME PortalAssumption ==
  /\ Song(Notes, Bass, Lyrics, Frames)
  /\ BOX_LYRIC_W \in Nat \ {0} /\ BOX_LYRIC_H \in Nat \ {0}

VARIABLES
  song,    \* the local variables of portal_run
  box,     \* the lyric box: [ly_col, ly_row, cells], the cells written on
  shown,   \* the frame in the art panel
  typed    \* the characters typed so far

portal_vars == <<song, box, shown, typed>>

(***************************************************************************)
(* The lyric box                                                           *)
(***************************************************************************)
EmptyBox == [ly_col |-> 0, ly_row |-> 0, cells |-> {}]

lyric_box_overflow_kept(b) == [b EXCEPT !.ly_col = 0, !.ly_row = 0]
lyric_box_overflow(b) == EmptyBox
Overflowed(b) == IF b.ly_row >= BOX_LYRIC_H THEN lyric_box_overflow(b) ELSE b
Wrapped(b) == IF b.ly_col >= BOX_LYRIC_W THEN [b EXCEPT !.ly_col = 0, !.ly_row = @ + 1] ELSE b
Printed(b) == [b EXCEPT !.cells = @ \cup {<<b.ly_row, b.ly_col>>}, !.ly_col = @ + 1]

portal_putc(b, c) ==
  IF c = NL THEN Overflowed([b EXCEPT !.ly_col = 0, !.ly_row = @ + 1])
  ELSE Overflowed(Printed(Overflowed(Wrapped(b))))

(* The box after a text has been typed into it. *)
portal_puts(b, text) ==
  LET after[n \in Nat] == IF n = 0 THEN b ELSE portal_putc(after[n - 1], text[n])
  IN  after[Len(text)]

(***************************************************************************)
(* An iteration, on a state s of portal_vars as a record.                  *)
(***************************************************************************)
Silent == [sounds |-> FALSE, done |-> FALSE]
Typing(s) == s.song.line # 0
Text(s) == Lyrics[s.song.line].text

(* A voice whose note has ended takes the next one, or is done. *)
Advanced(notes, i, due, voice) ==
  IF voice.done \/ due > 0 THEN [i |-> i, due |-> due, voice |-> voice]
  ELSE IF i >= Len(notes) THEN [i |-> i, due |-> 0, voice |-> [sounds |-> FALSE, done |-> TRUE]]
  ELSE [i |-> i + 1, due |-> notes[i + 1][2],
        voice |-> [sounds |-> notes[i + 1][1], done |-> FALSE]]

(* The characters a new cue finds untyped are typed at once. *)
Flushed_dropped(s) == s
Flushed(s) ==
  IF ~Typing(s) THEN s
  ELSE LET rest == SubSeq(Text(s), s.song.line_pos + 1, Len(Text(s)))
       IN  [s EXCEPT !.box = portal_puts(@, rest), !.typed = @ + Len(rest)]

LyricCue(s) ==
  IF s.song.lyric_i < Len(Lyrics) /\ Lyrics[s.song.lyric_i + 1].beat = s.song.mel_i
  THEN [Flushed(s) EXCEPT !.song.line = s.song.lyric_i + 1, !.song.line_pos = 0,
                          !.song.next_char = 0, !.song.lyric_i = @ + 1]
  ELSE s

FrameCue(s) ==
  IF s.song.frame_i < Len(Frames) /\ Frames[s.song.frame_i + 1] = s.song.mel_i
  THEN [s EXCEPT !.shown = s.song.frame_i + 1, !.song.frame_i = @ + 1]
  ELSE s

Note(s) ==
  LET next == Advanced(Notes, s.song.mel_i, s.song.mel_due, s.song.melody)
  IN  [s EXCEPT !.song.mel_i = next.i, !.song.mel_due = next.due, !.song.melody = next.voice]

Cues(s) == FrameCue(LyricCue(s))

Melody_early(s) ==
  IF ~s.song.melody.done /\ s.song.mel_due = 0 /\ s.song.mel_i < Len(Notes)
  THEN Cues(Note(s)) ELSE Note(s)

Melody(s) ==
  IF ~s.song.melody.done /\ s.song.mel_due = 0 /\ s.song.mel_i < Len(Notes)
  THEN Note(Cues(s)) ELSE Note(s)

BassLine_looping(s) ==
  LET i == IF s.song.bass_i = Len(Bass) THEN 0 ELSE s.song.bass_i
      next == Advanced(Bass, i, s.song.bass_due, s.song.bass)
  IN  [s EXCEPT !.song.bass_i = next.i, !.song.bass_due = next.due, !.song.bass = next.voice]

BassLine(s) ==
  LET next == Advanced(Bass, s.song.bass_i, s.song.bass_due, s.song.bass)
  IN  [s EXCEPT !.song.bass_i = next.i, !.song.bass_due = next.due, !.song.bass = next.voice]

Typewriter(s) ==
  IF ~Typing(s) \/ s.song.next_char > 0 THEN s
  ELSE IF s.song.line_pos = Len(Text(s)) THEN [s EXCEPT !.song.line = 0]
  ELSE [s EXCEPT !.box = portal_putc(@, Text(s)[s.song.line_pos + 1]), !.typed = @ + 1,
                 !.song.line_pos = @ + 1, !.song.next_char = Lyrics[s.song.line].ticks]

Interleaving(s) == s.song.melody.sounds /\ s.song.bass.sounds
Toggled(s) == IF Interleaving(s) THEN [s EXCEPT !.song.toggle = ~@] ELSE s

Tone(s) ==
  IF s.song.melody.sounds /\ (s.song.bass.sounds => s.song.toggle) THEN "melody"
  ELSE IF s.song.bass.sounds THEN "bass" ELSE "off"

Over(s) == s.song.melody.done /\ s.song.bass.done /\ ~Typing(s)

Now == [song |-> song, box |-> box, shown |-> shown, typed |-> typed]
Becomes(s) == song' = s.song /\ box' = s.box /\ shown' = s.shown /\ typed' = s.typed

(***************************************************************************)
(* portal_run                                                              *)
(***************************************************************************)
NotStarted ==
  [mel_i |-> 0, mel_due |-> 0, melody |-> Silent, bass_i |-> 0, bass_due |-> 0, bass |-> Silent,
   lyric_i |-> 0, line |-> 0, line_pos |-> 0, next_char |-> 0, frame_i |-> 1, toggle |-> FALSE]

PortalInit ==
  /\ song = NotStarted /\ box = EmptyBox /\ shown = 0 /\ typed = 0

(* The local variables are gone, ly_col and ly_row are set by the next song. *)
PortalEnds ==
  /\ Ended
  /\ song' = NotStarted /\ box' = EmptyBox /\ shown' = 0 /\ typed' = 0

(* draw_chrome, the frame of beat 0, and the local variables. *)
portal_run ==
  /\ Started("portal")
  /\ song' = NotStarted /\ box' = EmptyBox /\ shown' = 1 /\ typed' = 0
  /\ UNCHANGED speaker

Iterate ==
  /\ app = "portal" /\ ~cancel_requested
  /\ LET t == Typewriter(Toggled(BassLine(Melody(Now))))
     IN  IF Over(t) THEN PortalEnds
         ELSE Becomes(t) /\ speaker_play_freq(Tone(t)) /\ UNCHANGED <<app, cancel_requested>>

PortalCancelled ==
  /\ app = "portal" /\ cancel_requested
  /\ PortalEnds

Sooner(due) == IF due > 0 THEN due - 1 ELSE 0
PortalTick ==
  /\ app = "portal"
  /\ song' = [song EXCEPT !.mel_due = Sooner(@), !.bass_due = Sooner(@), !.next_char = Sooner(@)]
  /\ UNCHANGED <<shared, box, shown, typed>>

PortalNext == portal_run \/ Iterate \/ PortalCancelled \/ PortalTick

(* An iteration changes something: what WF_all(Iterate) has as ENABLED. *)
Due ==
  /\ app = "portal" /\ ~cancel_requested
  /\ \/ ~song.melody.done /\ song.mel_due = 0
     \/ ~song.bass.done /\ song.bass_due = 0
     \/ Typing(Now) /\ song.next_char = 0
     \/ Interleaving(Now) \/ Over(Now)

(* The loop runs, and the clock ticks. *)
PortalFairness ==
  LET all == <<shared, portal_vars>>
  IN  /\ []<>~Due \/ []<><<Iterate>>_all
      /\ WF_all(PortalCancelled) /\ WF_all(PortalTick)

(***************************************************************************)
(* Properties                                                              *)
(***************************************************************************)
(* The characters of the first n lines. *)
Length[n \in 0..Len(Lyrics)] == IF n = 0 THEN 0 ELSE Length[n - 1] + Len(Lyrics[n].text)

PortalTypeOK ==
  /\ song.mel_i \in 0..Len(Notes) /\ song.bass_i \in 0..Len(Bass)
  /\ song.mel_due \in Nat /\ song.bass_due \in Nat /\ song.next_char \in Nat
  /\ song.lyric_i \in 0..Len(Lyrics) /\ song.line \in 0..song.lyric_i
  /\ Typing(Now) => song.line_pos \in 0..Len(Text(Now))
  /\ song.frame_i \in 1..Len(Frames) /\ shown \in 0..Len(Frames)
  /\ song.toggle \in BOOLEAN

(* Every cue of a beat that was played has been taken, none before its beat:
   the picture is the one of the last cue, and the line that is typed the last
   one cued. *)
CuesTaken ==
  app = "portal" =>
    /\ song.lyric_i = Cardinality({i \in 1..Len(Lyrics) : Lyrics[i].beat < song.mel_i})
    /\ Typing(Now) => song.line = song.lyric_i
    /\ shown = song.frame_i
    /\ \A i \in 1..Len(Frames) : i <= shown <=> Frames[i] < song.mel_i \/ i = 1

(* The typewriter stays in its box and never types over what it shows. *)
BoxKept ==
  /\ box.ly_row < BOX_LYRIC_H
  /\ \A cell \in box.cells :
       /\ cell \in (0..(BOX_LYRIC_H - 1)) \X (0..(BOX_LYRIC_W - 1))
       /\ cell[1] < box.ly_row \/ (cell[1] = box.ly_row /\ cell[2] < box.ly_col)

(* A song that ends of itself has typed every character of every line and shown
   every picture, however late its loop ran. *)
SungWhole ==
  [][app = "portal" /\ app' = "shell" /\ ~cancel_requested =>
       typed = Length[Len(Lyrics)] /\ shown = Len(Frames)]_<<shared, portal_vars>>

(* The song ends, or somebody stops it. *)
SongEnds == app = "portal" ~> app = "shell"
=============================================================================
