------------------------------ MODULE MCArcade ------------------------------
(* A song of five beats: a first page that overflows the box, a line cued while
   another is typed, a line longer than the box is wide. *)
EXTENDS Arcade, StillAlive

MCSkins == {<<r, 0>> : r \in 0..4}
MCNotes == << <<FALSE, 1>>, <<TRUE, 2>>, <<TRUE, 1>>, <<FALSE, 1>>, <<TRUE, 1>> >>
MCBass == << <<FALSE, 2>>, <<TRUE, 2>>, <<TRUE, 1>> >>
MCLyrics == << [beat |-> 1, text |-> <<"a", "a", NL>>, ticks |-> 1],
               [beat |-> 2, text |-> <<"b", "b", "b", NL, "b">>, ticks |-> 1],
               [beat |-> 4, text |-> <<NL, NL, "c">>, ticks |-> 2] >>
MCFrames == <<0, 1, 4>>
=============================================================================
