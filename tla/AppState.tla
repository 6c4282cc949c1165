------------------------------ MODULE AppState ------------------------------
(***************************************************************************)
(* What portal and gamble share: the command that runs, the cancel flag of *)
(* drivers/src/keyboard.c (module Console has its races and the nesting of *)
(* handlers) and the tone of drivers/src/speaker.c.                        *)
(***************************************************************************)

VARIABLES
  app,               \* "shell" when the prompt waits
  cancel_requested,
  speaker            \* the tone that sounds, or "off"

shared == <<app, cancel_requested, speaker>>

(* Port 61h: speaker_play_freq opens the gate unless the frequency is 0. *)
speaker_play_freq(tone) == speaker' = tone
speaker_stop == speaker' = "off"

AppStateInit == app = "shell" /\ cancel_requested = FALSE /\ speaker = "off"

(* An app starts and ends with a clear flag; both apps stop the speaker. *)
Started(name) == app = "shell" /\ app' = name /\ cancel_requested' = FALSE
Ended == app' = "shell" /\ cancel_requested' = FALSE /\ speaker_stop

AppStateTypeOK ==
  /\ app \in {"shell", "portal", "gamble"}
  /\ cancel_requested \in BOOLEAN
  /\ speaker \in {"off", "beep", "melody", "bass"}
=============================================================================
