------------------------------- MODULE Arcade -------------------------------
(***************************************************************************)
(* portal and gamble on one machine: one command of the shell at a time,   *)
(* on one speaker, with coins from rounds of tetris in between and Ctrl+C  *)
(* at any time.                                                            *)
(***************************************************************************)
EXTENDS Gamble, Portal

CONSTANTS
  Winnings,     \* what a round of tetris can pay
  MaxOldCases   \* bound: the song is played while no more cases were opened

ASSUME ArcadeAssumption == Winnings \subseteq Nat /\ MaxOldCases \in Nat

vars == <<shared, gamble_vars, portal_vars>>

Init == AppStateInit /\ GambleInit /\ PortalInit

CtrlC ==
  /\ cancel_requested' = TRUE
  /\ UNCHANGED <<app, speaker, gamble_vars, portal_vars>>

Tetris ==
  /\ app = "shell"
  /\ cancel_requested' = FALSE
  /\ \E amount \in Winnings : gamble_add_coins(amount)
  /\ UNCHANGED <<app, speaker, portal_vars>>

Next ==
  \/ GambleNext /\ UNCHANGED portal_vars
  \/ PortalNext /\ (app = "shell" => inv_seq_counter <= MaxOldCases) /\ UNCHANGED gamble_vars
  \/ CtrlC \/ Tetris

Spec == Init /\ [][Next]_vars /\ PortalFairness

(***************************************************************************)
(* Properties                                                              *)
(***************************************************************************)
TypeOK == AppStateTypeOK /\ GambleTypeOK /\ PortalTypeOK

(* At the prompt and wherever the casino waits for a key the speaker is off,
   whatever was interrupted. *)
SpeakerQuiet == app = "shell" \/ at \in Waiting => speaker = "off"
=============================================================================
