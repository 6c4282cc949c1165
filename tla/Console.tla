------------------------------ MODULE Console ------------------------------
(***************************************************************************)
(* Who runs when: one CPU shared by kernel_main, the keyboard and timer    *)
(* interrupts, and the full-screen apps of the shell.                      *)
(*                                                                         *)
(* An interrupt handler runs with interrupts masked and is one action, up  *)
(* to its iret.  The ENTER of a command line runs shell_execute_command    *)
(* inside the keyboard handler; an app (art, portal, gamble, tetris)       *)
(* executes `sti` there, so from that point its code, and then the rest of *)
(* the handler, is a new frame on the stack, one action per access of the  *)
(* shared flags, that any interrupt can cut.  Other commands, and with     *)
(* them every call of ramfs.c, never leave the handler.                    *)
(*                                                                         *)
(* key_queue and keyboard_interrupt_received decide nothing and are left   *)
(* out; what a line editor makes of the keys is any line (OtherLine stands *)
(* for every line that is not the name of an app).                         *)
(***************************************************************************)
EXTENDS Integers, Sequences

CONSTANTS
  Apps,      \* the apps the shell may be asked for
  Keys,      \* the keys on the keyboard
  MaxFifo,   \* the scancodes a user types ahead of the handler
  MaxDepth   \* the frames the stack has room for, above kernel_main's

ASSUME ConsoleAssumption ==
  /\ Apps \subseteq {"art", "portal", "gamble", "tetris"}
  /\ Keys \subseteq {"lctrl", "rctrl", "c", "esc", "enter", "key"}
  /\ MaxFifo \in Nat
  /\ MaxDepth \in Nat

VARIABLES
  fifo,               \* scancodes the keyboard controller has not delivered
  held,               \* the chord keys that are down
  ctrl_pressed, raw_mode, raw_last_scancode, cancel_requested,
  key_buffer,         \* the line, by what ENTER would run
  fb_suspended,       \* the text renderer is off
  in_service,         \* interrupts the PIC has had no EOI for
  top,                \* the running frame
  frames              \* [app, at, pc, sc]: where each frame is

keyboard == <<ctrl_pressed, raw_mode, raw_last_scancode, cancel_requested, key_buffer>>
input == <<fifo, held>>
vars == <<input, keyboard, fb_suspended, in_service, top, frames>>

OtherLine == "text"
Lines == Apps \cup {OtherLine, ""}

(***************************************************************************)
(* Scancodes.  KEY is the press of any key without a name of its own, REL  *)
(* the release of any key but a Ctrl; the right Ctrl is E0-prefixed.       *)
(***************************************************************************)
Ctrls == {"lctrl", "rctrl"}
Presses == {"CTRL", "C", "ESC", "ENTER", "KEY"}
Scancodes == Presses \cup {"CTRL_REL", "REL", "E0"}
NoScancode == "NONE"

Down == [lctrl |-> <<"CTRL">>, rctrl |-> <<"E0", "CTRL">>, c |-> <<"C">>,
         esc |-> <<"ESC">>, enter |-> <<"ENTER">>, key |-> <<"KEY">>]
Up == [lctrl |-> <<"CTRL_REL">>, rctrl |-> <<"E0", "CTRL_REL">>, c |-> <<"REL">>,
       esc |-> <<"REL">>, enter |-> <<"REL">>, key |-> <<"REL">>]

(***************************************************************************)
(* Where a frame can be: a place of its program, and in a loop the step of *)
(* the iteration: the check of cancel_requested, the two halves of         *)
(* keyboard_poll_scancode, the reaction, the hlt and the sleep.            *)
(***************************************************************************)
KernelLoops == {"boot", "splash", "idle"}
AppLoops == {"art", "song", "menu", "inventory", "delay", "drain", "any_key", "round", "over"}
InApp == AppLoops \cup {"restart", "exit_gfx", "exit_raw"}
Epilogue == {"exit_cancel", "wipe", "return"}
Places == KernelLoops \cup InApp \cup Epilogue
Steps == {"check", "poll", "clear", "act", "hlt", "halted", "step"}
Frame == [app : Apps \cup {"kernel"}, at : Places, pc : Steps, sc : Scancodes \cup {NoScancode}]

At(place, pc) == <<place, pc>>
KernelFrame == [app |-> "kernel", at |-> "boot", pc |-> "check", sc |-> NoScancode]
FirstPlace == [art |-> "art", portal |-> "song", gamble |-> "menu", tetris |-> "round"]
AppFrame(app) == [app |-> app, at |-> FirstPlace[app], pc |-> "check", sc |-> NoScancode]
Running == frames[top]

(* The machine after the `sti` of kernel_main, before its first delay. *)
Init ==
  /\ fifo = <<>> /\ held = {}
  /\ ctrl_pressed = FALSE /\ raw_mode = FALSE /\ cancel_requested = FALSE
  /\ raw_last_scancode = NoScancode
  /\ key_buffer = ""
  /\ fb_suspended = FALSE
  /\ in_service = {}
  /\ top = 0
  /\ frames = [d \in 0..MaxDepth |-> KernelFrame]

(***************************************************************************)
(* The user.  A key that is down repeats its press.                        *)
(***************************************************************************)
Type(scancodes) ==
  /\ Len(fifo) + Len(scancodes) <= MaxFifo
  /\ fifo' = fifo \o scancodes
  /\ UNCHANGED <<keyboard, fb_suspended, in_service, top, frames>>

Press(key) ==
  /\ Type(Down[key])
  /\ held' = IF key \in Ctrls \cup {"c"} THEN held \cup {key} ELSE held

Release(key) ==
  /\ key \in Ctrls \cup {"c"} => key \in held
  /\ Type(Up[key])
  /\ held' = held \ {key}

(***************************************************************************)
(* Interrupts.  IRQ0 is the timer, IRQ1 the keyboard; the PIC holds back   *)
(* an interrupt while one of its priority or above is in service, and an   *)
(* EOI ends the one of highest priority.  irq_handler sends it before it   *)
(* calls the handler, and keyboard_callback sends a second one.            *)
(***************************************************************************)
TimerFree == 0 \notin in_service
KeyboardFree == in_service = {}
EOI(s) == IF 0 \in s THEN s \ {0} ELSE s \ {1}

(* Taking an interrupt ends the hlt of the frame it cuts. *)
Woken == IF Running.pc = "halted" THEN [frames EXCEPT ![top].pc = "check"] ELSE frames

(* timer_callback: what it renders is no state of this module. *)
TimerIRQ ==
  /\ TimerFree
  /\ in_service' = EOI(in_service \cup {0})
  /\ frames' = Woken
  /\ UNCHANGED <<input, keyboard, fb_suspended, top>>

(* Modifiers are tracked in every mode. *)
TracksCtrl_cooked(sc) ==
  ctrl_pressed' = IF ~raw_mode /\ sc = "CTRL" THEN TRUE
                  ELSE IF ~raw_mode /\ sc = "CTRL_REL" THEN FALSE ELSE ctrl_pressed

TracksCtrl(sc) ==
  ctrl_pressed' = IF sc = "CTRL" THEN TRUE
                  ELSE IF sc = "CTRL_REL" THEN FALSE ELSE ctrl_pressed

IsCancel(sc) == sc = "C" /\ ctrl_pressed

Cancel_everywhere ==
  /\ cancel_requested' = TRUE
  /\ key_buffer' = ""
  /\ UNCHANGED <<raw_mode, raw_last_scancode, fb_suspended, top>>
  /\ frames' = Woken

(* Ctrl+C: at the shell it also abandons the line. *)
Cancel ==
  /\ cancel_requested' = TRUE
  /\ key_buffer' = IF raw_mode THEN key_buffer ELSE ""
  /\ UNCHANGED <<raw_mode, raw_last_scancode, fb_suspended, top>>
  /\ frames' = Woken

Expose_fresh(sc) ==
  /\ raw_mode
  /\ raw_last_scancode' = sc
  /\ cancel_requested' = FALSE
  /\ UNCHANGED <<raw_mode, key_buffer, fb_suspended, top>>
  /\ frames' = Woken

(* An app's key: it waits in the one-entry slot until the next replaces it. *)
Expose(sc) ==
  /\ raw_mode
  /\ raw_last_scancode' = sc
  /\ UNCHANGED <<raw_mode, cancel_requested, key_buffer, fb_suspended, top>>
  /\ frames' = Woken

(* A key at the shell that is not ENTER: modifiers, releases and keys with
   no character do nothing, the others edit the line. *)
Edit(sc) ==
  /\ ~raw_mode /\ sc # "ENTER"
  /\ IF sc \in {"C", "KEY"} THEN key_buffer' \in Lines ELSE UNCHANGED key_buffer
  /\ UNCHANGED <<raw_mode, raw_last_scancode, cancel_requested, fb_suspended, top>>
  /\ frames' = Woken

(* What shell_execute_command compares: the line, cut at the cursor. *)
Entered == IF key_buffer = OtherLine THEN Lines ELSE {key_buffer, OtherLine, ""}

(* A command that runs inside the handler; the line is wiped after it. *)
Execute ==
  /\ ~raw_mode
  /\ \E line \in Entered : line \notin Apps
  /\ key_buffer' = ""
  /\ UNCHANGED <<raw_mode, raw_last_scancode, cancel_requested, fb_suspended, top>>
  /\ frames' = Woken

Launch_cooked(app) ==
  /\ ~raw_mode /\ app \in Entered /\ top < MaxDepth
  /\ key_buffer' = app
  /\ cancel_requested' = FALSE
  /\ UNCHANGED <<raw_mode, raw_last_scancode>>
  /\ fb_suspended' = IF app = "art" THEN TRUE ELSE fb_suspended
  /\ top' = top + 1
  /\ frames' = [Woken EXCEPT ![top + 1] = AppFrame(app)]

(* An app, up to its `sti`. *)
Launch(app) ==
  /\ ~raw_mode /\ app \in Entered /\ top < MaxDepth
  /\ key_buffer' = app
  /\ cancel_requested' = FALSE
  /\ raw_mode' = TRUE
  /\ raw_last_scancode' = NoScancode
  /\ fb_suspended' = IF app = "art" THEN TRUE ELSE fb_suspended
  /\ top' = top + 1
  /\ frames' = [Woken EXCEPT ![top + 1] = AppFrame(app)]

(* keyboard_callback *)
KeyboardIRQ ==
  /\ KeyboardFree /\ fifo # <<>>
  /\ fifo' = Tail(fifo)
  /\ in_service' = EOI(EOI(in_service \cup {1}))
  /\ UNCHANGED held
  /\ LET sc == Head(fifo)
     IN /\ TracksCtrl(sc)
        /\ \/ IsCancel(sc) /\ Cancel
           \/ ~IsCancel(sc) /\ Expose(sc)
           \/ ~IsCancel(sc) /\ Edit(sc)
           \/ sc = "ENTER" /\ Execute
           \/ sc = "ENTER" /\ \E app \in Apps : Launch(app)

(***************************************************************************)
(* The running frame                                                       *)
(***************************************************************************)
Goto(position) == frames' = [frames EXCEPT ![top].at = position[1], ![top].pc = position[2]]

(* What a loop does when it finds cancel_requested: a delay ends, the loops
   below gamble's menu return to it, every other loop leaves its app. *)
KernelCancelled(place) ==
  IF place = "boot" THEN At("splash", "check") ELSE At("idle", "check")

GambleCancelled_deaf(place) ==
  CASE place = "menu" -> At("exit_raw", "step")
    [] place = "any_key" -> At("any_key", "poll")
    [] OTHER -> At("menu", "check")

GambleCancelled(place) ==
  IF place = "menu" THEN At("exit_raw", "step") ELSE At("menu", "check")

Cancelled(place) ==
  IF place \in {"boot", "splash"} THEN KernelCancelled(place)
  ELSE IF place \in {"menu", "inventory", "delay", "any_key"} THEN GambleCancelled(place)
  ELSE At(IF place = "art" THEN "exit_gfx" ELSE "exit_raw", "step")

Polling == {"art", "menu", "inventory", "any_key", "round", "over"}

Check ==
  /\ Running.pc = "check"
  /\ Goto(IF Running.at = "idle" THEN At("idle", "hlt")
          ELSE IF cancel_requested THEN Cancelled(Running.at)
          ELSE IF Running.at \in Polling THEN At(Running.at, "poll")
          ELSE At(Running.at, "act"))
  /\ UNCHANGED <<input, keyboard, fb_suspended, in_service, top>>

(* keyboard_poll_scancode reads the slot and then empties it. *)
Poll ==
  /\ Running.pc = "poll"
  /\ frames' = [frames EXCEPT ![top].pc = "clear", ![top].sc = raw_last_scancode]
  /\ UNCHANGED <<input, keyboard, fb_suspended, in_service, top>>

ClearSlot ==
  /\ Running.pc = "clear"
  /\ raw_last_scancode' = NoScancode
  /\ Goto(At(Running.at, "act"))
  /\ UNCHANGED <<input, ctrl_pressed, raw_mode, cancel_requested, key_buffer,
                 fb_suspended, in_service, top>>

(* Where each loop can go on a scancode; KEY may be any of the keys it knows,
   and a delay or a song may be over. *)
IsPress(sc) == sc \in Presses \ {"CTRL"}

KernelReactions(place) ==
  CASE place = "boot" -> {At("boot", "hlt"), At("splash", "check")}
    [] place = "splash" -> {At("splash", "hlt"), At("idle", "check")}

ArtReactions(sc) == {IF sc = "ESC" THEN At("exit_gfx", "step") ELSE At("art", "hlt")}

PortalReactions == {At("song", "hlt"), At("song", "check"), At("exit_raw", "step")}

(* A press in gamble_run's menu, show_inventory_screen or wait_any_key. *)
GamblePress(place, sc) ==
  CASE place = "menu" /\ sc = "ESC" -> {At("exit_raw", "step")}
    [] place = "menu" /\ sc = "KEY" ->
         {At("menu", "check"), At("inventory", "check"), At("delay", "check"),
          At("exit_raw", "step")}
    [] place = "inventory" /\ sc = "KEY" -> {At("inventory", "check"), At("menu", "check")}
    [] OTHER -> {At("menu", "check")}

(* Those loops, for which KEY may also be a modifier, the delays of
   try_open_case and the drain at the start of wait_any_key. *)
GambleReactions(place, sc) ==
  IF place = "delay" THEN {At("delay", "hlt"), At("menu", "check"), At("drain", "poll")}
  ELSE IF place = "drain" THEN {At("any_key", "check")}
  ELSE IF ~IsPress(sc) THEN {At(place, "hlt")}
  ELSE GamblePress(place, sc) \cup (IF sc = "KEY" THEN {At(place, "hlt")} ELSE {})

(* play_round, which may be lost when it wakes, and game_over_screen. *)
TetrisReactions(place, sc) ==
  CASE place = "round" -> {At("round", "hlt"), At("over", "hlt")}
    [] place = "over" /\ sc \notin Presses -> {At("over", "hlt")}
    [] place = "over" /\ sc = "ESC" -> {At("exit_raw", "step")}
    [] place = "over" /\ sc = "KEY" ->
         {At("over", "check"), At("restart", "step"), At("exit_raw", "step")}
    [] OTHER -> {At("over", "check")}

Reactions(place, sc) ==
  IF place \in {"boot", "splash"} THEN KernelReactions(place)
  ELSE IF place = "art" THEN ArtReactions(sc)
  ELSE IF place = "song" THEN PortalReactions
  ELSE IF place \in {"round", "over"} THEN TetrisReactions(place, sc)
  ELSE GambleReactions(place, sc)

Act ==
  /\ Running.pc = "act"
  /\ \E position \in Reactions(Running.at, Running.sc) :
       frames' = [frames EXCEPT ![top].at = position[1], ![top].pc = position[2],
                                ![top].sc = NoScancode]
  /\ UNCHANGED <<input, keyboard, fb_suspended, in_service, top>>

(* An interrupt served just before the hlt does not end it: the next does. *)
Hlt ==
  /\ Running.pc = "hlt"
  /\ Goto(At(Running.at, "halted"))
  /\ UNCHANGED <<input, keyboard, fb_suspended, in_service, top>>

(* tetris_run starts another round. *)
Restart ==
  /\ Running.at = "restart"
  /\ cancel_requested' = FALSE
  /\ Goto(At("round", "check"))
  /\ UNCHANGED <<input, ctrl_pressed, raw_mode, raw_last_scancode, key_buffer,
                 fb_suspended, in_service, top>>

ExitGraphics_dark ==
  /\ Running.at = "exit_gfx"
  /\ Goto(At("exit_raw", "step"))
  /\ UNCHANGED <<input, keyboard, fb_suspended, in_service, top>>

(* vga_exit_graphics *)
ExitGraphics ==
  /\ Running.at = "exit_gfx"
  /\ fb_suspended' = FALSE
  /\ Goto(At("exit_raw", "step"))
  /\ UNCHANGED <<input, keyboard, in_service, top>>

(* keyboard_set_raw_mode(0) *)
ExitRawMode ==
  /\ Running.at = "exit_raw"
  /\ raw_mode' = FALSE
  /\ raw_last_scancode' = NoScancode
  /\ Goto(At("exit_cancel", "step"))
  /\ UNCHANGED <<input, ctrl_pressed, cancel_requested, key_buffer, fb_suspended, in_service, top>>

(* keyboard_clear_cancel *)
ClearCancel ==
  /\ Running.at = "exit_cancel"
  /\ cancel_requested' = FALSE
  /\ Goto(At("wipe", "step"))
  /\ UNCHANGED <<input, ctrl_pressed, raw_mode, raw_last_scancode, key_buffer,
                 fb_suspended, in_service, top>>

(* The end of shell_execute_command. *)
WipeLine ==
  /\ Running.at = "wipe"
  /\ key_buffer' = ""
  /\ Goto(At("return", "step"))
  /\ UNCHANGED <<input, ctrl_pressed, raw_mode, raw_last_scancode, cancel_requested,
                 fb_suspended, in_service, top>>

Return_unbalanced ==
  /\ Running.at = "return"
  /\ top' = top - 2
  /\ frames' = [frames EXCEPT ![top] = KernelFrame]
  /\ UNCHANGED <<input, keyboard, fb_suspended, in_service>>

(* The iret of the keyboard interrupt that launched the app. *)
Return ==
  /\ Running.at = "return"
  /\ top' = top - 1
  /\ frames' = [frames EXCEPT ![top] = KernelFrame]
  /\ UNCHANGED <<input, keyboard, fb_suspended, in_service>>

CPU ==
  \/ Check \/ Poll \/ ClearSlot \/ Act \/ Hlt \/ Restart
  \/ ExitGraphics \/ ExitRawMode \/ ClearCancel \/ WipeLine \/ Return

Next ==
  \/ \E key \in Keys : Press(key) \/ Release(key)
  \/ TimerIRQ \/ KeyboardIRQ
  \/ CPU

(* The CPU keeps executing and the PIT keeps ticking. *)
Fairness == WF_vars(CPU) /\ WF_vars(TimerIRQ)
Spec == Init /\ [][Next]_vars
FairSpec == Spec /\ Fairness

(***************************************************************************)
(* Properties                                                              *)
(***************************************************************************)
(* Every variable has its type. *)
TypeOK ==
  /\ fifo \in Seq(Scancodes)
  /\ held \subseteq Keys
  /\ ctrl_pressed \in BOOLEAN /\ raw_mode \in BOOLEAN /\ cancel_requested \in BOOLEAN
  /\ raw_last_scancode \in Scancodes \cup {NoScancode}
  /\ key_buffer \in Lines
  /\ fb_suspended \in BOOLEAN
  /\ in_service \subseteq {0, 1}
  /\ top \in 0..MaxDepth
  /\ frames \in [0..MaxDepth -> Frame]

(* One app at a time.  raw_mode is set exactly while the running frame is an
   app that has not restored it; every frame below belongs to an app that has
   ended, or to kernel_main.  So no app is ever cut by another, whatever was
   typed, and the interrupts an app waits for are not held back by the one
   that launched it (art.c:117-120). *)
OneApp ==
  /\ raw_mode <=> Running.at \in InApp
  /\ \A d \in 1..(top - 1) : frames[d].at \in Epilogue
  /\ frames[0].at \in KernelLoops
  /\ in_service = {}

(* The text renderer is off exactly while art is on the screen: no text app,
   nor the prompt, is ever invisible, and text never covers the art. *)
ScreenOwner == fb_suspended <=> Running.at \in {"art", "exit_gfx"}

(* While an app runs, key_buffer still names it: keys typed and Ctrl+C struck
   in an app never reach the shell's line. *)
LineKept == raw_mode => key_buffer = Running.app

(* ctrl_pressed is never stuck: once the controller is drained it is only set
   while a Ctrl key is down, even when the app that saw it go down has ended. *)
CtrlNotStuck == (fifo = <<>> /\ ctrl_pressed) => held \cap Ctrls # {}

(* No step of an app, interrupt or nested frame takes cancel_requested back
   from a running app before it has polled it and given the keyboard back,
   but for the keyboard_clear_cancel with which tetris restarts. *)
CancelKept ==
  [][cancel_requested /\ raw_mode /\ Running.at # "restart" => cancel_requested']_vars

(* Ctrl+C stops art, portal, gamble and a round of tetris: once cancel_requested
   is set in one of their loops, the app gives the keyboard back. *)
CancelStops ==
  (cancel_requested /\ raw_mode /\ Running.at \notin {"over", "restart"}) ~> ~raw_mode

(* shell.c:221 "Ctrl+C to exit" and keyboard.h:23-27: every app polls the flag,
   with no race, so it stops whichever app is running. *)
CancelStopsEveryApp == (cancel_requested /\ raw_mode) ~> ~raw_mode

(* keyboard.c:105-107: any chord ordering registers.  When the callback reads
   the press that completes Ctrl and C, the flag is set. *)
ChordRegisters ==
  [][ /\ fifo # <<>> /\ fifo' = <<>>
      /\ Head(fifo) \in {"CTRL", "C"}
      /\ {"lctrl", "c"} \subseteq held
      => cancel_requested' ]_vars
=============================================================================
