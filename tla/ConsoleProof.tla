--------------------------- MODULE ConsoleProof ---------------------------
(***************************************************************************)
(* Console keeps its types, runs one app at a time, leaves the screen and  *)
(* the shell's line to whoever owns them, and loses neither a Ctrl+C nor   *)
(* the release of Ctrl: for every set of apps and keys, however deep ENTER *)
(* nests apps, and however fast keys are typed.                            *)
(*                                                                         *)
(* The invariant adds to that what an interrupt may rely on in a frame     *)
(* it finds: loops and straight-line code have their own steps, the idle   *)
(* loop polls nothing, and only frame 0 is kernel_main's.                  *)
(***************************************************************************)
EXTENDS Console, SequenceTheorems, TLAPS

Straight == Places \ (KernelLoops \cup AppLoops)
IdleSteps == {"check", "hlt", "halted"}

Positions ==
  \A d \in 0..MaxDepth : /\ frames[d].pc = "step" <=> frames[d].at \in Straight
                         /\ frames[d].at = "idle" => frames[d].pc \in IdleSteps

AppFrames == \A d \in 1..top : frames[d].at \notin KernelLoops

IInv == TypeOK /\ OneApp /\ ScreenOwner /\ LineKept /\ Positions /\ AppFrames

(* Moving the running frame to p, at step q, keeps what the invariant says
   of it: p has the same owner and q is a step of p. *)
Legal(p, q) ==
  /\ p \in Places /\ q \in Steps
  /\ q = "step" <=> p \in Straight
  /\ p = "idle" => q \in IdleSteps
  /\ p \in InApp <=> Running.at \in InApp
  /\ p \in KernelLoops <=> Running.at \in KernelLoops
  /\ p \in {"art", "exit_gfx"} <=> Running.at \in {"art", "exit_gfx"}

(* The initial state satisfies the invariant. *)
LEMMA Initial == Init => IInv
<1> SUFFICES ASSUME Init PROVE IInv
    OBVIOUS
<1>1. /\ top \in 0..MaxDepth
      /\ frames \in [0..MaxDepth -> Frame]
  <2>1. KernelFrame \in Frame
    BY DEF KernelFrame, Frame, Places, KernelLoops, Steps
  <2>2. top = 0 /\ frames = [d \in 0..MaxDepth |-> KernelFrame]
    BY DEF Init
  <2> QED  BY <2>1, <2>2, ConsoleAssumption
<1>2. \A d \in 0..MaxDepth : frames[d].at = "boot" /\ frames[d].pc = "check"
  BY DEF Init, KernelFrame
<1>3. /\ ~raw_mode /\ ~fb_suspended
      /\ top = 0 /\ 0 \in 0..MaxDepth /\ in_service = {}
  <2>1. ~raw_mode /\ ~fb_suspended /\ top = 0 /\ in_service = {}
    BY Zenon DEF Init
  <2>2. 0 \in 0..MaxDepth
    BY ConsoleAssumption
  <2> QED  BY <2>1, <2>2
<1>4. TypeOK
  <2>1. fifo \in Seq(Scancodes)
    <3>1. fifo = <<>>
      BY Zenon DEF Init
    <3> QED  BY <3>1
  <2>2. held \subseteq Keys /\ key_buffer \in Lines /\ in_service \subseteq {0, 1}
    BY DEF Init, Lines
  <2>3. /\ ctrl_pressed \in BOOLEAN /\ raw_mode \in BOOLEAN
        /\ cancel_requested \in BOOLEAN /\ fb_suspended \in BOOLEAN
    BY DEF Init
  <2>4. raw_last_scancode \in Scancodes \cup {NoScancode}
    BY DEF Init
  <2> QED  BY <1>1, <2>1, <2>2, <2>3, <2>4 DEF TypeOK
<1>5. OneApp
  BY <1>2, <1>3 DEF OneApp, Running, KernelLoops, InApp, AppLoops
<1>6. ScreenOwner /\ LineKept
  BY <1>2, <1>3 DEF ScreenOwner, LineKept, Running
<1>7. Positions /\ AppFrames
  BY <1>2, <1>3 DEF Positions, AppFrames, Straight, IdleSteps, Places, KernelLoops, InApp,
                    AppLoops, Epilogue
<1> QED  BY <1>4, <1>5, <1>6, <1>7 DEF IInv

(* A step that only moves the running frame, legally, keeps the invariant. *)
LEMMA Move ==
  ASSUME IInv, NEW p, NEW q, Legal(p, q),
         frames' \in [0..MaxDepth -> Frame],
         frames'[top].at = p, frames'[top].pc = q, frames'[top].app = Running.app,
         \A d \in 0..MaxDepth : d # top => frames'[d] = frames[d],
         fifo' \in Seq(Scancodes), held' \subseteq Keys,
         ctrl_pressed' \in BOOLEAN, cancel_requested' \in BOOLEAN,
         raw_last_scancode' \in Scancodes \cup {NoScancode},
         key_buffer' \in Lines, raw_mode => key_buffer' = key_buffer,
         in_service' = {},
         UNCHANGED <<raw_mode, fb_suspended, top>>
  PROVE  IInv'
<1>1. /\ top \in 0..MaxDepth /\ MaxDepth \in Nat
      /\ frames \in [0..MaxDepth -> Frame]
  BY ConsoleAssumption DEF IInv, TypeOK
<1>2. TypeOK'
  BY DEF IInv, TypeOK
<1>3. OneApp'
  <2>1. (raw_mode <=> Running.at \in InApp)'
    BY DEF IInv, OneApp, Running, Legal
  <2>2. (\A d \in 1..(top - 1) : frames[d].at \in Epilogue)'
    BY <1>1 DEF IInv, OneApp
  <2>3. (frames[0].at \in KernelLoops)'
    <3>1. frames[0].at \in KernelLoops
      BY DEF IInv, OneApp
    <3>2. CASE top = 0
      BY <3>1, <3>2 DEF Legal, Running
    <3>3. CASE top # 0
      BY <1>1, <3>1, <3>3
    <3> QED  BY <3>2, <3>3
  <2> QED  BY <2>1, <2>2, <2>3 DEF OneApp
<1>4. ScreenOwner'
  BY DEF IInv, ScreenOwner, Running, Legal
<1>5. LineKept'
  BY DEF IInv, LineKept, Running
<1>6. Positions'
  BY <1>1 DEF IInv, Positions, Legal
<1>7. AppFrames'
  BY <1>1 DEF IInv, AppFrames, Legal, Running
<1> QED  BY <1>2, <1>3, <1>4, <1>5, <1>6, <1>7 DEF IInv

(* What the invariant says of the running frame. *)
LEMMA RunningFrame ==
  ASSUME IInv
  PROVE  /\ top \in 0..MaxDepth
         /\ frames \in [0..MaxDepth -> Frame]
         /\ Running \in Frame
         /\ Running.pc = "step" <=> Running.at \in Straight
         /\ Running.at = "idle" => Running.pc \in IdleSteps
         /\ raw_mode <=> Running.at \in InApp
         /\ in_service = {}
<1>1. top \in 0..MaxDepth /\ frames \in [0..MaxDepth -> Frame]
  BY DEF IInv, TypeOK
<1>2. raw_mode <=> Running.at \in InApp
  BY Zenon DEF IInv, OneApp
<1>3. in_service = {}
  BY Zenon DEF IInv, OneApp
<1> QED  BY <1>1, <1>2, <1>3 DEF IInv, Positions, Running

(* The frame an interrupt returns to is where it was, but for a hlt. *)
LEMMA WokenFrames ==
  ASSUME IInv
  PROVE  /\ Woken \in [0..MaxDepth -> Frame]
         /\ \A d \in 0..MaxDepth : Woken[d].at = frames[d].at /\ Woken[d].app = frames[d].app
         /\ \A d \in 0..MaxDepth : d # top => Woken[d] = frames[d]
         /\ Legal(Running.at, Woken[top].pc)
<1>1. /\ top \in 0..MaxDepth /\ frames \in [0..MaxDepth -> Frame] /\ Running \in Frame
      /\ Running.pc = "step" <=> Running.at \in Straight
      /\ Running.at = "idle" => Running.pc \in IdleSteps
  BY RunningFrame
<1>2. CASE Running.pc = "halted"
  <2>1. Woken = [frames EXCEPT ![top].pc = "check"]
    BY <1>2 DEF Woken
  <2>2. "check" \in Steps
    BY DEF Steps
  <2>3. Woken \in [0..MaxDepth -> Frame]
    BY <1>1, <2>1, <2>2 DEF Frame
  <2>4. Woken[top].pc = "check" /\ Woken[top].at = Running.at
    BY <1>1, <2>1 DEF Frame, Running
  <2>5. Legal(Running.at, "check")
    BY <1>1, <1>2, <2>2 DEF Legal, Frame, IdleSteps
  <2> QED  BY <1>1, <2>1, <2>3, <2>4, <2>5 DEF Frame
<1>3. CASE Running.pc # "halted"
  <2>1. Woken = frames
    BY <1>3 DEF Woken
  <2>2. Legal(Running.at, Running.pc)
    BY <1>1 DEF Legal, Frame
  <2> QED  BY <1>1, <2>1, <2>2 DEF Running
<1> QED  BY <1>2, <1>3

(* Interrupts that leave the running frame where it is. *)
LEMMA Interrupted ==
  ASSUME IInv, frames' = frames \/ frames' = Woken,
         fifo' \in Seq(Scancodes), held' \subseteq Keys,
         ctrl_pressed' \in BOOLEAN, cancel_requested' \in BOOLEAN,
         raw_last_scancode' \in Scancodes \cup {NoScancode},
         key_buffer' \in Lines, raw_mode => key_buffer' = key_buffer,
         in_service' = {},
         UNCHANGED <<raw_mode, fb_suspended, top>>
  PROVE  IInv'
<1>1. /\ top \in 0..MaxDepth /\ frames \in [0..MaxDepth -> Frame] /\ Running \in Frame
      /\ Running.pc = "step" <=> Running.at \in Straight
      /\ Running.at = "idle" => Running.pc \in IdleSteps
  BY RunningFrame
<1>2. CASE frames' = frames
  <2>1. Legal(Running.at, Running.pc)
    BY <1>1 DEF Legal, Frame
  <2>2. /\ frames' \in [0..MaxDepth -> Frame]
        /\ frames'[top].at = Running.at /\ frames'[top].pc = Running.pc
        /\ frames'[top].app = Running.app
        /\ \A d \in 0..MaxDepth : d # top => frames'[d] = frames[d]
    BY <1>1, <1>2 DEF Running
  <2> QED  BY <2>1, <2>2, Move
<1>3. CASE frames' = Woken
  <2>1. /\ frames' \in [0..MaxDepth -> Frame]
        /\ frames'[top].at = Running.at
        /\ frames'[top].app = Running.app
        /\ \A d \in 0..MaxDepth : d # top => frames'[d] = frames[d]
        /\ Legal(Running.at, frames'[top].pc)
    BY <1>1, <1>3, WokenFrames DEF Running
  <2> QED  BY <2>1, Move
<1> QED  BY <1>2, <1>3

(* Every reaction of a loop stays with its owner. *)
LEMMA LegalReactions ==
  ASSUME IInv, Running.pc = "act", NEW position \in Reactions(Running.at, Running.sc)
  PROVE  Legal(position[1], position[2])
<1>1. /\ Running \in Frame /\ Running.at \notin Straight /\ Running.at # "idle"
  BY RunningFrame DEF IdleSteps
<1>2. Running.at \in {"boot", "splash"} \cup AppLoops
  BY <1>1 DEF Frame, Straight, Places, KernelLoops
<1>3. CASE Running.at \in {"boot", "splash"}
  <2>1. position \in KernelReactions(Running.at)
    BY <1>3 DEF Reactions
  <2> QED  BY <1>3, <2>1 DEF KernelReactions, At, Legal, Straight, IdleSteps, Places, Steps,
                             KernelLoops, InApp, AppLoops, Epilogue
<1>4. CASE Running.at = "art"
  <2>1. position \in ArtReactions(Running.sc)
    BY <1>4 DEF Reactions
  <2> QED  BY <1>4, <2>1 DEF ArtReactions, At, Legal, Straight, IdleSteps, Places, Steps,
                             KernelLoops, InApp, AppLoops, Epilogue
<1>5. CASE Running.at = "song"
  <2>1. position \in PortalReactions
    BY <1>5 DEF Reactions
  <2> QED  BY <1>5, <2>1 DEF PortalReactions, At, Legal, Straight, IdleSteps, Places, Steps,
                             KernelLoops, InApp, AppLoops, Epilogue
<1>6. CASE Running.at \in {"round", "over"}
  <2>1. position \in TetrisReactions(Running.at, Running.sc)
    BY <1>6 DEF Reactions
  <2>2. position \in {At("round", "hlt"), At("over", "hlt"), At("over", "check"),
                      At("restart", "step"), At("exit_raw", "step")}
    BY <1>6, <2>1 DEF TetrisReactions
  <2> QED  BY <1>6, <2>2 DEF At, Legal, Straight, IdleSteps, Places, Steps,
                             KernelLoops, InApp, AppLoops, Epilogue
<1>7. CASE Running.at \in {"menu", "inventory", "delay", "drain", "any_key"}
  <2>1. position \in GambleReactions(Running.at, Running.sc)
    BY <1>7 DEF Reactions
  <2>2. position \in {At(Running.at, "hlt"), At("menu", "check"), At("drain", "poll"),
                      At("any_key", "check"), At("inventory", "check"), At("delay", "check"),
                      At("exit_raw", "step")}
    <3>1. GamblePress(Running.at, Running.sc) \subseteq
            {At("menu", "check"), At("inventory", "check"), At("delay", "check"),
             At("exit_raw", "step")}
      BY DEF GamblePress
    <3> QED  BY <1>7, <2>1, <3>1 DEF GambleReactions
  <2> QED  BY <1>7, <2>2 DEF At, Legal, Straight, IdleSteps, Places, Steps,
                             KernelLoops, InApp, AppLoops, Epilogue
<1> QED  BY <1>2, <1>3, <1>4, <1>5, <1>6, <1>7 DEF AppLoops

(***************************************************************************)
(* The user and the interrupts                                             *)
(***************************************************************************)
LEMMA TypingKeeps ==
  ASSUME IInv, NEW key \in Keys, Press(key) \/ Release(key)
  PROVE  IInv'
<1>1. key \in {"lctrl", "rctrl", "c", "esc", "enter", "key"}
  BY ConsoleAssumption
<1>2. Down[key] \in Seq(Scancodes) /\ Up[key] \in Seq(Scancodes)
  <2>1. \A sc \in Scancodes : <<sc>> \in Seq(Scancodes)
    OBVIOUS
  <2>2. \A sc1, sc2 \in Scancodes : <<sc1, sc2>> \in Seq(Scancodes)
    OBVIOUS
  <2>3. {"E0", "CTRL", "CTRL_REL", "REL", "C", "ESC", "ENTER", "KEY"} \subseteq Scancodes
    BY DEF Scancodes, Presses
  <2>4. /\ Down[key] \in {<<"CTRL">>, <<"E0", "CTRL">>, <<"C">>, <<"ESC">>, <<"ENTER">>, <<"KEY">>}
        /\ Up[key] \in {<<"CTRL_REL">>, <<"E0", "CTRL_REL">>, <<"REL">>}
    BY <1>1 DEF Down, Up
  <2> QED  BY <2>1, <2>2, <2>3, <2>4
<1>3. PICK codes \in Seq(Scancodes) : Type(codes)
  BY <1>2 DEF Press, Release
<1>4. fifo' \in Seq(Scancodes)
  BY <1>3, ConcatProperties DEF Type, IInv, TypeOK
<1>5. held' \subseteq Keys
  BY DEF IInv, TypeOK, Press, Release
<1>6. UNCHANGED <<keyboard, fb_suspended, in_service, top, frames>>
  BY <1>3 DEF Type
<1>7. in_service = {}
  BY RunningFrame
<1> QED  BY <1>4, <1>5, <1>6, <1>7, Interrupted DEF keyboard, IInv, TypeOK

LEMMA TimerKeeps ==
  ASSUME IInv, TimerIRQ
  PROVE  IInv'
<1>1. in_service' = {}
  BY RunningFrame DEF TimerIRQ, EOI
<1>2. frames' = Woken
  BY DEF TimerIRQ
<1>3. UNCHANGED <<input, keyboard, fb_suspended, top>>
  BY DEF TimerIRQ
<1> QED  BY <1>1, <1>2, <1>3, Interrupted DEF input, keyboard, IInv, TypeOK

(* shell_execute_command up to the `sti` of an app: the app's frame is on
   top, and the frame below is that of kernel_main or of an app that ended. *)
LEMMA LaunchKeeps ==
  ASSUME IInv, NEW app \in Apps, Launch(app),
         fifo' \in Seq(Scancodes), held' \subseteq Keys, ctrl_pressed' \in BOOLEAN,
         in_service' = {}
  PROVE  IInv'
<1>1. /\ top \in 0..MaxDepth /\ top < MaxDepth /\ MaxDepth \in Nat
      /\ frames \in [0..MaxDepth -> Frame]
      /\ Running.at \notin InApp
  BY RunningFrame, ConsoleAssumption DEF Launch
<1>2. /\ Woken \in [0..MaxDepth -> Frame]
      /\ \A d \in 0..MaxDepth : Woken[d].at = frames[d].at
      /\ \A d \in 0..MaxDepth : d # top => Woken[d] = frames[d]
      /\ Woken[top].pc \in Steps
      /\ Woken[top].pc = "step" <=> Running.at \in Straight
      /\ Running.at = "idle" => Woken[top].pc \in IdleSteps
  BY WokenFrames DEF Legal
<1>3. /\ AppFrame(app) \in Frame /\ AppFrame(app).app = app /\ AppFrame(app).pc = "check"
      /\ AppFrame(app).at \in {"art", "song", "menu", "round"}
      /\ AppFrame(app).at = "art" <=> app = "art"
  <2>1. app \in {"art", "portal", "gamble", "tetris"}
    BY ConsoleAssumption
  <2> QED  BY <2>1 DEF AppFrame, FirstPlace, Frame, Places, InApp, AppLoops, Steps
<1>4. /\ top' = top + 1 /\ top' \in 0..MaxDepth
      /\ frames' = [Woken EXCEPT ![top + 1] = AppFrame(app)]
  BY <1>1 DEF Launch
<1>5. /\ frames' \in [0..MaxDepth -> Frame]
      /\ frames'[top'] = AppFrame(app)
      /\ \A d \in 0..MaxDepth : d # top' => frames'[d] = Woken[d]
  BY <1>1, <1>2, <1>3, <1>4
<1>6. TypeOK'
  <2>1. key_buffer' \in Lines /\ raw_last_scancode' \in Scancodes \cup {NoScancode}
    BY DEF Launch, Lines
  <2>2. cancel_requested' \in BOOLEAN /\ raw_mode' \in BOOLEAN /\ fb_suspended' \in BOOLEAN
    BY Zenon DEF Launch, IInv, TypeOK
  <2> QED  BY <1>4, <1>5, <2>1, <2>2 DEF TypeOK
<1>7. OneApp'
  <2>1. raw_mode'
    BY Zenon DEF Launch
  <2>2. Running'.at \in InApp
    BY <1>3, <1>5 DEF Running, InApp, AppLoops
  <2>3. ASSUME NEW d \in 1..top PROVE frames'[d].at \in Epilogue
    <3>1. frames'[d].at = frames[d].at /\ frames[d].at \in Places
      BY <1>1, <1>2, <1>4, <1>5 DEF Frame
    <3>2. CASE d = top
      BY <1>1, <3>1, <3>2 DEF IInv, AppFrames, Running, Places
    <3>3. CASE d # top
      BY <1>1, <3>1, <3>3 DEF IInv, OneApp
    <3> QED  BY <3>2, <3>3
  <2>4. frames'[0].at \in KernelLoops
    BY <1>1, <1>2, <1>4, <1>5 DEF IInv, OneApp
  <2>5. \A d \in 1..(top' - 1) : frames'[d].at \in Epilogue
    BY <1>1, <1>4, <2>3
  <2> QED  BY <2>1, <2>2, <2>4, <2>5 DEF OneApp
<1>8. ScreenOwner'
  <2>1. ~fb_suspended
    BY <1>1 DEF IInv, ScreenOwner, InApp, AppLoops
  <2>2. fb_suspended' <=> app = "art"
    <3>1. fb_suspended' = IF app = "art" THEN TRUE ELSE fb_suspended
      BY DEF Launch
    <3> QED  BY Zenon, <2>1, <3>1
  <2> QED  BY <1>3, <1>5, <2>2 DEF ScreenOwner, Running
<1>9. LineKept'
  BY <1>3, <1>5 DEF LineKept, Running, Launch
<1>10. Positions'
  <2> SUFFICES ASSUME NEW d \in 0..MaxDepth
               PROVE  /\ frames'[d].pc = "step" <=> frames'[d].at \in Straight
                      /\ frames'[d].at = "idle" => frames'[d].pc \in IdleSteps
    BY DEF Positions
  <2>1. CASE d = top'
    BY <1>3, <1>5, <2>1 DEF Straight, AppLoops
  <2>2. CASE d # top' /\ d = top
    BY <1>2, <1>5, <2>2 DEF Running
  <2>3. CASE d # top' /\ d # top
    BY <1>2, <1>5, <2>3 DEF IInv, Positions
  <2> QED  BY <2>1, <2>2, <2>3
<1>11. AppFrames'
  <2> SUFFICES ASSUME NEW d \in 1..top'
               PROVE  frames'[d].at \notin KernelLoops
    BY DEF AppFrames
  <2>1. CASE d = top'
    BY <1>3, <1>5, <2>1 DEF KernelLoops
  <2>2. CASE d # top'
    BY <1>1, <1>2, <1>4, <1>5, <2>2 DEF IInv, AppFrames
  <2> QED  BY <2>1, <2>2
<1> QED  BY <1>6, <1>7, <1>8, <1>9, <1>10, <1>11 DEF IInv

LEMMA KeyboardKeeps ==
  ASSUME IInv, KeyboardIRQ
  PROVE  IInv'
<1> DEFINE sc == Head(fifo)
<1>1. fifo' \in Seq(Scancodes) /\ sc \in Scancodes
  BY HeadTailProperties DEF KeyboardIRQ, IInv, TypeOK
<1>2. held' \subseteq Keys
  BY DEF KeyboardIRQ, IInv, TypeOK
<1>3. in_service' = {}
  BY RunningFrame DEF KeyboardIRQ, EOI
<1>4. ctrl_pressed' \in BOOLEAN
  <2>1. TracksCtrl(sc)
    BY DEF KeyboardIRQ
  <2> QED  BY Zenon, <2>1 DEF TracksCtrl, IInv, TypeOK
<1>5. cancel_requested \in BOOLEAN /\ key_buffer \in Lines
      /\ raw_last_scancode \in Scancodes \cup {NoScancode}
  BY DEF IInv, TypeOK
<1>6. CASE Cancel
  <2>1. /\ cancel_requested' \in BOOLEAN /\ key_buffer' \in Lines
        /\ raw_mode => key_buffer' = key_buffer
    BY <1>5, <1>6 DEF Cancel, Lines
  <2> QED  BY <1>1, <1>2, <1>3, <1>4, <1>5, <1>6, <2>1, Interrupted DEF Cancel
<1>7. CASE Expose(sc)
  BY <1>1, <1>2, <1>3, <1>4, <1>5, <1>7, Interrupted DEF Expose
<1>8. CASE Edit(sc)
  BY <1>1, <1>2, <1>3, <1>4, <1>5, <1>8, Interrupted DEF Edit
<1>9. CASE Execute
  <2>1. key_buffer' \in Lines
    BY <1>9 DEF Execute, Lines
  <2> QED  BY <1>1, <1>2, <1>3, <1>4, <1>5, <1>9, <2>1, Interrupted DEF Execute
<1>10. ASSUME NEW app \in Apps, Launch(app) PROVE IInv'
  BY <1>1, <1>2, <1>3, <1>4, <1>10, LaunchKeeps
<1> QED  BY <1>6, <1>7, <1>8, <1>9, <1>10 DEF KeyboardIRQ

(***************************************************************************)
(* The running frame: steps that stay with its owner                       *)
(***************************************************************************)
LEMMA CheckKeeps ==
  ASSUME IInv, Check
  PROVE  IInv'
<1>1. /\ top \in 0..MaxDepth /\ frames \in [0..MaxDepth -> Frame] /\ Running \in Frame
      /\ Running.at \notin Straight
      /\ in_service = {}
  BY RunningFrame DEF Check
<1> DEFINE position == IF Running.at = "idle" THEN At("idle", "hlt")
                       ELSE IF cancel_requested THEN Cancelled(Running.at)
                       ELSE IF Running.at \in Polling THEN At(Running.at, "poll")
                       ELSE At(Running.at, "act")
<1>2. Running.at \in KernelLoops \cup AppLoops
  BY <1>1 DEF Frame, Straight
<1>3. Legal(position[1], position[2])
  <2>1. Running.at # "idle" => Legal(Cancelled(Running.at)[1], Cancelled(Running.at)[2])
    <3>1. CASE Running.at = "boot"
      BY <3>1 DEF Cancelled, KernelCancelled, GambleCancelled, At, Legal,
                  Straight, IdleSteps, Places, Steps, KernelLoops, InApp, AppLoops, Epilogue
    <3>2. CASE Running.at = "splash"
      BY <3>2 DEF Cancelled, KernelCancelled, GambleCancelled, At, Legal,
                  Straight, IdleSteps, Places, Steps, KernelLoops, InApp, AppLoops, Epilogue
    <3>3. CASE Running.at = "art"
      BY <3>3 DEF Cancelled, KernelCancelled, GambleCancelled, At, Legal,
                  Straight, IdleSteps, Places, Steps, KernelLoops, InApp, AppLoops, Epilogue
    <3>4. CASE Running.at \in {"inventory", "delay", "any_key"}
      BY <3>4 DEF Cancelled, KernelCancelled, GambleCancelled, At, Legal,
                  Straight, IdleSteps, Places, Steps, KernelLoops, InApp, AppLoops, Epilogue
    <3>5. CASE Running.at \in {"song", "menu", "drain", "round", "over"}
      BY <3>5 DEF Cancelled, KernelCancelled, GambleCancelled, At, Legal,
                  Straight, IdleSteps, Places, Steps, KernelLoops, InApp, AppLoops, Epilogue
    <3> QED  BY <1>2, <3>1, <3>2, <3>3, <3>4, <3>5 DEF KernelLoops, AppLoops
  <2>2. Legal("idle", "hlt") \/ Running.at # "idle"
    BY DEF Legal, Straight, IdleSteps, Places, Steps, KernelLoops, InApp, AppLoops, Epilogue
  <2>3. Running.at # "idle" => Legal(Running.at, "poll") /\ Legal(Running.at, "act")
    BY <1>1 DEF Legal, Frame, Steps
  <2> QED  BY <2>1, <2>2, <2>3 DEF At
<1>4. frames' = [frames EXCEPT ![top].at = position[1], ![top].pc = position[2]]
  BY DEF Check, Goto
<1>5. position[1] \in Places /\ position[2] \in Steps
  BY <1>3 DEF Legal
<1> HIDE DEF position
<1>6. /\ frames' \in [0..MaxDepth -> Frame]
      /\ frames'[top].at = position[1] /\ frames'[top].pc = position[2]
      /\ frames'[top].app = Running.app
      /\ \A d \in 0..MaxDepth : d # top => frames'[d] = frames[d]
  BY <1>1, <1>4, <1>5 DEF Frame, Running
<1>7. UNCHANGED <<input, keyboard, fb_suspended, in_service, top>>
  BY DEF Check
<1> QED  BY <1>1, <1>3, <1>6, <1>7, Move DEF input, keyboard, IInv, TypeOK

LEMMA PollKeeps ==
  ASSUME IInv, Poll \/ ClearSlot
  PROVE  IInv'
<1>1. /\ top \in 0..MaxDepth /\ frames \in [0..MaxDepth -> Frame] /\ Running \in Frame
      /\ Running.at \notin Straight /\ Running.at # "idle"
      /\ in_service = {}
  BY RunningFrame DEF Poll, ClearSlot, IdleSteps
<1>2. Legal(Running.at, "clear") /\ Legal(Running.at, "act")
  BY <1>1 DEF Legal, Frame, Steps
<1>3. CASE Poll
  <2>1. frames' = [frames EXCEPT ![top].pc = "clear", ![top].sc = raw_last_scancode]
    BY <1>3 DEF Poll
  <2>2. raw_last_scancode \in Scancodes \cup {NoScancode}
    BY DEF IInv, TypeOK
  <2>3. /\ frames' \in [0..MaxDepth -> Frame]
        /\ frames'[top].at = Running.at /\ frames'[top].pc = "clear"
        /\ frames'[top].app = Running.app
        /\ \A d \in 0..MaxDepth : d # top => frames'[d] = frames[d]
    BY <1>1, <2>1, <2>2 DEF Frame, Running, Steps
  <2>4. UNCHANGED <<input, keyboard, fb_suspended, in_service, top>>
    BY <1>3 DEF Poll
  <2> QED  BY <1>1, <1>2, <2>3, <2>4, Move DEF input, keyboard, IInv, TypeOK
<1>4. CASE ClearSlot
  <2>1. frames' = [frames EXCEPT ![top].at = Running.at, ![top].pc = "act"]
    BY <1>4 DEF ClearSlot, Goto, At
  <2>2. /\ frames' \in [0..MaxDepth -> Frame]
        /\ frames'[top].at = Running.at /\ frames'[top].pc = "act"
        /\ frames'[top].app = Running.app
        /\ \A d \in 0..MaxDepth : d # top => frames'[d] = frames[d]
    BY <1>1, <2>1 DEF Frame, Running, Steps
  <2>3. /\ raw_last_scancode' \in Scancodes \cup {NoScancode}
        /\ UNCHANGED <<input, ctrl_pressed, raw_mode, cancel_requested, key_buffer,
                       fb_suspended, in_service, top>>
    BY <1>4 DEF ClearSlot
  <2> QED  BY <1>1, <1>2, <2>2, <2>3, Move DEF input, IInv, TypeOK
<1> QED  BY <1>3, <1>4

LEMMA ActKeeps ==
  ASSUME IInv, Act
  PROVE  IInv'
<1>1. /\ top \in 0..MaxDepth /\ frames \in [0..MaxDepth -> Frame] /\ Running \in Frame
      /\ in_service = {}
  BY RunningFrame
<1>2. PICK position \in Reactions(Running.at, Running.sc) :
        frames' = [frames EXCEPT ![top].at = position[1], ![top].pc = position[2],
                                 ![top].sc = NoScancode]
  BY DEF Act
<1>3. Legal(position[1], position[2])
  BY LegalReactions DEF Act
<1>4. /\ frames' \in [0..MaxDepth -> Frame]
      /\ frames'[top].at = position[1] /\ frames'[top].pc = position[2]
      /\ frames'[top].app = Running.app
      /\ \A d \in 0..MaxDepth : d # top => frames'[d] = frames[d]
  BY <1>1, <1>2, <1>3 DEF Frame, Running, Legal
<1>5. UNCHANGED <<input, keyboard, fb_suspended, in_service, top>>
  BY DEF Act
<1> QED  BY <1>1, <1>3, <1>4, <1>5, Move DEF input, keyboard, IInv, TypeOK

LEMMA HltKeeps ==
  ASSUME IInv, Hlt
  PROVE  IInv'
<1>1. /\ top \in 0..MaxDepth /\ frames \in [0..MaxDepth -> Frame] /\ Running \in Frame
      /\ Running.at \notin Straight /\ in_service = {}
  BY RunningFrame DEF Hlt
<1>2. Legal(Running.at, "halted")
  BY <1>1 DEF Legal, Frame, Steps, IdleSteps
<1>3. frames' = [frames EXCEPT ![top].at = Running.at, ![top].pc = "halted"]
  BY DEF Hlt, Goto, At
<1>4. /\ frames' \in [0..MaxDepth -> Frame]
      /\ frames'[top].at = Running.at /\ frames'[top].pc = "halted"
      /\ frames'[top].app = Running.app
      /\ \A d \in 0..MaxDepth : d # top => frames'[d] = frames[d]
  BY <1>1, <1>3 DEF Frame, Running, Steps
<1>5. UNCHANGED <<input, keyboard, fb_suspended, in_service, top>>
  BY DEF Hlt
<1> QED  BY <1>1, <1>2, <1>4, <1>5, Move DEF input, keyboard, IInv, TypeOK

(***************************************************************************)
(* Straight-line code                                                      *)
(***************************************************************************)
(* The frames a Goto leads to. *)
LEMMA GotoFrames ==
  ASSUME IInv, NEW p \in Places, NEW q \in Steps, Goto(At(p, q))
  PROVE  /\ frames' \in [0..MaxDepth -> Frame]
         /\ frames'[top].at = p /\ frames'[top].pc = q
         /\ frames'[top].app = Running.app
         /\ \A d \in 0..MaxDepth : d # top => frames'[d] = frames[d]
<1>1. /\ top \in 0..MaxDepth /\ frames \in [0..MaxDepth -> Frame]
  BY RunningFrame
<1>2. frames' = [frames EXCEPT ![top].at = p, ![top].pc = q]
  BY DEF Goto, At
<1> QED  BY <1>1, <1>2 DEF Frame, Running

LEMMA StraightKeeps ==
  ASSUME IInv, Restart \/ ClearCancel \/ WipeLine
  PROVE  IInv'
<1>1. in_service = {} /\ (raw_mode <=> Running.at \in InApp)
  BY RunningFrame
<1>2. CASE Restart
  <2>1. Legal("round", "check")
    BY <1>2 DEF Restart, Legal, Straight, IdleSteps, Places, Steps, KernelLoops, InApp, AppLoops,
                Epilogue
  <2>2. Goto(At("round", "check")) /\ "round" \in Places /\ "check" \in Steps
    BY <1>2, <2>1 DEF Restart, Legal
  <2>3. /\ cancel_requested' \in BOOLEAN
        /\ UNCHANGED <<input, ctrl_pressed, raw_mode, raw_last_scancode, key_buffer,
                       fb_suspended, in_service, top>>
    BY <1>2 DEF Restart
  <2> QED  BY <1>1, <2>1, <2>2, <2>3, GotoFrames, Move DEF input, IInv, TypeOK
<1>3. CASE ClearCancel
  <2>1. Legal("wipe", "step")
    BY <1>3 DEF ClearCancel, Legal, Straight, IdleSteps, Places, Steps, KernelLoops, InApp,
                AppLoops, Epilogue
  <2>2. Goto(At("wipe", "step")) /\ "wipe" \in Places /\ "step" \in Steps
    BY <1>3, <2>1 DEF ClearCancel, Legal
  <2>3. /\ cancel_requested' \in BOOLEAN
        /\ UNCHANGED <<input, ctrl_pressed, raw_mode, raw_last_scancode, key_buffer,
                       fb_suspended, in_service, top>>
    BY <1>3 DEF ClearCancel
  <2> QED  BY <1>1, <2>1, <2>2, <2>3, GotoFrames, Move DEF input, IInv, TypeOK
<1>4. CASE WipeLine
  <2>1. Legal("return", "step") /\ Running.at \notin InApp
    BY <1>4 DEF WipeLine, Legal, Straight, IdleSteps, Places, Steps, KernelLoops, InApp,
                AppLoops, Epilogue
  <2>2. Goto(At("return", "step")) /\ "return" \in Places /\ "step" \in Steps
    BY <1>4, <2>1 DEF WipeLine, Legal
  <2>3. /\ key_buffer' \in Lines /\ ~raw_mode
        /\ UNCHANGED <<input, ctrl_pressed, raw_mode, raw_last_scancode, cancel_requested,
                       fb_suspended, in_service, top>>
    BY <1>1, <1>4, <2>1 DEF WipeLine, Lines
  <2> QED  BY <1>1, <2>1, <2>2, <2>3, GotoFrames, Move DEF input, IInv, TypeOK
<1> QED  BY <1>2, <1>3, <1>4

(* The two steps that hand back what the running app owned, the screen and
   the keyboard: only the frame's own ownership changes. *)
LEMMA ExitKeeps ==
  ASSUME IInv, ExitGraphics \/ ExitRawMode
  PROVE  IInv'
<1>1. /\ top \in 0..MaxDepth /\ MaxDepth \in Nat
      /\ frames \in [0..MaxDepth -> Frame]
      /\ (raw_mode <=> Running.at \in InApp)
      /\ in_service = {}
  BY RunningFrame, ConsoleAssumption
<1>2. CASE ExitGraphics
  <2>1. /\ Running.at = "exit_gfx" /\ ~fb_suspended'
        /\ Goto(At("exit_raw", "step"))
        /\ UNCHANGED <<fifo, held, ctrl_pressed, raw_mode, raw_last_scancode, cancel_requested,
                       key_buffer, in_service, top>>
    BY Zenon, <1>2 DEF ExitGraphics, input, keyboard
  <2>2. "exit_raw" \in Places /\ "step" \in Steps
    BY DEF Places, InApp, Steps
  <2>3. /\ frames' \in [0..MaxDepth -> Frame]
        /\ frames'[top].at = "exit_raw" /\ frames'[top].pc = "step"
        /\ frames'[top].app = Running.app
        /\ \A d \in 0..MaxDepth : d # top => frames'[d] = frames[d]
    BY <2>1, <2>2, GotoFrames
  <2>4. TypeOK'
    <3>1. fb_suspended' \in BOOLEAN
      BY <1>2 DEF ExitGraphics
    <3> QED  BY <2>1, <2>3, <3>1 DEF IInv, TypeOK
  <2>5. OneApp'
    BY <1>1, <2>1, <2>3 DEF IInv, OneApp, Running, InApp, KernelLoops, AppLoops
  <2>6. ScreenOwner'
    BY <2>1, <2>3 DEF ScreenOwner, Running
  <2>7. LineKept'
    BY <2>1, <2>3 DEF IInv, LineKept, Running
  <2>8. Positions'
    BY <1>1, <2>1, <2>3 DEF IInv, Positions, Straight, Places, KernelLoops, InApp, AppLoops
  <2>9. AppFrames'
    BY <1>1, <2>1, <2>3 DEF IInv, AppFrames, KernelLoops
  <2> QED  BY <2>4, <2>5, <2>6, <2>7, <2>8, <2>9 DEF IInv
<1>3. CASE ExitRawMode
  <2>1. /\ Running.at = "exit_raw" /\ ~raw_mode' /\ raw_last_scancode' = NoScancode
        /\ Goto(At("exit_cancel", "step"))
        /\ UNCHANGED <<fifo, held, ctrl_pressed, cancel_requested, key_buffer, fb_suspended,
                       in_service, top>>
    BY Zenon, <1>3 DEF ExitRawMode, input
  <2>2. "exit_cancel" \in Places /\ "step" \in Steps
    BY DEF Places, Epilogue, Steps
  <2>3. /\ frames' \in [0..MaxDepth -> Frame]
        /\ frames'[top].at = "exit_cancel" /\ frames'[top].pc = "step"
        /\ frames'[top].app = Running.app
        /\ \A d \in 0..MaxDepth : d # top => frames'[d] = frames[d]
    BY <2>1, <2>2, GotoFrames
  <2>4. TypeOK'
    <3>1. raw_mode' \in BOOLEAN
      BY <1>3 DEF ExitRawMode
    <3> QED  BY <2>1, <2>3, <3>1 DEF IInv, TypeOK
  <2>5. OneApp'
    BY <1>1, <2>1, <2>3 DEF IInv, OneApp, Running, InApp, KernelLoops, AppLoops
  <2>6. ScreenOwner'
    BY <2>1, <2>3 DEF IInv, ScreenOwner, Running
  <2>7. LineKept'
    BY <2>1 DEF LineKept
  <2>8. Positions'
    BY <1>1, <2>1, <2>3 DEF IInv, Positions, Straight, Places, KernelLoops, InApp, AppLoops,
                            Epilogue
  <2>9. AppFrames'
    BY <1>1, <2>1, <2>3 DEF IInv, AppFrames, KernelLoops
  <2> QED  BY <2>4, <2>5, <2>6, <2>7, <2>8, <2>9 DEF IInv
<1> QED  BY <1>2, <1>3

(* The iret: the frame below is kernel_main's or one that had ended. *)
LEMMA ReturnKeeps ==
  ASSUME IInv, Return
  PROVE  IInv'
<1>1. /\ top \in 0..MaxDepth /\ MaxDepth \in Nat
      /\ frames \in [0..MaxDepth -> Frame]
      /\ (raw_mode <=> Running.at \in InApp)
      /\ in_service = {}
  BY RunningFrame, ConsoleAssumption
<1>2. /\ Running.at = "return"
      /\ top' = top - 1
      /\ frames' = [frames EXCEPT ![top] = KernelFrame]
      /\ UNCHANGED <<fifo, held, ctrl_pressed, raw_mode, raw_last_scancode, cancel_requested,
                     key_buffer, fb_suspended, in_service>>
  BY DEF Return, input, keyboard
<1>3. top # 0
  BY <1>2 DEF IInv, OneApp, Running, KernelLoops
<1>4. /\ KernelFrame \in Frame /\ KernelFrame.at = "boot" /\ KernelFrame.pc = "check"
  BY DEF KernelFrame, Frame, Places, KernelLoops, Steps
<1>5. /\ top' \in 0..MaxDepth /\ top' # top
      /\ frames' \in [0..MaxDepth -> Frame]
      /\ \A d \in 0..MaxDepth : d # top => frames'[d] = frames[d]
      /\ frames'[top] = KernelFrame
  BY <1>1, <1>2, <1>3, <1>4
<1>6. ~raw_mode /\ ~fb_suspended
  BY <1>1, <1>2 DEF IInv, ScreenOwner, InApp, AppLoops
<1>7. frames'[top'].at \in KernelLoops \cup Epilogue
  <2>1. CASE top' = 0
    BY <1>5, <2>1, ConsoleAssumption DEF IInv, OneApp
  <2>2. CASE top' # 0
    BY <1>1, <1>2, <1>5, <2>2 DEF IInv, OneApp
  <2> QED  BY <2>1, <2>2
<1>8. TypeOK'
  BY <1>2, <1>5 DEF IInv, TypeOK
<1>9. OneApp'
  <2>1. Running'.at \notin InApp
    BY <1>7 DEF Running, KernelLoops, Epilogue, InApp, AppLoops
  <2>2. \A d \in 1..(top' - 1) : frames'[d].at \in Epilogue
    BY <1>1, <1>2, <1>5 DEF IInv, OneApp
  <2>3. frames'[0].at \in KernelLoops
    BY <1>1, <1>3, <1>5 DEF IInv, OneApp
  <2> QED  BY <1>1, <1>2, <1>6, <2>1, <2>2, <2>3 DEF OneApp
<1>10. ScreenOwner'
  BY <1>2, <1>6, <1>7 DEF ScreenOwner, Running, KernelLoops, Epilogue
<1>11. LineKept'
  BY <1>2, <1>6 DEF LineKept
<1>12. Positions'
  BY <1>4, <1>5 DEF IInv, Positions, Straight, KernelLoops
<1>13. AppFrames'
  BY <1>1, <1>2, <1>5 DEF IInv, AppFrames
<1> QED  BY <1>8, <1>9, <1>10, <1>11, <1>12, <1>13 DEF IInv

(***************************************************************************)
(* The theorems                                                            *)
(***************************************************************************)
LEMMA Inductive == IInv /\ [Next]_vars => IInv'
<1> SUFFICES ASSUME IInv, [Next]_vars PROVE IInv'
    OBVIOUS
<1>1. CASE \E key \in Keys : Press(key) \/ Release(key)
  BY <1>1, TypingKeeps
<1>2. CASE TimerIRQ
  BY <1>2, TimerKeeps
<1>3. CASE KeyboardIRQ
  BY <1>3, KeyboardKeeps
<1>4. CASE Check
  BY <1>4, CheckKeeps
<1>5. CASE Poll \/ ClearSlot
  BY <1>5, PollKeeps
<1>6. CASE Act
  BY <1>6, ActKeeps
<1>7. CASE Hlt
  BY <1>7, HltKeeps
<1>8. CASE Restart \/ ClearCancel \/ WipeLine
  BY <1>8, StraightKeeps
<1>9. CASE ExitGraphics \/ ExitRawMode
  BY <1>9, ExitKeeps
<1>10. CASE Return
  BY <1>10, ReturnKeeps
<1>11. CASE UNCHANGED vars
  <2>1. UNCHANGED <<fifo, held, ctrl_pressed, raw_mode, raw_last_scancode, cancel_requested,
                    key_buffer, fb_suspended, in_service, top, frames>>
    BY <1>11 DEF vars, input, keyboard
  <2> QED  BY <2>1, RunningFrame, Interrupted DEF IInv, TypeOK
<1> QED  BY <1>1, <1>2, <1>3, <1>4, <1>5, <1>6, <1>7, <1>8, <1>9, <1>10, <1>11 DEF Next, CPU

LEMMA Invariant == Spec => []IInv
<1> QED  BY Initial, Inductive, PTL DEF Spec

(* The flags, the line and the stack of frames keep their types: no sequence
   of keys and interrupts runs a frame that is not there. *)
THEOREM TypeCorrect == Spec => []TypeOK
<1>1. IInv => TypeOK
  BY DEF IInv
<1> QED  BY <1>1, Invariant, PTL

(* However ENTER nests apps in the interrupts of others, one app at a time is
   between its launch and its release of the keyboard. *)
THEOREM AppsTakeTurns == Spec => []OneApp
<1>1. IInv => OneApp
  BY DEF IInv
<1> QED  BY <1>1, Invariant, PTL

(* The text renderer is off exactly while art is on the screen. *)
THEOREM ScreenIsOwned == Spec => []ScreenOwner
<1>1. IInv => ScreenOwner
  BY DEF IInv
<1> QED  BY <1>1, Invariant, PTL

(* Nothing typed in an app reaches the shell's line. *)
THEOREM LineIsKept == Spec => []LineKept
<1>1. IInv => LineKept
  BY DEF IInv
<1> QED  BY <1>1, Invariant, PTL

LEMMA StepKeepsCancel ==
  ASSUME IInv, Next, cancel_requested, raw_mode, Running.at # "restart"
  PROVE  cancel_requested'
<1>1. Running.at \in InApp
  BY RunningFrame
<1>2. CASE \E key \in Keys : Press(key) \/ Release(key)
  BY <1>2 DEF Press, Release, Type, keyboard
<1>3. CASE TimerIRQ
  BY <1>3 DEF TimerIRQ, keyboard
<1>4. CASE KeyboardIRQ
  BY <1>4 DEF KeyboardIRQ, Cancel, Expose, Edit, Execute, Launch
<1>5. CASE Check \/ Poll \/ ClearSlot \/ Act \/ Hlt
  BY <1>5 DEF Check, Poll, ClearSlot, Act, Hlt, keyboard
<1>6. CASE ExitGraphics \/ ExitRawMode \/ WipeLine \/ Return
  BY <1>6 DEF ExitGraphics, ExitRawMode, WipeLine, Return, keyboard
<1>7. ~Restart /\ ~ClearCancel
  BY <1>1 DEF Restart, ClearCancel, InApp, AppLoops
<1> QED  BY <1>2, <1>3, <1>4, <1>5, <1>6, <1>7 DEF Next, CPU

(* A Ctrl+C struck in an app stays pending until the app has seen it, unless
   tetris clears it on the way to another round. *)
THEOREM CancelIsKept == Spec => CancelKept
<1>1. IInv /\ [Next]_vars =>
        [cancel_requested /\ raw_mode /\ Running.at # "restart" => cancel_requested']_vars
  BY StepKeepsCancel
<1> QED  BY <1>1, Invariant, PTL DEF Spec, CancelKept
(***************************************************************************)
(* Ctrl.  While no Ctrl key is down, whatever in fifo could leave          *)
(* ctrl_pressed set is followed by a release.                              *)
(***************************************************************************)
Released(i) == \E j \in i..Len(fifo) : fifo[j] = "CTRL_REL"

CtrlOrder ==
  held \cap Ctrls = {} =>
    /\ ctrl_pressed => Released(1)
    /\ \A i \in 1..Len(fifo) : fifo[i] = "CTRL" => Released(i + 1)

(* What a key sends, and what that does to a sequence that was in order. *)
LEMMA TypingKeepsCtrl ==
  ASSUME IInv, CtrlOrder, NEW key \in Keys, Press(key) \/ Release(key)
  PROVE  CtrlOrder'
<1> SUFFICES ASSUME held' \cap Ctrls = {} PROVE CtrlOrder'
    BY DEF CtrlOrder
<1>1. key \in {"lctrl", "rctrl", "c", "esc", "enter", "key"}
  BY ConsoleAssumption
<1>2. fifo \in Seq(Scancodes) /\ ctrl_pressed' = ctrl_pressed
  BY DEF IInv, TypeOK, Press, Release, Type, keyboard
<1>3. CASE Press(key)
  <2>1. key \notin Ctrls /\ held \cap Ctrls = {}
    BY <1>3 DEF Press, Ctrls
  <2>2. PICK sc \in Scancodes \ {"CTRL"} : fifo' = Append(fifo, sc)
    <3>1. \E sc \in {"C", "ESC", "ENTER", "KEY"} : Down[key] = <<sc>>
      BY <1>1, <2>1 DEF Down, Ctrls
    <3>2. PICK sc \in Scancodes \ {"CTRL"} : Down[key] = <<sc>>
      BY <3>1 DEF Scancodes, Presses
    <3>3. Append(fifo, sc) = fifo \o <<sc>>
      BY <1>2, AppendIsConcat
    <3>4. fifo' = fifo \o Down[key]
      BY <1>3 DEF Press, Type
    <3> QED  BY <3>2, <3>3, <3>4
  <2> QED  BY <1>2, <2>1, <2>2 DEF CtrlOrder, Released
<1>4. CASE Release(key)
  <2>1. fifo' = fifo \o Up[key] /\ held' = held \ {key}
    BY <1>4 DEF Release, Type
  <2>2. CASE key \in Ctrls
    <3>1. /\ Up[key] \in Seq(Scancodes) /\ Len(Up[key]) \in Nat \ {0}
          /\ Up[key][Len(Up[key])] = "CTRL_REL"
      BY <2>2 DEF Ctrls, Up, Scancodes, Presses
    <3>2. /\ Len(fifo') = Len(fifo) + Len(Up[key]) /\ Len(fifo) \in Nat
          /\ fifo'[Len(fifo) + Len(Up[key])] = Up[key][Len(Up[key])]
      BY <1>2, <2>1, <3>1, ConcatProperties
    <3>3. \A i \in 1..Len(fifo') : fifo'[i] = "CTRL" => i < Len(fifo')
      BY <3>1, <3>2
    <3> QED  BY <3>1, <3>2, <3>3 DEF CtrlOrder, Released
  <2>3. CASE key \notin Ctrls
    <3>1. Up[key] = <<"REL">> /\ held \cap Ctrls = {}
      BY <1>1, <2>1, <2>3 DEF Ctrls, Up
    <3>2. fifo' = Append(fifo, "REL")
      BY <1>2, <2>1, <3>1, AppendIsConcat DEF Scancodes
    <3> QED  BY <1>2, <3>1, <3>2 DEF CtrlOrder, Released
  <2> QED  BY <2>2, <2>3
<1> QED  BY <1>3, <1>4

(* The handler reads one scancode and tracks it in every mode. *)
LEMMA KeyboardKeepsCtrl ==
  ASSUME IInv, CtrlOrder, KeyboardIRQ
  PROVE  CtrlOrder'
<1> SUFFICES ASSUME held' \cap Ctrls = {} PROVE CtrlOrder'
    BY DEF CtrlOrder
<1>1. fifo \in Seq(Scancodes) /\ fifo # <<>> /\ fifo' = Tail(fifo) /\ held' = held
  BY DEF IInv, TypeOK, KeyboardIRQ
<1>2. /\ Len(fifo') = Len(fifo) - 1 /\ Len(fifo) \in Nat \ {0}
      /\ \A j \in 1..Len(fifo') : fifo'[j] = fifo[j + 1]
      /\ Head(fifo) = fifo[1]
  BY <1>1
<1>3. ctrl_pressed' = IF fifo[1] = "CTRL" THEN TRUE
                      ELSE IF fifo[1] = "CTRL_REL" THEN FALSE ELSE ctrl_pressed
  BY <1>2 DEF KeyboardIRQ, TracksCtrl
<1>4. ASSUME NEW i \in 1..Len(fifo), Released(i + 1)
      PROVE  Released(i)'
  <2>1. PICK j \in (i + 1)..Len(fifo) : fifo[j] = "CTRL_REL"
    BY <1>4 DEF Released
  <2>2. j - 1 \in i..Len(fifo') /\ fifo'[j - 1] = "CTRL_REL"
    BY <1>2, <2>1
  <2> QED  BY <2>2 DEF Released
<1>5. ctrl_pressed' => Released(1)'
  <2>1. CASE fifo[1] = "CTRL"
    BY <1>1, <1>2, <1>4, <2>1 DEF CtrlOrder
  <2>2. CASE fifo[1] # "CTRL" /\ fifo[1] # "CTRL_REL"
    <3>1. ctrl_pressed => Released(2)
      BY <1>1, <1>2, <2>2 DEF CtrlOrder, Released
    <3> QED  BY <1>2, <1>3, <1>4, <2>2, <3>1
  <2> QED  BY <1>3, <2>1, <2>2
<1>6. ASSUME NEW i \in 1..Len(fifo'), fifo'[i] = "CTRL"
      PROVE  Released(i + 1)'
  <2>1. i + 1 \in 1..Len(fifo) /\ fifo[i + 1] = "CTRL"
    BY <1>2, <1>6
  <2>2. Released((i + 1) + 1)
    BY <1>1, <2>1 DEF CtrlOrder
  <2> QED  BY <1>4, <2>1, <2>2
<1> QED  BY <1>5, <1>6 DEF CtrlOrder

LEMMA CtrlInductive == IInv /\ CtrlOrder /\ [Next]_vars => CtrlOrder'
<1> SUFFICES ASSUME IInv, CtrlOrder, [Next]_vars PROVE CtrlOrder'
    OBVIOUS
<1>1. CASE \E key \in Keys : Press(key) \/ Release(key)
  BY <1>1, TypingKeepsCtrl
<1>2. CASE KeyboardIRQ
  BY <1>2, KeyboardKeepsCtrl
<1>3. CASE UNCHANGED <<fifo, held, ctrl_pressed>>
  BY <1>3 DEF CtrlOrder, Released
<1>4. TimerIRQ \/ CPU \/ UNCHANGED vars => UNCHANGED <<fifo, held, ctrl_pressed>>
  BY DEF TimerIRQ, CPU, Check, Poll, ClearSlot, Act, Hlt, Restart, ExitGraphics, ExitRawMode,
         ClearCancel, WipeLine, Return, vars, input, keyboard
<1> QED  BY <1>1, <1>2, <1>3, <1>4 DEF Next

(* In whatever order and mode the keys are struck and read, ctrl_pressed does not
   outlive the Ctrl keys that are down once all scancodes are read. *)
THEOREM CtrlComesUp == Spec => []CtrlNotStuck
<1>1. Init => CtrlOrder
  <2> SUFFICES ASSUME Init PROVE CtrlOrder
      OBVIOUS
  <2>1. ~ctrl_pressed /\ Len(fifo) = 0
    BY DEF Init
  <2>2. 1..Len(fifo) = {}
    BY <2>1
  <2> QED  BY <2>1, <2>2 DEF CtrlOrder
<1>2. CtrlOrder => CtrlNotStuck
  <2>1. fifo = <<>> => ~Released(1)
    BY DEF Released
  <2> QED  BY <2>1 DEF CtrlOrder, CtrlNotStuck
<1> QED  BY <1>1, <1>2, CtrlInductive, Invariant, PTL DEF Spec
=============================================================================
