------------------------------- MODULE Gamble -------------------------------
(***************************************************************************)
(* kernel/gamble/gamble.c: coins, cases and the inventory.                 *)
(*                                                                         *)
(* `at` is where gamble_run stands: at a test of the cancel flag, or in    *)
(* what follows one up to the next (a delay, a poll), so that Ctrl+C can   *)
(* come between any two of them.  `left` counts the rounds of the loop it  *)
(* stands in.  Delays end whenever: their length decides nothing here.     *)
(* The strip that scrolls past and all text are left out.                  *)
(***************************************************************************)
EXTENDS AppState, Integers, Sequences, FiniteSets, SequencesExt

CONSTANTS
  Skins,      \* <<rarity, number>>: the skins database
  Opened,     \* the cases the user opens, of 1..4
  Strip,      \* 54: the slots that scroll past
  INV_CAP,
  SeqWrap,     \* 2^16: the entries' sequence numbers wrap
  MaxCases,   \* bound: the cases a session opens
  MaxCoins    \* bound: the coins a user saves up

R_COUNT == 5
R_COMMON == 0

(* Prices, and per rarity the basis points of a drop. *)
price == <<100, 300, 750, 2000>>
drop_bp == << <<7600, 2000, 380, 18, 2>>, <<5300, 3000, 1450, 230, 20>>,
              <<3400, 3500, 2000, 950, 150>>, <<1400, 2500, 3000, 2300, 800>> >>

(* The notes of the fanfare of a rarity. *)
fanfare == <<0, 0, 2, 4, 6>>

ASSUME GambleAssumption ==
  /\ Skins \subseteq (0..(R_COUNT - 1)) \X Nat
  /\ \A rarity \in 0..(R_COUNT - 1) : \E skin \in Skins : skin[1] = rarity
  /\ Opened \subseteq 1..4
  /\ Strip \in Nat \ {0} /\ INV_CAP \in Nat \ {0}
  /\ SeqWrap \in Nat /\ SeqWrap > INV_CAP
  /\ MaxCases \in Nat /\ MaxCoins \in Nat

ASSUME SharesAssumption == \A case_id \in 1..4 : FoldSeq(+, 0, drop_bp[case_id]) = 10000

VARIABLES
  coins,
  inventory,        \* its inv_count entries [skin, seq], oldest first
  inv_seq_counter,
  at, left,
  winner,           \* of the case being opened
  sort_recent,      \* on the inventory screen
  owed              \* a case is paid for and its skin not in the inventory

opening == <<at, left, winner, sort_recent>>
gamble_vars == <<coins, inventory, inv_seq_counter, opening, owed>>

NoSkin == <<-1, 0>>
inv_count == Len(inventory)

(***************************************************************************)
(* Rolling                                                                 *)
(***************************************************************************)
roll_rarity(case_id, r) ==
  LET Under == {i \in 1..R_COUNT : r < FoldSeq(+, 0, SubSeq(drop_bp[case_id], 1, i))}
  IN  IF Under = {} THEN R_COMMON ELSE (CHOOSE i \in Under : \A j \in Under : i <= j) - 1

(* The rarities a roll can have: it changes only where a share ends. *)
Rolls ==
  [case_id \in Opened |->
     {roll_rarity(case_id, r) :
        r \in {0} \cup {FoldSeq(+, 0, SubSeq(drop_bp[case_id], 1, i)) : i \in 1..(R_COUNT - 1)}}]

(* build_pools has every skin in the pool of its rarity. *)
roll_skin(case_id) == {skin \in Skins : skin[1] \in Rolls[case_id]}

(***************************************************************************)
(* The inventory and its two orders                                        *)
(***************************************************************************)
inventory_add_uncapped(skin) ==
  /\ inventory' = Append(inventory, [skin |-> skin, seq |-> inv_seq_counter % SeqWrap])
  /\ inv_seq_counter' = inv_seq_counter + 1

inventory_add(skin) ==
  /\ inventory' = Append(IF inv_count >= INV_CAP THEN Tail(inventory) ELSE inventory,
                         [skin |-> skin, seq |-> inv_seq_counter % SeqWrap])
  /\ inv_seq_counter' = inv_seq_counter + 1

(* The insertion sort of gamble_inventory and show_inventory_screen: an entry
   goes before those already placed that it beats, from the back. *)
Newer(e, f) == f.seq < e.seq
Rarer_only(e, f) == f.skin[1] < e.skin[1]
Rarer(e, f) == f.skin[1] < e.skin[1] \/ (f.skin[1] = e.skin[1] /\ Newer(e, f))

Inserted(order, v, recent) ==
  LET stops == {j \in 1..Len(order) :
                  ~(IF recent THEN Newer(v, order[j]) ELSE Rarer(v, order[j]))}
      last == IF stops = {} THEN 0 ELSE CHOOSE j \in stops : \A k \in stops : k <= j
  IN  InsertAt(order, last + 1, v)

Sorted(recent) ==
  LET placed[n \in Nat] ==
        IF n = 0 THEN <<>> ELSE Inserted(placed[n - 1], inventory[n], recent)
  IN  placed[inv_count]

GambleInit ==
  /\ coins = 0 /\ inventory = <<>> /\ inv_seq_counter = 0
  /\ at = "off" /\ left = 0 /\ winner = NoSkin /\ sort_recent = FALSE
  /\ owed = FALSE

(***************************************************************************)
(* Control.  Tested is a test of the cancel flag; a Wait lasts until a     *)
(* delay ends or a key comes.                                              *)
(***************************************************************************)
Goto(place, rounds) == at' = place /\ left' = rounds
Holding == UNCHANGED <<coins, inventory, inv_seq_counter>>

gamble_run ==
  /\ Started("gamble")
  /\ Goto("menu", 0)
  /\ UNCHANGED <<speaker, coins, inventory, inv_seq_counter, winner, sort_recent, owed>>

(* The loop of gamble_run, whose wait_press tests the flag again. *)
MenuKey ==
  /\ at = "menu" /\ ~cancel_requested
  /\ Goto("menu_key", 0)
  /\ Holding /\ UNCHANGED <<shared, winner, sort_recent, owed>>

(* What a Ctrl+C took is gone: nothing is owed for it any more. *)
Exit ==
  /\ \/ at = "menu" /\ cancel_requested
     \/ at = "menu_key" \* Q or ESC
  /\ Ended
  /\ Goto("off", 0) /\ owed' = FALSE
  /\ Holding /\ UNCHANGED <<winner, sort_recent>>

(* Any other key, or none. *)
MenuAgain ==
  /\ at = "menu_key"
  /\ Goto("menu", 0)
  /\ Holding /\ UNCHANGED <<shared, winner, sort_recent, owed>>

(***************************************************************************)
(* try_open_case                                                           *)
(***************************************************************************)
TooPoor(case_id) ==
  /\ at = "menu_key" /\ coins < price[case_id]
  /\ speaker_play_freq("beep")
  /\ Goto("poor", 0)
  /\ Holding /\ UNCHANGED <<app, cancel_requested, winner, sort_recent, owed>>

PoorEnds ==
  /\ at = "poor"
  /\ speaker_stop
  /\ Goto("menu", 0)
  /\ Holding /\ UNCHANGED <<app, cancel_requested, winner, sort_recent, owed>>

Open(case_id) ==
  /\ at = "menu_key" /\ coins >= price[case_id]
  /\ inv_seq_counter < MaxCases
  /\ coins' = coins - price[case_id]
  /\ winner' \in roll_skin(case_id)
  /\ owed' = TRUE
  /\ Goto("strip", Strip)
  /\ UNCHANGED <<shared, inventory, inv_seq_counter, sort_recent>>

(* A loop that beeps: animate_case_open, the flashes of reveal_winner, and
   play_tune, whose notes are not parted by a speaker_stop. *)
Beeps(place, next) ==
  /\ at = place /\ left > 0 /\ ~cancel_requested
  /\ speaker_play_freq("beep")
  /\ Goto(next, left - 1)
  /\ Holding /\ UNCHANGED <<app, cancel_requested, winner, sort_recent, owed>>

BeepEnds(place, next) ==
  /\ at = place
  /\ speaker_stop
  /\ Goto(next, left)
  /\ Holding /\ UNCHANGED <<app, cancel_requested, winner, sort_recent, owed>>

LoopEnds(place, next, rounds) ==
  /\ at = place /\ (left = 0 \/ cancel_requested)
  /\ speaker_stop
  /\ Goto(next, rounds)
  /\ Holding /\ UNCHANGED <<app, cancel_requested, winner, sort_recent, owed>>

animate_case_open ==
  Beeps("strip", "slot") \/ BeepEnds("slot", "strip") \/ LoopEnds("strip", "opened", 0)

(* A flash returns at once when the flag is set, with no speaker_stop. *)
reveal_winner ==
  \/ Beeps("flash", "flashed") \/ BeepEnds("flashed", "flash")
  \/ /\ at = "flash" /\ (left = 0 \/ cancel_requested)
     /\ Goto(IF cancel_requested THEN "revealed" ELSE "tune",
             IF cancel_requested THEN 0 ELSE fanfare[winner[1] + 1])
     /\ Holding /\ UNCHANGED <<shared, winner, sort_recent, owed>>

play_tune_unstopped ==
  \/ Beeps("tune", "tune")
  \/ /\ at = "tune" /\ (left = 0 \/ cancel_requested)
     /\ Goto("revealed", 0)
     /\ Holding /\ UNCHANGED <<shared, winner, sort_recent, owed>>
play_tune == Beeps("tune", "tune") \/ LoopEnds("tune", "revealed", 0)

GiveUp_inverted ==
  /\ at \in {"opened", "revealed"} /\ ~cancel_requested
  /\ Goto("menu", 0) /\ winner' = NoSkin
  /\ Holding /\ UNCHANGED <<shared, sort_recent, owed>>

(* The two tests of try_open_case that give the case up ... *)
GiveUp ==
  /\ at \in {"opened", "revealed"} /\ cancel_requested
  /\ Goto("menu", 0) /\ winner' = NoSkin
  /\ Holding /\ UNCHANGED <<shared, sort_recent, owed>>

Landed ==
  /\ at = "opened" /\ ~cancel_requested
  /\ Goto("flash", 3)
  /\ Holding /\ UNCHANGED <<shared, winner, sort_recent, owed>>

(* ... and what it is all for. *)
Keep ==
  /\ at = "revealed" /\ ~cancel_requested
  /\ inventory_add(winner)
  /\ owed' = FALSE /\ winner' = NoSkin
  /\ Goto("any_key", 0)
  /\ UNCHANGED <<shared, coins, sort_recent>>

AnyKey ==
  /\ at = "any_key"
  /\ Goto("menu", 0)
  /\ Holding /\ UNCHANGED <<shared, winner, sort_recent, owed>>

(***************************************************************************)
(* show_inventory_screen                                                   *)
(***************************************************************************)
ShowInventory ==
  /\ at = "menu_key"
  /\ Goto("inventory", 0) /\ sort_recent' = FALSE
  /\ Holding /\ UNCHANGED <<shared, winner, owed>>

Toggle ==
  /\ at = "inventory" /\ ~cancel_requested
  /\ sort_recent' = ~sort_recent
  /\ Holding /\ UNCHANGED <<shared, at, left, winner, owed>>

Back ==
  /\ at = "inventory"
  /\ Goto("menu", 0) /\ sort_recent' = FALSE
  /\ Holding /\ UNCHANGED <<shared, winner, owed>>

GambleNext ==
  \/ gamble_run \/ MenuKey \/ Exit \/ MenuAgain
  \/ \E case_id \in Opened : TooPoor(case_id) \/ Open(case_id)
  \/ PoorEnds \/ animate_case_open \/ GiveUp \/ Landed \/ reveal_winner \/ play_tune
  \/ Keep \/ AnyKey \/ ShowInventory \/ Toggle \/ Back

(* tetris_run, after a round. *)
gamble_add_coins(amount) ==
  /\ coins + amount <= MaxCoins
  /\ coins' = coins + amount
  /\ UNCHANGED <<inventory, inv_seq_counter, opening, owed>>

(***************************************************************************)
(* Properties                                                              *)
(***************************************************************************)
Entries == [skin : Skins, seq : 0..(SeqWrap - 1)]
Waiting == {"menu", "menu_key", "any_key", "inventory"}
Opening == {"strip", "slot", "opened", "flash", "flashed", "tune", "revealed"}

GambleTypeOK ==
  /\ coins \in Nat
  /\ inventory \in Seq(Entries) /\ inv_count <= INV_CAP
  /\ inv_seq_counter \in Nat
  /\ at \in Waiting \cup Opening \cup {"off", "poor"} /\ left \in 0..(Strip + 6)
  /\ winner \in Skins \cup {NoSkin}
  /\ sort_recent \in BOOLEAN /\ owed \in BOOLEAN
  /\ at = "off" <=> app # "gamble"

(* A case that was paid for is in the inventory when the casino waits for a
   key again, unless a Ctrl+C came while it was being opened. *)
PaidIsGot == owed => at \in Opening \/ cancel_requested

Newest ==
  LET n == IF inv_seq_counter < INV_CAP THEN inv_seq_counter ELSE INV_CAP
  IN  (inv_seq_counter - n)..(inv_seq_counter - 1)

(* Both listings have the INV_CAP newest entries, each once: recent the newest
   first, rarity the rarest and among equals the newest first, as long as no
   sequence number in them has wrapped past another. *)
ListsInOrder ==
  LET unwrapped == \A i \in 1..(inv_count - 1) : inventory[i].seq < inventory[i + 1].seq
  IN  \A recent \in BOOLEAN :
        LET order == Sorted(recent)
        IN  /\ Len(order) = Cardinality(Newest)
            /\ {order[i].seq : i \in 1..Len(order)} = {n % SeqWrap : n \in Newest}
            /\ unwrapped =>
                 \A i, j \in 1..inv_count : i < j =>
                   IF recent \/ order[i].skin[1] = order[j].skin[1]
                   THEN order[i].seq > order[j].seq
                   ELSE order[i].skin[1] > order[j].skin[1]
=============================================================================
