----------------------------- MODULE HomeBoard -----------------------------
(* The front page's board (frontend/src/secret_canvas.ts): an overlay whose *)
(* frames a WebAssembly game draws, with a counter of clicks on the way to  *)
(* the secret menu.  The board is one record; every operation is an         *)
(* operator from one record to the next, and Site makes actions of them.    *)
(* A mount of the page is a slot: its closure lives on after its teardown   *)
(* for as long as a load or a frame can still call it.                      *)
EXTENDS Naturals, FiniteSets

CONSTANTS Pointers, \* the pointers of the visitor's device
          NoPointer,
          Slots,    \* how many mounts may be alive at once (a bound)
          Clicks,   \* secret_counter at load: 10 in the code
          Warned    \* the counter below which clicks are given back: 6

ASSUME BoardConstants == /\ NoPointer \notin Pointers
                         /\ Slots \in Nat \ {0}
                         /\ Clicks \in Nat /\ Warned \in Nat \ {0}
                         /\ Warned <= Clicks

NoSlot == 0

Free == [running |-> FALSE, loading |-> FALSE, loaded |-> FALSE,
         disabled |-> FALSE, frames |-> 0]

\* Fields reset by a mount; the counter belongs to the module and is not.
\* `touching` are the pointers that are down, `missed` says that one was released
\* and the overlay, hidden by then, was not told: neither is the page's own.
NoHands == [stroke |-> NoPointer, alive |-> FALSE, hold |-> 0,
            scroll |-> NoPointer, photo |-> NoPointer, dragged |-> FALSE,
            touching |-> {}, missed |-> FALSE]

BoardInit == [slot |-> NoSlot, mounts |-> [s \in 1..Slots |-> Free],
              secret_counter |-> Clicks, timers |-> 0, hands |-> NoHands]

Current(b) == b.mounts[b.slot]
Shown(b) == b.slot # NoSlot

FreeSlots(b) == {s \in 1..Slots : s # b.slot /\ ~b.mounts[s].loading
                                  /\ b.mounts[s].frames = 0}

\* The page's default export: nothing while a board is up, else a new mount
\* that starts loading the game with the loop switched on.
Mount(b) ==
  IF Shown(b) THEN b
  ELSE LET s == CHOOSE x \in FreeSlots(b) : TRUE IN
       [b EXCEPT !.slot = s, !.hands = NoHands,
                 !.mounts[s] = [Free EXCEPT !.running = TRUE, !.loading = TRUE]]

\* cancelAnimationFrame(raf): the last frame asked for.
Cancelled(m) == [m EXCEPT !.frames = IF @ = 0 THEN 0 ELSE @ - 1]

\* Mutant of HideGame: clicks still to be given back are forgotten.
HideGameForgetting(b) ==
  IF ~Shown(b) THEN b
  ELSE [b EXCEPT !.mounts[b.slot] = Cancelled([@ EXCEPT !.running = FALSE]),
                 !.slot = NoSlot, !.hands = NoHands, !.timers = 0]

\* hideGame: the loop stops, and clicks still to be given back are given back.
HideGame(b) ==
  IF ~Shown(b) THEN b
  ELSE [b EXCEPT !.mounts[b.slot] = Cancelled([@ EXCEPT !.running = FALSE]),
                 !.slot = NoSlot, !.hands = NoHands,
                 !.secret_counter = @ + b.timers, !.timers = 0]

\* startLoop.
Started(m) == [m EXCEPT !.frames = @ + 1]

\* The game has loaded, or failed to: a loop that is switched on starts.
GameLoaded(b, s, ok) ==
  [b EXCEPT !.mounts[s] =
     IF ~ok THEN [@ EXCEPT !.loading = FALSE]
     ELSE LET m == [@ EXCEPT !.loading = FALSE, !.loaded = TRUE] IN
          IF m.running THEN Started(m) ELSE m]

\* A frame: drawn and asked for again while the loop is switched on.
Frame(b, s) ==
  [b EXCEPT !.mounts[s].frames = IF b.mounts[s].running THEN @ ELSE @ - 1]

\* Mutant of Power: disabling leaves the frame that was asked for.
PowerWithoutCancel(b) ==
  [b EXCEPT !.mounts[b.slot] =
     IF ~@.disabled THEN [@ EXCEPT !.disabled = TRUE, !.running = FALSE]
     ELSE LET m == [@ EXCEPT !.disabled = FALSE, !.running = TRUE] IN
          IF m.loaded THEN Started(m) ELSE m]

\* "disable" and "enable".
Power(b) ==
  [b EXCEPT !.mounts[b.slot] =
     IF ~@.disabled
     THEN Cancelled([@ EXCEPT !.disabled = TRUE, !.running = FALSE])
     ELSE LET m == [@ EXCEPT !.disabled = FALSE, !.running = TRUE] IN
          IF m.loaded THEN Started(m) ELSE m]

\* One click towards the menu; at none left it is Site that navigates.
Leads(b) == b.secret_counter < 1
CountSecretClick(b) ==
  IF b.secret_counter < Warned
  THEN [b EXCEPT !.timers = @ + 1, !.secret_counter = @ - 1]
  ELSE [b EXCEPT !.secret_counter = @ - 1]

\* Five seconds later a warned click is given back.
GiveBack(b) == [b EXCEPT !.timers = @ - 1, !.secret_counter = @ + 1]

\* The pointers the page keeps for a stroke, the scrollbar or the photo.
Down(b) == {b.hands.stroke, b.hands.scroll, b.hands.photo} \ {NoPointer}

\* A pointer goes down: on ground that shows the page, a left press may take
\* the scrollbar or the photo; anything else is a stroke.
PointerDown(b, p, left, what) ==
  LET h == [b.hands EXCEPT !.touching = @ \cup {p}] IN
  [b EXCEPT !.hands =
     CASE what = "scrollbar" -> [h EXCEPT !.scroll = p, !.dragged = TRUE]
       [] what = "photo" -> [h EXCEPT !.photo = p, !.dragged = TRUE]
       [] OTHER -> [h EXCEPT !.stroke = p, !.alive = left, !.dragged = FALSE,
                     !.hold = IF Current(b).loaded THEN IF left THEN 2 ELSE 1 ELSE @]]

\* Mutant of PointerMove: the movement of any pointer wears the ground.
PointerMoveOfAny(b, p, far) ==
  IF p \in {b.hands.scroll, b.hands.photo} /\ p # b.hands.stroke /\ ~far THEN b
  ELSE [b EXCEPT !.hands.dragged = @ \/ far,
                 !.hands.hold = IF Current(b).loaded
                                THEN IF b.hands.alive THEN 2 ELSE 1 ELSE @]

PointerMove(b, p, far) ==
  IF p \in {b.hands.scroll, b.hands.photo} \/ p # b.hands.stroke THEN b
  ELSE [b EXCEPT !.hands.dragged = @ \/ far,
                 !.hands.hold = IF Current(b).loaded
                                THEN IF b.hands.alive THEN 2 ELSE 1 ELSE @]

\* pointerup and pointercancel.
EndStroke(b, p) ==
  LET h == [b.hands EXCEPT !.touching = @ \ {p}] IN
  [b EXCEPT !.hands =
     IF h.scroll = p THEN [h EXCEPT !.scroll = NoPointer]
     ELSE IF h.photo = p THEN [h EXCEPT !.photo = NoPointer]
     ELSE IF h.stroke = p
          THEN [h EXCEPT !.stroke = NoPointer, !.alive = FALSE, !.hold = 0]
     ELSE h]

\* The same over an overlay that the power button has hidden, which may not be
\* told: what the pointer was kept for stays.
MissRelease(b, p) ==
  [b EXCEPT !.hands.touching = @ \ {p}, !.hands.missed = @ \/ p \in Down(b)]
=============================================================================
