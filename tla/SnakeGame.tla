----------------------------- MODULE SnakeGame -----------------------------
(* The snake on the Vim page's panel (frontend/src/secret_snake.ts): a step *)
(* on a timer, keys between steps, a pause and a new game.  The button is   *)
(* clicked or pressed with Enter or Space through the page's key listener;  *)
(* that a focused button is also activated by the browser is left out.      *)
EXTENDS Integers, Sequences

CONSTANTS SnakeGrid,    \* cells per side (20 in the code)
          SnakeStart,   \* the first snake, head first, heading right
          MaxScore      \* bound: no more food is eaten than this

ASSUME SnakeConstants == /\ SnakeGrid \in Nat \ {0} /\ MaxScore \in Nat
                         /\ SnakeStart \in Seq((0..SnakeGrid - 1) \X (0..SnakeGrid - 1))
                         /\ Len(SnakeStart) > 1
                         /\ SnakeStart[1] = <<SnakeStart[2][1] + 1, SnakeStart[2][2]>>

VARIABLES snake, dir, nextDir, food, score, best,
          ticking,      \* the timer is set: running, and not paused or over
          label         \* what the button on the overlay says

snakeVars == <<snake, dir, nextDir, food, score, best, ticking, label>>

Spots == (0..SnakeGrid - 1) \X (0..SnakeGrid - 1)
Dirs == {<<0, -1>>, <<0, 1>>, <<-1, 0>>, <<1, 0>>}      \* k j h l
Cells(s) == {s[i] : i \in DOMAIN s}
Moved(p, d) == <<p[1] + d[1], p[2] + d[2]>>

\* placeFood: any cell the snake does not lie on.
PlaceFood(s) == food' \in Spots \ Cells(s)

SnakeInit ==
  /\ snake = <<SnakeStart[1]>> /\ food \in Spots \ Cells(snake)
  /\ dir = <<1, 0>> /\ nextDir = <<1, 0>>
  /\ score = 0 /\ best = 0 /\ ticking = FALSE /\ label = "Start"

\* Mutant of SetDir: compared with the key before, not with the last step.
SetDirOfKeys(d) ==
  /\ ticking /\ nextDir' = IF Moved(nextDir, d) = <<0, 0>> THEN nextDir ELSE d
  /\ UNCHANGED <<snake, dir, food, score, best, ticking, label>>

\* setDir: the way back into the neck is ignored; until the next step the last
\* key counts.
SetDir(d) ==
  /\ ticking /\ nextDir' = IF Moved(dir, d) = <<0, 0>> THEN nextDir ELSE d
  /\ UNCHANGED <<snake, dir, food, score, best, ticking, label>>

\* step and gameOver.  Walls and the snake itself, its tail included, end it.
Dies(head) == head \notin Spots \/ head \in Cells(snake)

SnakeStep ==
  /\ ticking /\ dir' = nextDir
  /\ LET head == Moved(snake[1], nextDir) IN
     \/ /\ Dies(head)
        /\ ticking' = FALSE /\ label' = "Play again"
        /\ best' = IF score > best THEN score ELSE best
        /\ UNCHANGED <<snake, food, score>>
     \/ /\ ~Dies(head) /\ head = food /\ score < MaxScore
        /\ snake' = <<head>> \o snake /\ score' = score + 1 /\ PlaceFood(snake')
        /\ UNCHANGED <<best, ticking, label>>
     \/ /\ ~Dies(head) /\ head # food
        /\ snake' = <<head>> \o SubSeq(snake, 1, Len(snake) - 1)
        /\ UNCHANGED <<food, score, best, ticking, label>>
  /\ UNCHANGED nextDir

Pause ==
  /\ ticking /\ ticking' = FALSE /\ label' = "Resume"
  /\ UNCHANGED <<snake, dir, nextDir, food, score, best>>

\* The button, clicked or by key: what it says decides what it does.
Resume ==
  /\ ~ticking /\ label = "Resume" /\ ticking' = TRUE
  /\ UNCHANGED <<snake, dir, nextDir, food, score, best, label>>

Start ==
  /\ ~ticking /\ label # "Resume" /\ ticking' = TRUE
  /\ snake' = SnakeStart /\ dir' = <<1, 0>> /\ nextDir' = <<1, 0>> /\ score' = 0
  /\ PlaceFood(SnakeStart) /\ UNCHANGED <<best, label>>

SnakeNext ==
  \/ \E d \in Dirs : SetDir(d)
  \/ SnakeStep \/ Pause \/ Resume \/ Start

\* However the keys fall between two steps, the next one is not into the neck,
\* and the food can be reached (secret_snake.ts: "Ignore a 180 degree reversal,
\* which would instantly collide with the neck"; "so food is always reachable").
SnakeIsFair ==
  ticking => /\ Moved(snake[1], nextDir) # snake[2]
             /\ food \in Spots \ Cells(snake)
=============================================================================
