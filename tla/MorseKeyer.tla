----------------------------- MODULE MorseKeyer -----------------------------
(* The Morse trainer (frontend/src/secret_morse.ts): a key that is pressed   *)
(* and released, timers that end a letter, a drill, and a challenge of sixty *)
(* seconds.  The decoded message is left out, and so is the word's timer,    *)
(* which only adds a space to it.                                            *)
EXTENDS Integers, Sequences

CONSTANTS Codes,        \* the codes that can be asked for
          MaxSymbols,   \* bound on the symbols keyed for a letter
          MaxHits,      \* bound on the score
          MaxWrong,     \* bound on the wrong codes shown at a time
          Seconds       \* how long a challenge takes (60 in the code)

ASSUME MorseConstants == /\ Codes \subseteq Seq({".", "-"}) \ {<<>>} /\ Codes # {}
                         /\ {MaxSymbols, MaxHits, MaxWrong, Seconds} \subseteq Nat \ {0}

VARIABLES keying, training, challenge, hits, timeLeft, high, keyed, code,
          challengeTimer, \* the challenge's timer is set
          letter,       \* the timer that ends the letter is set
          wrong         \* timers that clear a wrong code after a while

morseVars == <<keying, training, challenge, hits, timeLeft, high, keyed, code,
               challengeTimer, letter, wrong>>

MorseInit ==
  /\ keying = FALSE /\ training = FALSE /\ challenge = FALSE /\ hits = 0
  /\ timeLeft = Seconds /\ high = 0 /\ keyed = <<>> /\ code \in Codes
  /\ challengeTimer = FALSE /\ letter = FALSE /\ wrong = 0

Press ==
  /\ ~keying /\ keying' = TRUE /\ letter' = FALSE
  /\ UNCHANGED <<training, challenge, hits, timeLeft, high, keyed, code, challengeTimer, wrong>>

\* end: a bounce of the key counts for nothing, and sets no timer.
Release(symbol) ==
  /\ keying /\ keying' = FALSE
  /\ IF symbol = "bounce" THEN UNCHANGED <<keyed, letter>>
     ELSE Len(keyed) < MaxSymbols /\ keyed' = Append(keyed, symbol) /\ letter' = TRUE
  /\ UNCHANGED <<training, challenge, hits, timeLeft, high, code, challengeTimer, wrong>>

\* commit, by the letter's timer or by Enter.
Commit ==
  /\ IF keyed = <<>> THEN UNCHANGED <<hits, keyed, code, wrong>>
     ELSE \/ /\ training /\ keyed = code
             /\ hits < MaxHits /\ hits' = hits + 1
             /\ keyed' = <<>> /\ code' \in Codes /\ UNCHANGED wrong
          \/ /\ training /\ keyed # code
             /\ wrong < MaxWrong /\ wrong' = wrong + 1 /\ UNCHANGED <<hits, keyed, code>>
          \/ ~training /\ keyed' = <<>> /\ UNCHANGED <<hits, code, wrong>>
  /\ UNCHANGED <<keying, training, challenge, timeLeft, high, challengeTimer>>

LetterEnds == letter /\ letter' = FALSE /\ Commit
Enter == keyed # <<>> /\ UNCHANGED letter /\ Commit

\* Whatever has been keyed since goes with the wrong code.
WrongCleared ==
  /\ wrong > 0 /\ wrong' = wrong - 1 /\ keyed' = <<>>
  /\ UNCHANGED <<keying, training, challenge, hits, timeLeft, high, code, challengeTimer, letter>>

Backspace ==
  /\ keyed # <<>> /\ keyed' = SubSeq(keyed, 1, Len(keyed) - 1)
  /\ UNCHANGED <<keying, training, challenge, hits, timeLeft, high, code, challengeTimer,
                 letter, wrong>>

StartChallenge ==
  /\ challenge' = TRUE /\ training' = TRUE /\ timeLeft' = Seconds /\ hits' = 0
  /\ code' \in Codes /\ challengeTimer' = TRUE
  /\ UNCHANGED <<keying, high, keyed, letter, wrong>>

\* The interval, and endChallenge with it.
ChallengeSecond ==
  /\ challengeTimer /\ timeLeft' = timeLeft - 1
  /\ IF timeLeft > 1 THEN UNCHANGED <<training, challenge, hits, high, keyed, challengeTimer>>
     ELSE /\ challenge' = FALSE /\ training' = FALSE /\ challengeTimer' = FALSE
          /\ high' = IF hits > high THEN hits ELSE high
          /\ hits' = 0 /\ keyed' = <<>>
  /\ UNCHANGED <<keying, code, letter, wrong>>

\* Mutant of ToggleDrill: a challenge is left on without its clock.
ToggleDrillOnly ==
  /\ training' = ~training /\ hits' = 0 /\ challengeTimer' = FALSE
  /\ IF training THEN UNCHANGED code ELSE code' \in Codes
  /\ UNCHANGED <<keying, challenge, timeLeft, high, keyed, letter, wrong>>

ToggleDrill ==
  /\ training' = ~training /\ challenge' = FALSE /\ hits' = 0 /\ challengeTimer' = FALSE
  /\ IF training THEN UNCHANGED code ELSE code' \in Codes
  /\ UNCHANGED <<keying, timeLeft, high, keyed, letter, wrong>>

MorseNext ==
  \/ Press \/ LetterEnds \/ Enter \/ WrongCleared \/ Backspace
  \/ StartChallenge \/ ChallengeSecond \/ ToggleDrill
  \/ \E s \in {".", "-", "bounce"} : Release(s)

\* What is graded is graded under a clock: a challenge never outlives its timer,
\* no signal counts without a drill, and a challenge that ends has its letter
\* and its score behind it (secret_morse.ts: "otherwise isChallenge stays stuck
\* true with its timer cleared, so the score keeps being graded invisibly").
ChallengeIsTimed ==
  /\ challenge => training /\ challengeTimer
  /\ challengeTimer => challenge /\ timeLeft \in 1..Seconds
  /\ hits > 0 => training
=============================================================================
