---------------------------- MODULE MotionsGame ----------------------------
(* The motion trainer on the Vim page's panel (frontend/src/                *)
(* secret_motion.ts): a cursor is moved onto a target by Vim's motions over *)
(* a flat copy of the text.  The counts of keys shown are left out.         *)
EXTENDS Integers, Sequences, FiniteSetsExt

CONSTANTS Buffers,      \* the texts, each a sequence of lines of characters
          WordChars,    \* which characters belong to words
          MaxRounds     \* bound: the game is played no longer

ASSUME MotionConstants ==
  /\ MaxRounds \in Nat \ {0}
  /\ Buffers \in Seq(Seq(Seq(STRING))) /\ Buffers # <<>>
  /\ \A b \in DOMAIN Buffers : /\ Buffers[b] # <<>>
                               /\ \A l \in DOMAIN Buffers[b] : Buffers[b][l] # <<>>

VARIABLES cursor, target, round, pending

motionVars == <<cursor, target, round, pending>>

Blank == " "
Lines == Buffers[((round - 1) % Len(Buffers)) + 1]
TypeOf(c) == IF c = Blank THEN "blank" ELSE IF c \in WordChars THEN "word" ELSE "punct"

(* buildMaps: the text as one line; a line's end is a blank and no cell.      *)

\* Where a line begins in the flat text.
LineStart(l) ==
  LET start[k \in DOMAIN Lines] ==
        IF k = 1 THEN 1 ELSE start[k - 1] + Len(Lines[k - 1]) + 1
  IN start[l]
FlatOf(p) == LineStart(p.line) + p.col - 1
FlatLen == LineStart(Len(Lines)) + Len(Lines[Len(Lines)]) - 1
Places == UNION {[line : {l}, col : 1..Len(Lines[l])] : l \in DOMAIN Lines}
CharAt(p) == Lines[p.line][p.col]
PosOf(i) == CHOOSE p \in Places : FlatOf(p) = i
TypeAt(i) == IF \E p \in Places : FlatOf(p) = i THEN TypeOf(CharAt(PosOf(i))) ELSE "blank"

\* posFromFlat: back off the end of a line.
PosFromFlat(i) == PosOf(Max({j \in 1..i : \E p \in Places : FlatOf(p) = j}))

\* The first index from i on whose type is another, or the end.
Skip(i, t) == Min({j \in i..FlatLen + 1 : j = FlatLen + 1 \/ TypeAt(j) # t})
LastPlace(i) == Min({i, FlatLen})

\* Mutant of NextWord: blanks after the word are not skipped.
NextWordAtBlank(i) ==
  IF i >= FlatLen THEN FlatLen
  ELSE LastPlace(Skip(i, TypeAt(i)))

NextWord(i) ==
  IF i >= FlatLen THEN FlatLen
  ELSE LastPlace(Skip(IF TypeAt(i) = "blank" THEN i ELSE Skip(i, TypeAt(i)), "blank"))

\* Back over blanks, then to where the type of what is there begins.
PrevWord(i) ==
  IF i = 1 THEN 1
  ELSE LET j == Max({1} \cup {k \in 1..i - 1 : TypeAt(k) # "blank"}) IN
       Min({k \in 1..j : \A m \in k..j : TypeAt(m) = TypeAt(j)})

EndWord(i) ==
  LET j == Skip(i + 1, "blank") IN
  IF j > FlatLen THEN FlatLen ELSE LastPlace(Skip(j, TypeAt(j)) - 1)

(* Keys. *)

ClampCol(l, c) == Max({1, Min({c, Len(Lines[l])})})
Placed(l, c) == [line |-> l, col |-> ClampCol(l, c)]
First == [line |-> 1, col |-> 1]

Motion(p, k) ==
  CASE k = "h" -> Placed(p.line, p.col - 1)
    [] k = "l" -> Placed(p.line, p.col + 1)
    [] k = "j" -> Placed(Min({Len(Lines), p.line + 1}), p.col)
    [] k = "k" -> Placed(Max({1, p.line - 1}), p.col)
    [] k = "0" -> Placed(p.line, 1)
    [] k = "$" -> Placed(p.line, Len(Lines[p.line]))
    [] k = "w" -> PosFromFlat(NextWord(FlatOf(p)))
    [] k = "b" -> PosFromFlat(PrevWord(FlatOf(p)))
    [] k = "e" -> PosFromFlat(EndWord(FlatOf(p)))
    [] k = "G" -> [line |-> Len(Lines), col |-> 1]

\* newTarget: any cell that is neither blank nor under the cursor.
Targets(c) == {p \in Places : TypeOf(CharAt(p)) # "blank" /\ p # c}

\* move, onSolved and loadBuffer: a target that is reached ends the round.
Move(c) ==
  IF c # target THEN cursor' = c /\ UNCHANGED <<target, round>>
  ELSE /\ round < MaxRounds /\ round' = round + 1
       /\ cursor' = First /\ target' \in Targets(First)'

Find(c) ==
  LET line == Lines[cursor.line]
      hits == {k \in cursor.col + 1..Len(line) : line[k] = c} IN
  IF hits = {} THEN cursor ELSE [cursor EXCEPT !.col = Min(hits)]

\* The second key of f and g.  The listener takes Shift for a key of its own
\* and ends the motion, as it does for every key whose name is no character.
SecondKey(k) ==
  /\ pending # "none" /\ pending' = "none"
  /\ IF pending = "f" /\ k # "Shift" THEN Move(Find(k))
     ELSE IF pending = "g" /\ k = "g" THEN Move(First)
     ELSE UNCHANGED <<cursor, target, round>>

FirstKey(k) ==
  /\ pending = "none"
  /\ \/ k \in {"f", "g"} /\ pending' = k /\ UNCHANGED <<cursor, target, round>>
     \/ k \in {"h", "j", "k", "l", "w", "b", "e", "0", "$", "G"} /\ Move(Motion(cursor, k))
        /\ UNCHANGED pending

MotionInit == /\ round = 1 /\ cursor = First /\ target \in Targets(First)
              /\ pending = "none"

MotionKeys == {"h", "j", "k", "l", "w", "b", "e", "0", "$", "G", "g", "f", "Shift"}
MotionNext ==
  \E k \in MotionKeys \cup {CharAt(p) : p \in Places} : SecondKey(k) \/ FirstKey(k)

\* Wherever the cursor stands, w, b and e go where they do in Vim: to the next
\* beginning, the one before, the next end of a word or of a run of punctuation;
\* f goes to what it is asked for, further on in its line, or nowhere; and the
\* cursor is never left on its target or off the text.  Of the other motions
\* nothing is said here (secret_motion.ts, nextWord, prevWord, endWord).
WordMotionsAreVims ==
  LET i == FlatOf(cursor)
      begins == {j \in 1..FlatLen : TypeAt(j) # "blank"
                   /\ (j > 1 => TypeAt(j - 1) # TypeAt(j))}
      ends == {j \in 1..FlatLen : TypeAt(j) # "blank"
                 /\ (j < FlatLen => TypeAt(j + 1) # TypeAt(j))} IN
  /\ cursor \in Places /\ cursor # target
  /\ FlatOf(Motion(cursor, "w")) = Min({FlatLen} \cup {j \in begins : j > i})
  /\ FlatOf(Motion(cursor, "b")) = Max({1} \cup {j \in begins : j < i})
  /\ FlatOf(Motion(cursor, "e")) = Min({FlatLen} \cup {j \in ends : j > i})
  /\ \A c \in {CharAt(p) : p \in Places} : FlatOf(Find(c)) = i \/
       /\ CharAt(Find(c)) = c /\ Find(c).line = cursor.line /\ Find(c).col > cursor.col
=============================================================================
