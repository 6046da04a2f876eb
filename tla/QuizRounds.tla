----------------------------- MODULE QuizRounds -----------------------------
(* The two quizzes: countries (frontend/src/secret_countries.ts) and Vim     *)
(* commands on the Vim page's panel (secret_vimquiz.ts).  A question is its  *)
(* answer and the choices beside it; an answer stays for a while, then the   *)
(* next question comes, which a change of the settings brings at once.       *)
EXTENDS Integers, FiniteSets, FiniteSetsExt

CONSTANTS Countries,    \* what the API lists: name, flag, capital, gdp, cities
          Facts,        \* Vim's commands: cmd and desc
          Ticked,       \* the sets of types the visitor has ticked
          ChoiceCounts, \* what the number of choices is set to
          MaxAsked,     \* bound on the questions asked
          NoFact,       \* what the listing does not say of a country
          NoQuestion    \* nothing to choose from

AllTypes == {"shape", "flag", "capital", "gdp", "city-country", "city-population"}

\* Vim's commands are listed once each, and described differently.
ASSUME QuizConstants ==
  /\ Ticked \subseteq SUBSET AllTypes \ {{}} /\ ChoiceCounts \subseteq 2..6 /\ MaxAsked \in Nat
  /\ \A f, g \in Facts : f.cmd = g.cmd \/ f.desc = g.desc => f = g

VARIABLES quiz, question, answered, points, total, streak, bestStreak,
          linger,       \* the questions answered whose timer has still to run out
          choices, types, asked

quizVars == <<quiz, question, answered, points, total, streak, bestStreak,
              linger, choices, types, asked>>

\* sampleDistinct and shuffleChoices: n - 1 other entries of a pool, a set of
\* pairs of a subject and what is shown of it.  Only what looks like the answer
\* is filtered out: two entries that look alike may both be taken.
Questions(type, answer, pool, n) ==
  LET others == {e \in pool : e[2] # answer} IN
  {[type |-> type, answer |-> answer, others |-> some] :
     some \in kSubset(Min({n - 1, Cardinality(others)}), others)}

\* Mutant of AsSet: a GDP or a population stands in the pool once per subject.
AsListed(pool) == pool

\* Array.from(new Set(pool)).
AsSet(pool) == {<<e[2], e[2]>> : e \in pool}
Names == {<<c.name, c.name>> : c \in Countries}   \* unique in the table
Cities == UNION {c.cities : c \in Countries}

\* buildQuestion: every question of a type, or none when its pool is too small.
\* What is shown of the GDP and the population is rounded, and made a set.
BuildQuestion(type, n) ==
  LET flags == {c \in Countries : c.flag}
      capitals == {<<c.name, c.capital>> : c \in {d \in Countries : d.capital # NoFact}}
      gdps == {<<c.name, c.gdp>> : c \in {d \in Countries : d.gdp # NoFact}}
      sizes == {<<c.name, c.population>> : c \in {d \in Cities : d.population # NoFact}}
      ask(answers, pool, enough) ==
        IF enough THEN UNION {Questions(type, a, pool, n) : a \in answers} ELSE {} IN
  CASE type = "shape" -> ask({c.name : c \in Countries}, Names, TRUE)
    [] type = "flag" -> ask({c.name : c \in flags}, Names, Cardinality(flags) >= n)
    [] type = "capital" ->
         ask({e[2] : e \in capitals}, capitals, Cardinality(capitals) >= n)
    [] type = "gdp" -> ask({e[2] : e \in gdps}, AsSet(gdps), Cardinality(gdps) >= n)
    [] type = "city-country" ->
         ask({c.name : c \in {d \in Countries : d.cities # {}}}, Names, TRUE)
    [] type = "city-population" ->
         ask({e[2] : e \in sizes}, AsSet(sizes), Cardinality(sizes) >= n)

\* sampleFacts and the two directions of a question about Vim.
VimQuestions ==
  UNION {LET pool == {g \in Facts : g.cmd # f.cmd /\ g.desc # f.desc} IN
           Questions("cmd", f.cmd, {<<g.desc, g.cmd>> : g \in pool}, 4)
           \cup Questions("desc", f.desc, {<<g.cmd, g.desc>> : g \in pool}, 4) : f \in Facts}

Askable(n, ts) ==
  IF quiz = "vim" THEN VimQuestions ELSE UNION {BuildQuestion(t, n) : t \in ts}

\* Mutant of NextQuestion: the round before stays answered.
NextQuestionAnswered(n, ts) ==
  /\ asked < MaxAsked /\ asked' = asked + 1
  /\ question' \in Askable(n, ts) /\ UNCHANGED answered

\* nextQuestion: twenty tries at a type that has a question; none may come of
\* them when a ticked type has too small a pool.
NextQuestion(n, ts) ==
  /\ asked < MaxAsked /\ asked' = asked + 1
  /\ \/ question' \in Askable(n, ts) /\ answered' = FALSE
     \/ /\ quiz = "countries" /\ \E t \in ts : BuildQuestion(t, n) = {}
        /\ question' = NoQuestion /\ UNCHANGED answered

\* init: the listing arrives; the quiz of commands asks at once.
Loaded ==
  /\ asked = 0 /\ NextQuestion(choices, types)
  /\ UNCHANGED <<quiz, points, total, streak, bestStreak, linger, choices, types>>

Offered(q) == {q.answer} \cup {e[2] : e \in q.others}

\* A choice is clicked; the round is locked and its timer set.
Answer(choice) ==
  /\ question # NoQuestion /\ ~answered /\ answered' = TRUE
  /\ choice \in Offered(question)
  /\ total' = total + 1 /\ linger' = linger \cup {asked}
  /\ IF choice = question.answer
     THEN /\ points' = points + 1 /\ streak' = streak + 1
          /\ bestStreak' = Max({bestStreak, streak + 1})
     ELSE streak' = 0 /\ UNCHANGED <<points, bestStreak>>
  /\ UNCHANGED <<quiz, question, choices, types, asked>>

\* A timer runs out: the next question, whichever is up by then.
Lingered ==
  /\ \E t \in linger : linger' = linger \ {t}
  /\ NextQuestion(choices, types)
  /\ UNCHANGED <<quiz, points, total, streak, bestStreak, choices, types>>

\* The settings of the countries quiz; timers already set are not cleared.
ChangeSettings(n, ts) ==
  /\ quiz = "countries" /\ <<n, ts>> # <<choices, types>>
  /\ choices' = n /\ types' = ts
  /\ IF asked = 0 THEN UNCHANGED <<question, answered, asked>> ELSE NextQuestion(n, ts)
  /\ UNCHANGED <<quiz, points, total, streak, bestStreak, linger>>

QuizInit ==
  /\ quiz \in {"countries", "vim"} /\ question = NoQuestion /\ answered = FALSE
  /\ points = 0 /\ total = 0 /\ streak = 0 /\ bestStreak = 0 /\ linger = {} /\ asked = 0
  /\ choices \in ChoiceCounts /\ types \in Ticked

QuizNext ==
  \/ Loaded \/ Lingered
  \/ \E c \in IF question = NoQuestion THEN {} ELSE Offered(question) : Answer(c)
  \/ \E n \in ChoiceCounts, ts \in Ticked : ChangeSettings(n, ts)

\* The quiz goes on: a question that has been answered still has the timer that
\* its answer set, or it would never be replaced, whichever timers and settings
\* came between; and no question is counted twice (secret_countries.ts, nextQuestion).
QuizGoesOn ==
  /\ question # NoQuestion /\ answered => asked \in linger
  /\ total <= asked /\ points <= total /\ streak <= bestStreak

\* "A question has exactly one right answer among its distractors"
\* (secret_vimquiz.ts): no other choice reads like the answer, and no two of the
\* others read alike, except for capitals, whose pool is a list
\* (secret_countries.ts:153).
OneIsRight ==
  question # NoQuestion =>
    \A e \in question.others :
      /\ e[2] # question.answer
      /\ question.type # "capital" => \A d \in question.others : d[2] = e[2] => d = e
=============================================================================
