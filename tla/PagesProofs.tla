----------------------------- MODULE PagesProofs -----------------------------
(***************************************************************************)
(* Theorems about the tool pages and the document of the site, for any     *)
(* boards, texts, codes, filters, calendars and bounds.  A behaviour is the *)
(* life of one page, so each page has an invariant of its own, and what    *)
(* the run `pages` checks follows from the one of the page that is up.     *)
(***************************************************************************)
EXTENDS MCPages, FiniteSetTheorems, TLAPS

-----------------------------------------------------------------------------
(* The snake.  Its second cell is where its last step came from.           *)

SnakeInv ==
  /\ dir \in Dirs /\ nextDir \in Dirs /\ Moved(dir, nextDir) # <<0, 0>>
  /\ snake \in Seq(Spots) /\ snake # <<>>
  /\ food \in Spots \ Cells(snake)
  /\ ticking \in BOOLEAN
  /\ ticking \/ label = "Resume" =>
       /\ Len(snake) > 1 /\ snake[1] = Moved(snake[2], dir)

LEMMA SnakeStarts == ASSUME SnakeInit PROVE SnakeInv
<1> USE SnakeConstants DEF Spots
<1>1. snake \in Seq(Spots) /\ snake # <<>>
  BY DEF SnakeInit
<1>2. <<1, 0>> \in Dirs /\ Moved(<<1, 0>>, <<1, 0>>) # <<0, 0>>
  BY DEF Dirs, Moved
<1> QED
  BY <1>1, <1>2 DEF SnakeInit, SnakeInv

LEMMA SnakeGoesOn == ASSUME SnakeInv, SnakeNext PROVE SnakeInv'
<1>1. ASSUME NEW d \in Dirs, SetDir(d) PROVE SnakeInv'
  BY <1>1 DEF SnakeInv, SetDir, Cells
<1>2. CASE SnakeStep
  <2> DEFINE head == Moved(snake[1], nextDir)
  <2>1. ticking /\ dir' = nextDir /\ nextDir' = nextDir
    BY <1>2 DEF SnakeStep
  <2>2. Len(snake) > 1 /\ snake[1] \in Spots
    BY <2>1 DEF SnakeInv
  <2>3. Moved(nextDir, nextDir) # <<0, 0>>
    BY DEF SnakeInv, Dirs, Moved
  <2>4. CASE Dies(head) /\ UNCHANGED <<snake, food, score>> /\ ticking' = FALSE /\ label' = "Play again"
    BY <2>1, <2>3, <2>4 DEF SnakeInv, Cells
  <2>5. CASE ~Dies(head) /\ snake' = <<head>> \o snake /\ PlaceFood(snake') /\ UNCHANGED <<ticking, label>>
    <3>1. head \in Spots
      BY <2>5 DEF Dies
    <3> HIDE DEF head
    <3>2. snake' \in Seq(Spots) /\ Len(snake') > 1 /\ snake'[1] = head /\ snake'[2] = snake[1]
      BY <2>2, <2>5, <3>1 DEF SnakeInv
    <3>3. head = Moved(snake[1], nextDir)
      BY DEF head
    <3> QED
      BY <2>1, <2>3, <2>5, <3>2, <3>3 DEF SnakeInv, PlaceFood
  <2>6. CASE ~Dies(head) /\ head # food /\ snake' = <<head>> \o SubSeq(snake, 1, Len(snake) - 1)
             /\ UNCHANGED <<food, score, best, ticking, label>>
    <3>1. head \in Spots
      BY <2>6 DEF Dies
    <3>2. head = Moved(snake[1], nextDir) /\ head # food
      BY <2>6
    <3> HIDE DEF head
    <3>3. snake' \in Seq(Spots) /\ Len(snake') = Len(snake) /\ snake'[1] = head /\ snake'[2] = snake[1]
      BY <2>2, <2>6, <3>1 DEF SnakeInv
    <3>4. \A i \in DOMAIN snake' : i # 1 => i - 1 \in DOMAIN snake /\ snake'[i] = snake[i - 1]
      BY <2>2, <2>6, <3>1 DEF SnakeInv
    <3>5. food \notin Cells(snake')
      BY <3>2, <3>3, <3>4 DEF SnakeInv, Cells
    <3> QED
      BY <2>1, <2>2, <2>3, <2>6, <3>2, <3>3, <3>5 DEF SnakeInv
  <2> QED
    BY <1>2, <2>4, <2>5, <2>6 DEF SnakeStep
<1>3. CASE Pause
  BY <1>3 DEF Pause, SnakeInv, Cells
<1>4. CASE Resume
  BY <1>4 DEF Resume, SnakeInv, Cells
<1>5. CASE Start
  <2>1. snake' = SnakeStart /\ dir' = <<1, 0>> /\ nextDir' = <<1, 0>> /\ ticking' = TRUE
        /\ food' \in Spots \ Cells(snake')
    BY <1>5 DEF Start, PlaceFood
  <2>2. <<1, 0>> \in Dirs /\ Moved(<<1, 0>>, <<1, 0>>) # <<0, 0>>
    BY DEF Dirs, Moved
  <2>3. SnakeStart \in Seq(Spots) /\ Len(SnakeStart) > 1 /\ SnakeStart[1] = Moved(SnakeStart[2], <<1, 0>>)
    <3>1. SnakeStart[2] \in Spots
      BY SnakeConstants DEF Spots
    <3> QED
      BY <3>1, SnakeConstants DEF Spots, Moved
  <2> QED
    BY <2>1, <2>2, <2>3 DEF SnakeInv
<1> QED
  BY <1>1, <1>2, <1>3, <1>4, <1>5 DEF SnakeNext

LEMMA SnakeFair == ASSUME SnakeInv PROVE SnakeIsFair
<1>1. ASSUME ticking PROVE Moved(snake[1], nextDir) # snake[2]
  <2>1. snake[1] = Moved(snake[2], dir) /\ snake[2] \in Spots
    BY <1>1 DEF SnakeInv
  <2>2. PICK x \in Int, y \in Int : snake[2] = <<x, y>>
    BY <2>1 DEF Spots
  <2>3. PICK a \in Int, b \in Int : dir = <<a, b>>
    BY DEF SnakeInv, Dirs
  <2>4. PICK c \in Int, d \in Int : nextDir = <<c, d>>
    BY DEF SnakeInv, Dirs
  <2>5. ~(a + c = 0 /\ b + d = 0)
    BY <2>3, <2>4 DEF SnakeInv, Moved
  <2>6. Moved(snake[1], nextDir) = <<x + a + c, y + b + d>>
    BY <2>1, <2>2, <2>3, <2>4 DEF Moved
  <2> QED
    BY <2>2, <2>5, <2>6
<1> QED
  BY <1>1 DEF SnakeInv, SnakeIsFair
-----------------------------------------------------------------------------
(* The quizzes.  A question that waits for its answer has been asked and not *)
(* yet counted; one that is answered has its own timer.                      *)

QuizInv ==
  /\ points \in Nat /\ total \in Nat /\ streak \in Nat /\ bestStreak \in Nat
  /\ asked \in Nat /\ answered \in BOOLEAN /\ types \in SUBSET AllTypes /\ OneIsRight
  /\ question # NoQuestion /\ answered => asked \in linger
  /\ total <= asked /\ (question # NoQuestion /\ ~answered => total < asked)
  /\ points <= total /\ streak <= bestStreak

LEMMA MaxOfTwo ==
  ASSUME NEW a \in Int, NEW b \in Int
  PROVE  Max({a, b}) \in {a, b} /\ Max({a, b}) >= a /\ Max({a, b}) >= b
<1>1. \E x \in {a, b} : \A y \in {a, b} : x >= y
  OBVIOUS
<1> QED
  BY <1>1 DEF Max

LEMMA QuizStarts == ASSUME QuizInit PROVE QuizInv
<1>1. /\ question = NoQuestion /\ answered \in BOOLEAN /\ points = 0 /\ total = 0 /\ streak = 0
      /\ bestStreak = 0 /\ asked = 0 /\ types \in SUBSET AllTypes
  BY QuizConstants DEF QuizInit
<1> QED
  BY <1>1 DEF QuizInv, OneIsRight

\* What is right in a question: the part of OneIsRight that a pool decides.
Unambiguous(q) ==
  \A e \in q.others :
    /\ e[2] # q.answer
    /\ q.type # "capital" => \A d \in q.others : d[2] = e[2] => d = e

\* Of a pool in which nothing reads alike, or of capitals, come such questions.
LEMMA QuestionsAreUnambiguous ==
  ASSUME NEW type, NEW answer, NEW pool, NEW n, NEW q \in Questions(type, answer, pool, n),
         type # "capital" => \A d, e \in pool : d[2] = e[2] => d = e
  PROVE  Unambiguous(q)
<1>1. PICK some \in SUBSET {e \in pool : e[2] # answer} :
        q = [type |-> type, answer |-> answer, others |-> some]
  BY DEF Questions, kSubset
<1>2. q.type = type /\ q.answer = answer /\ q.others = some
  BY <1>1
<1> QED
  BY <1>1, <1>2 DEF Unambiguous

LEMMA SetsReadDifferently ==
  ASSUME NEW pool, NEW d \in AsSet(pool), NEW e \in AsSet(pool), d[2] = e[2]
  PROVE  d = e
BY DEF AsSet

LEMMA NamesReadDifferently ==
  ASSUME NEW d \in Names, NEW e \in Names, d[2] = e[2]
  PROVE  d = e
BY DEF Names

LEMMA BuiltAreUnambiguous ==
  ASSUME NEW type \in AllTypes, NEW n, NEW q \in BuildQuestion(type, n)
  PROVE  Unambiguous(q)
<1>1. CASE type \in {"shape", "flag", "city-country"}
  <2>1. \E a : q \in Questions(type, a, Names, n)
    BY <1>1 DEF BuildQuestion
  <2> QED
    BY <2>1, QuestionsAreUnambiguous, NamesReadDifferently
<1>2. CASE type = "capital"
  <2>1. \E a, pool : q \in Questions(type, a, pool, n)
    BY <1>2 DEF BuildQuestion
  <2> QED
    BY <1>2, <2>1, QuestionsAreUnambiguous
<1>3. CASE type \in {"gdp", "city-population"}
  <2>1. \E a, pool : q \in Questions(type, a, AsSet(pool), n)
    BY <1>3 DEF BuildQuestion
  <2> QED
    BY <2>1, QuestionsAreUnambiguous, SetsReadDifferently
<1> QED
  BY <1>1, <1>2, <1>3 DEF AllTypes

LEMMA VimsAreUnambiguous ==
  ASSUME NEW q \in VimQuestions PROVE Unambiguous(q)
<1>1. PICK f \in Facts :
        LET pool == {g \in Facts : g.cmd # f.cmd /\ g.desc # f.desc} IN
        \/ q \in Questions("cmd", f.cmd, {<<g.desc, g.cmd>> : g \in pool}, 4)
        \/ q \in Questions("desc", f.desc, {<<g.cmd, g.desc>> : g \in pool}, 4)
  BY DEF VimQuestions
<1> DEFINE pool == {g \in Facts : g.cmd # f.cmd /\ g.desc # f.desc}
           byCmd == {<<g.desc, g.cmd>> : g \in pool}
           byDesc == {<<g.cmd, g.desc>> : g \in pool}
<1>2. \A d, e \in byCmd : d[2] = e[2] => d = e
  BY QuizConstants
<1>3. \A d, e \in byDesc : d[2] = e[2] => d = e
  BY QuizConstants
<1>4. q \in Questions("cmd", f.cmd, byCmd, 4) \/ q \in Questions("desc", f.desc, byDesc, 4)
  BY <1>1
<1> HIDE DEF byCmd, byDesc
<1> QED
  BY <1>2, <1>3, <1>4, QuestionsAreUnambiguous

\* Whatever comes of the tries, a question that is asked is a new one.
LEMMA QuizAsks ==
  ASSUME QuizInv, NEW n, NEW ts \in SUBSET AllTypes, NextQuestion(n, ts),
         types' \in SUBSET AllTypes, UNCHANGED <<points, total, streak, bestStreak>>
  PROVE  QuizInv'
<1>1. asked' = asked + 1 /\ (question' # NoQuestion => answered' = FALSE) /\ answered' \in BOOLEAN
  BY DEF NextQuestion, QuizInv
<1>2. question' # NoQuestion => question' \in Askable(n, ts)
  BY DEF NextQuestion
<1>3. question' # NoQuestion => Unambiguous(question')
  <2>1. ASSUME question' \in VimQuestions PROVE Unambiguous(question')
    BY <2>1, VimsAreUnambiguous
  <2>2. ASSUME NEW t \in ts, question' \in BuildQuestion(t, n) PROVE Unambiguous(question')
    BY <2>2, BuiltAreUnambiguous
  <2> QED
    BY <1>2, <2>1, <2>2 DEF Askable
<1>4. OneIsRight'
  BY <1>3 DEF OneIsRight, Unambiguous
<1> QED
  BY <1>1, <1>4 DEF QuizInv

LEMMA QuizMoves == ASSUME QuizInv, QuizNext PROVE QuizInv'
<1>1. CASE Loaded
  BY <1>1, QuizAsks DEF Loaded, QuizInv
<1>2. CASE Lingered
  BY <1>2, QuizAsks DEF Lingered, QuizInv
<1>3. ASSUME NEW c, Answer(c) PROVE QuizInv'
  <2>1. Max({bestStreak, streak + 1}) \in Nat /\ Max({bestStreak, streak + 1}) >= streak + 1
    BY MaxOfTwo DEF QuizInv
  <2>2. OneIsRight'
    BY <1>3 DEF Answer, QuizInv, OneIsRight
  <2> QED
    BY <1>3, <2>1, <2>2 DEF Answer, QuizInv
<1>4. ASSUME NEW n, NEW ts \in Ticked, ChangeSettings(n, ts) PROVE QuizInv'
  <2>0. ts \in SUBSET AllTypes /\ types' = ts
    BY <1>4, QuizConstants DEF ChangeSettings
  <2>1. CASE asked = 0
    <3>1. OneIsRight'
      BY <1>4, <2>1 DEF ChangeSettings, QuizInv, OneIsRight
    <3> QED
      BY <1>4, <2>0, <2>1, <3>1 DEF ChangeSettings, QuizInv
  <2>2. CASE asked # 0
    BY <1>4, <2>0, <2>2, QuizAsks DEF ChangeSettings
  <2> QED
    BY <2>1, <2>2
<1> QED
  BY <1>1, <1>2, <1>3, <1>4 DEF QuizNext

LEMMA QuizFair == ASSUME QuizInv PROVE QuizGoesOn /\ OneIsRight
BY DEF QuizInv, QuizGoesOn

-----------------------------------------------------------------------------
(* Morse.                                                                    *)

MorseInv ==
  /\ keying \in BOOLEAN /\ training \in BOOLEAN /\ challenge \in BOOLEAN
  /\ challengeTimer \in BOOLEAN /\ letter \in BOOLEAN
  /\ hits \in Nat /\ timeLeft \in Int /\ ChallengeIsTimed

LEMMA MorseStarts == ASSUME MorseInit PROVE MorseInv
<1>1. /\ keying \in BOOLEAN /\ training \in BOOLEAN /\ challenge \in BOOLEAN
      /\ challengeTimer \in BOOLEAN /\ letter \in BOOLEAN
      /\ ~challenge /\ ~challengeTimer /\ hits = 0 /\ timeLeft = Seconds
  BY DEF MorseInit
<1>2. Seconds \in Nat
  BY MorseConstants
<1> QED
  BY <1>1, <1>2 DEF MorseInv, ChallengeIsTimed

LEMMA MorseGoesOn == ASSUME MorseInv, MorseNext PROVE MorseInv'
<1> USE DEF MorseInv, ChallengeIsTimed
<1>1. ASSUME NEW symbol, Release(symbol) PROVE MorseInv'
  BY <1>1 DEF Release
<1>2. CASE Press
  BY <1>2 DEF Press
<1>3. ASSUME Commit, letter' \in BOOLEAN PROVE MorseInv'
  BY <1>3 DEF Commit
<1>4. CASE WrongCleared \/ Backspace
  BY <1>4 DEF WrongCleared, Backspace
<1>5. CASE StartChallenge
  BY <1>5, MorseConstants DEF StartChallenge
<1>6. CASE ChallengeSecond
  <2>1. challengeTimer /\ timeLeft' = timeLeft - 1 /\ UNCHANGED <<keying, letter>>
    BY <1>6 DEF ChallengeSecond
  <2>2. CASE timeLeft > 1
    <3>1. UNCHANGED <<training, challenge, hits, challengeTimer>>
      BY <1>6, <2>2 DEF ChallengeSecond
    <3>2. timeLeft' \in Int /\ timeLeft' \in 1..Seconds
      BY <2>1, <2>2, MorseConstants
    <3> QED
      BY <2>1, <3>1, <3>2, Zenon
  <2>3. CASE ~(timeLeft > 1)
    <3>1. /\ challenge' \in BOOLEAN /\ training' \in BOOLEAN /\ challengeTimer' \in BOOLEAN
          /\ ~challenge' /\ ~challengeTimer' /\ hits' = 0
      BY <1>6, <2>3 DEF ChallengeSecond
    <3> QED
      BY <2>1, <3>1
  <2> QED
    BY <2>2, <2>3
<1>7. CASE ToggleDrill
  <2>1. /\ training' \in BOOLEAN /\ challenge' \in BOOLEAN /\ challengeTimer' \in BOOLEAN
        /\ ~challenge' /\ ~challengeTimer' /\ hits' = 0 /\ UNCHANGED <<keying, timeLeft, letter>>
    BY <1>7 DEF ToggleDrill
  <2> QED
    BY <2>1
<1> QED
  BY <1>1, <1>2, <1>3, <1>4, <1>5, <1>6, <1>7 DEF MorseNext, LetterEnds, Enter

-----------------------------------------------------------------------------
(* Codes.  Of the runs under way at most one is the latest, which is of what *)
(* was asked last; while it goes on, neither button can be pressed.          *)

CodeInv ==
  /\ kind \in Kinds /\ text \in Texts \cup {NoText} /\ look \in Looks
  /\ requestId \in Nat /\ runs \subseteq [id : 1..requestId, kind : Kinds, text : Texts]
  /\ \A r \in runs : r.id = requestId => codeAsked = [kind |-> r.kind, text |-> r.text]
  /\ \A r, s \in runs : r.id = s.id => r = s
  /\ generate \in BOOLEAN /\ downloads \in BOOLEAN
  /\ generate <=> \A r \in runs : r.id # requestId
  /\ downloads => /\ generate
                  /\ codeShown \in [kind : Kinds, text : Texts, look : Looks]
                  /\ codeShown.kind = codeAsked.kind /\ codeShown.text = codeAsked.text

LEMMA CodeStarts == ASSUME BarcodeInit PROVE CodeInv
BY DEF BarcodeInit, CodeInv, Kinds

LEMMA CodeGoesOn == ASSUME CodeInv, BarcodeNext PROVE CodeInv'
<1>1. CASE Control
  BY <1>1 DEF Control, Type, ChooseKind, ChooseLook, CodeInv
<1>2. ASSUME NEW byKey, Run(byKey) PROVE CodeInv'
  <2>1. CASE text = NoText
    BY <1>2, <2>1 DEF Run, CodeInv
  <2>2. CASE text # NoText
    <3> DEFINE new == [id |-> requestId + 1, kind |-> kind, text |-> text]
    <3>1. /\ requestId' = requestId + 1 /\ runs' = runs \cup {new}
          /\ codeAsked' = [kind |-> kind, text |-> text]
          /\ generate' = FALSE /\ downloads' = FALSE
          /\ UNCHANGED <<kind, text, look, codeShown>>
      BY <1>2, <2>2 DEF Run
    <3>2. requestId' \in Nat /\ 1..requestId \subseteq 1..requestId' /\ requestId' \in 1..requestId'
          /\ requestId' \notin 1..requestId
      BY <3>1 DEF CodeInv
    <3>3. new \in [id : 1..requestId', kind : Kinds, text : Texts] /\ new.id = requestId'
      BY <2>2, <3>1, <3>2 DEF CodeInv
    <3>4. \A r \in runs : r \in [id : 1..requestId', kind : Kinds, text : Texts] /\ r.id # requestId'
      BY <3>2 DEF CodeInv
    <3>5. new.kind = kind /\ new.text = text
      OBVIOUS
    <3> HIDE DEF new
    <3>6. \A r \in runs' : r.id = requestId' => r = new
      BY <3>1, <3>4
    <3>7. \A r, s \in runs' : r.id = s.id => r = s
      BY <3>1, <3>3, <3>4, <3>6 DEF CodeInv
    <3> QED
      BY <3>1, <3>2, <3>3, <3>4, <3>5, <3>6, <3>7 DEF CodeInv
  <2> QED
    BY <2>1, <2>2
<1>3. ASSUME NEW k, NEW end, Imported(k, end) PROVE CodeInv'
  BY <1>3 DEF Imported, CodeInv
<1>4. ASSUME NEW r \in runs, RunEnds(r) PROVE CodeInv'
  <2>1. /\ runs' = runs \ {r} /\ UNCHANGED <<kind, text, look, requestId, codeAsked>>
    BY <1>4 DEF RunEnds
  <2>2. CASE r.id # requestId
    <3>1. UNCHANGED <<codeShown, downloads, generate>>
      BY <1>4, <2>2 DEF RunEnds
    <3>2. (\A s \in runs' : s.id # requestId) <=> (\A s \in runs : s.id # requestId)
      BY <2>1, <2>2
    <3> QED
      BY <2>1, <3>1, <3>2 DEF CodeInv
  <2>3. CASE r.id = requestId
    <3>1. generate' = TRUE /\ downloads = FALSE
      BY <1>4, <2>3 DEF RunEnds, CodeInv
    <3>2. \A s \in runs' : s.id # requestId
      BY <2>1, <2>3 DEF CodeInv
    <3>3. CASE Drawn(r)
      <4>1. codeShown' = [kind |-> r.kind, text |-> r.text, look |-> look] /\ downloads' = TRUE
        BY <1>4, <2>3, <3>3 DEF RunEnds
      <4>2. r.kind \in Kinds /\ r.text \in Texts /\ codeAsked = [kind |-> r.kind, text |-> r.text]
        BY <2>3 DEF CodeInv
      <4> QED
        BY <2>1, <3>1, <3>2, <4>1, <4>2 DEF CodeInv
    <3>4. CASE ~Drawn(r)
      <4>1. UNCHANGED downloads
        BY <1>4, <2>3, <3>4 DEF RunEnds
      <4> QED
        BY <2>1, <3>1, <3>2, <4>1 DEF CodeInv
    <3> QED
      BY <3>3, <3>4
  <2> QED
    BY <2>2, <2>3
<1> QED
  BY <1>1, <1>2, <1>3, <1>4 DEF BarcodeNext

LEMMA CodeLatest == ASSUME CodeInv PROVE LatestCodeIsShown
BY BarcodeConstants DEF CodeInv, LatestCodeIsShown, Kinds

-----------------------------------------------------------------------------
(* Visits.  The last request is of the filter that is set, and the button    *)
(* that turns the table on is enabled only where there is something to turn  *)
(* to, which Found says of the filter and not of what is shown.              *)

Filters == [route : Routes \cup {AnyRoute}, kind : VisitKinds \cup {AnyRoute}, offset : Nat]
Requests == [id : 1..loadId, asks : Filters, body : BOOLEAN]

LoadsInv ==
  /\ route \in Routes \cup {AnyRoute} /\ visitKind \in VisitKinds \cup {AnyRoute}
  /\ offset \in Nat /\ loadId \in Nat
  /\ loads \subseteq Requests /\ \A l \in loads : l.id = loadId => l.asks = Filter
  /\ (\A l \in loads : l.id # loadId) => rows = Filter \/ failed.of = loadId \/ failed.body

ChartsInv ==
  /\ LoadsInv /\ offset = 0 /\ ~failed.body
  /\ logScales \in [Scaled -> BOOLEAN] /\ DOMAIN charts \subseteq Scaled
  /\ charts = [k \in DOMAIN charts |-> logScales[k]]

TableInv ==
  /\ LoadsInv /\ DOMAIN charts = {}
  /\ next => offset + PageSize < Found(Filter)
  /\ OffsetIsInTheTable

\* What is asked for now is of the filter, and pending.
LEMMA LoadAsks ==
  ASSUME LoadsInv, Load, route' \in Routes \cup {AnyRoute},
         visitKind' \in VisitKinds \cup {AnyRoute}, offset' \in Nat
  PROVE  LoadsInv'
<1> DEFINE new == [id |-> loadId + 1, asks |-> Filter', body |-> FALSE]
<1>1. loadId' = loadId + 1 /\ loads' = loads \cup {new}
  BY DEF Load
<1>2. loadId' \in Nat /\ 1..loadId \subseteq 1..loadId' /\ loadId' \in 1..loadId' /\ loadId' \notin 1..loadId
  BY <1>1 DEF LoadsInv
<1>3. Filter' \in Filters
  BY DEF Filter, Filters
<1>4. new \in Requests'
      /\ new.id = loadId' /\ new.asks = Filter'
  BY <1>1, <1>2, <1>3 DEF Requests
<1>5. \A l \in loads : l \in Requests'
                       /\ l.id # loadId'
  BY <1>2 DEF LoadsInv, Requests
<1> HIDE DEF new
<1>6. \A l \in loads' : /\ l \in Requests'
                        /\ l.id = loadId' => l.asks = Filter'
  BY <1>1, <1>4, <1>5
<1>7. ~\A l \in loads' : l.id # loadId'
  BY <1>1, <1>4
<1> QED
  BY <1>2, <1>6, <1>7 DEF LoadsInv

\* An answer is taken off, and is the last one's or changes nothing.
LEMMA LoadEnds ==
  ASSUME LoadsInv, NEW l \in loads, loads' = loads \ {l},
         UNCHANGED <<route, visitKind, offset, loadId>>,
         \/ l.id # loadId /\ UNCHANGED <<rows, failed>>
         \/ failed'.of = loadId \/ failed'.body
         \/ rows' = l.asks /\ l.id = loadId
  PROVE  LoadsInv'
<1>1. Filter' = Filter
  BY DEF Filter
<1>2. \A m \in loads' : m \in loads
  OBVIOUS
<1>3. ASSUME \A m \in loads' : m.id # loadId' 
      PROVE  rows' = Filter' \/ failed'.of = loadId' \/ failed'.body
  <2>1. CASE l.id # loadId /\ UNCHANGED <<rows, failed>>
    <3>1. \A m \in loads : m.id # loadId
      BY <1>3, <2>1
    <3> QED
      BY <1>1, <2>1, <3>1 DEF LoadsInv
  <2>2. CASE rows' = l.asks /\ l.id = loadId
    BY <1>1, <2>2 DEF LoadsInv
  <2> QED
    BY <2>1, <2>2
<1> QED
  BY <1>1, <1>2, <1>3 DEF LoadsInv, Requests

LEMMA FoundType == ASSUME LoadsInv PROVE Filter \in Filters /\ Found(Filter) \in Nat
<1>1. Filter \in Filters
  BY DEF Filter, Filters, LoadsInv
<1>2. Filter.route \in Routes \cup {AnyRoute} /\ Filter.kind \in VisitKinds \cup {AnyRoute}
  BY <1>1 DEF Filters
<1> HIDE DEF Filter
<1>3. <<Filter.route, Filter.kind>> \in (Routes \cup {AnyRoute}) \X (VisitKinds \cup {AnyRoute})
  BY <1>2
<1> QED
  BY <1>1, <1>3, VisitConstants DEF Found

LEMMA FirstLoad ==
  ASSUME route = AnyRoute, visitKind = AnyRoute, offset = 0, loadId = 1,
         loads = {[id |-> 1, asks |-> Filter, body |-> FALSE]}
  PROVE  LoadsInv
<1> DEFINE l == [id |-> 1, asks |-> Filter, body |-> FALSE]
<1>1. Filter \in Filters
  BY DEF Filter, Filters
<1>2. l \in Requests
      /\ l.id = loadId /\ l.asks = Filter
  BY <1>1 DEF Requests
<1>3. loads = {l}
  OBVIOUS
<1> HIDE DEF l
<1> QED
  BY <1>2, <1>3 DEF LoadsInv

LEMMA ChartsStart == ASSUME ChartsInit PROVE ChartsInv
<1>1. LoadsInv
  BY FirstLoad DEF ChartsInit
<1> QED
  BY <1>1 DEF ChartsInit, ChartsInv, NoFailure

LEMMA TableStarts == ASSUME TableInit PROVE TableInv
<1>1. LoadsInv
  BY FirstLoad DEF TableInit
<1>2. DOMAIN charts = {} /\ offset = 0 /\ ~next
  BY DEF TableInit
<1> QED
  BY <1>1, <1>2 DEF TableInv, OffsetIsInTheTable

LEMMA ChartsGoOn == ASSUME ChartsInv, ChartsNext PROVE ChartsInv'
<1>1. ASSUME NEW r \in Routes \cup {AnyRoute}, ChooseRoute(r) PROVE ChartsInv'
  <2>1. LoadsInv'
    BY <1>1, LoadAsks DEF ChooseRoute, ChartsInv, LoadsInv
  <2> QED
    BY <1>1, <2>1 DEF ChooseRoute, ChartsInv
<1>2. ASSUME NEW l \in loads, ChartsFailed(l) PROVE ChartsInv'
  <2>1. /\ failed'.of = loadId \/ (l.id # loadId /\ UNCHANGED <<rows, failed>>)
        /\ ~failed'.body
    BY <1>2 DEF ChartsFailed, ChartsInv
  <2>2. LoadsInv'
    BY <1>2, <2>1, LoadEnds DEF ChartsFailed, ChartsInv
  <2> QED
    BY <1>2, <2>1, <2>2 DEF ChartsFailed, ChartsInv
<1>3. ASSUME NEW l \in loads, NEW noise \in SUBSET {"static", "robot"}, ChartsAnswered(l, noise)
      PROVE  ChartsInv'
  <2>1. LoadsInv' /\ ~failed'.body
    BY <1>3, LoadEnds DEF ChartsAnswered, ChartsInv, NoFailure
  <2>2. CASE charts' = charts
    BY <1>3, <2>1, <2>2 DEF ChartsAnswered, ChartsInv
  <2>3. CASE charts' = [k \in noise \cup {"route"} |-> logScales[k]]
    <3>1. noise \cup {"route"} \subseteq Scaled
      BY DEF Scaled
    <3> QED
      BY <1>3, <2>1, <2>3, <3>1 DEF ChartsAnswered, ChartsInv
  <2> QED
    BY <1>3, <2>2, <2>3 DEF ChartsAnswered
<1>4. ASSUME NEW k \in Scaled, ToggleScale(k) PROVE ChartsInv'
  <2>1. /\ logScales' = [logScales EXCEPT ![k] = ~logScales[k]]
        /\ charts' = [charts EXCEPT ![k] = logScales'[k]]
        /\ UNCHANGED <<route, visitKind, offset, loads, loadId, rows, failed>>
    BY <1>4 DEF ToggleScale
  <2>2. logScales' \in [Scaled -> BOOLEAN]
    BY <2>1 DEF ChartsInv
  <2>3. DOMAIN charts' = DOMAIN charts /\ charts' = [j \in DOMAIN charts |-> logScales'[j]]
    BY <2>1 DEF ChartsInv
  <2>4. LoadsInv'
    <3>1. Filter' = Filter /\ Requests' = Requests
      BY <2>1 DEF Filter, Requests
    <3> QED
      BY <2>1, <3>1 DEF ChartsInv, LoadsInv
  <2> QED
    BY <2>1, <2>2, <2>3, <2>4 DEF ChartsInv
<1> QED
  BY <1>1, <1>2, <1>3, <1>4 DEF ChartsNext

LEMMA TableGoesOn == ASSUME TableInv, TableNext PROVE TableInv'
<1>1. ASSUME NEW r \in Routes \cup {AnyRoute}, NEW k \in VisitKinds \cup {AnyRoute}, Narrow(r, k)
      PROVE  TableInv'
  <2>1. LoadsInv'
    BY <1>1, LoadAsks DEF Narrow, TableInv
  <2>2. offset' = 0 /\ ~next' /\ charts' = charts
    BY <1>1 DEF Narrow
  <2> QED
    BY <2>1, <2>2 DEF TableInv, OffsetIsInTheTable
<1>2. ASSUME NEW to \in Nat, Turn(to), to = 0 \/ to < Found(Filter) PROVE TableInv'
  <2>1. LoadsInv'
    BY <1>2, LoadAsks DEF Turn, TableInv, LoadsInv
  <2>2. offset' = to /\ ~next' /\ charts' = charts /\ route' = route /\ visitKind' = visitKind
    BY <1>2 DEF Turn
  <2>3. Found(Filter)' = Found(Filter)
    BY <2>2 DEF Found, Filter
  <2>4. OffsetIsInTheTable'
    BY <1>2, <2>2, <2>3 DEF OffsetIsInTheTable
  <2>5. DOMAIN charts' = {} /\ (next => offset + PageSize < Found(Filter))'
    BY <2>2 DEF TableInv
  <2> QED
    BY <2>1, <2>4, <2>5 DEF TableInv
<1>3. CASE TurnBack
  <2>0. offset \in Nat /\ PageSize \in Nat \ {0} /\ offset - PageSize \in Int
    BY VisitConstants DEF TableInv, LoadsInv
  <2>1. Max({0, offset - PageSize}) \in {0, offset - PageSize} /\ Max({0, offset - PageSize}) >= 0
    BY <2>0, MaxOfTwo
  <2>2. Max({0, offset - PageSize}) \in Nat
    BY <2>0, <2>1
  <2>3. Max({0, offset - PageSize}) = 0 \/ Max({0, offset - PageSize}) < Found(Filter)
    BY <2>0, <2>1, FoundType DEF TableInv, OffsetIsInTheTable
  <2> QED
    BY <1>2, <1>3, <2>2, <2>3 DEF TurnBack
<1>4. CASE TurnOn
  <2>1. offset + PageSize \in Nat /\ offset + PageSize < Found(Filter)
    BY <1>4, VisitConstants DEF TurnOn, TableInv, LoadsInv
  <2> QED
    BY <1>2, <1>4, <2>1 DEF TurnOn
<1>5. ASSUME NEW l \in loads, TableAnswered(l) PROVE TableInv'
  <2>1. LoadsInv'
    BY <1>5, LoadEnds DEF TableAnswered, TableInv
  <2>2. Filter' = Filter /\ charts' = charts /\ offset' = offset
    BY <1>5 DEF TableAnswered, Filter
  <2>3. next' => offset + PageSize < Found(Filter)
    <3>1. CASE l.id # loadId
      BY <1>5, <3>1 DEF TableAnswered, TableInv
    <3>2. CASE l.id = loadId
      <4>1. l.asks = Filter /\ Filter.offset = offset
        BY <3>2 DEF TableInv, LoadsInv, Filter
      <4> QED
        BY <1>5, <3>2, <4>1 DEF TableAnswered
    <3> QED
      BY <3>1, <3>2
  <2> QED
    BY <2>1, <2>2, <2>3 DEF TableInv, OffsetIsInTheTable
<1>6. ASSUME NEW l \in loads, TableRefused(l) PROVE TableInv'
  <2>1. /\ UNCHANGED <<route, visitKind, offset, loadId, rows, failed, next, charts>>
        /\ loads' = (loads \ {l}) \cup (IF l.id = loadId THEN {[l EXCEPT !.body = TRUE]} ELSE {})
    BY <1>6 DEF TableRefused
  <2>2. Filter' = Filter
    BY <2>1 DEF Filter
  <2>3. CASE l.id # loadId
    <3>1. loads' = loads \ {l}
      BY <2>1, <2>3
    <3> QED
      BY <2>1, <2>2, <2>3, <3>1, LoadEnds DEF TableInv, OffsetIsInTheTable
  <2>4. CASE l.id = loadId
    <3> DEFINE m == [l EXCEPT !.body = TRUE]
    <3>1. m \in Requests
          /\ m.id = loadId /\ m.asks = Filter
      BY <2>4 DEF TableInv, LoadsInv, Requests
    <3>2. loads' = (loads \ {l}) \cup {m}
      BY <2>1, <2>4
    <3> HIDE DEF m
    <3>3. LoadsInv'
      <4>1. Requests' = Requests
        BY <2>1 DEF Requests
      <4>2. loads' \subseteq Requests' /\ \A k \in loads' : k.id = loadId' => k.asks = Filter'
        BY <2>1, <2>2, <3>1, <3>2, <4>1 DEF TableInv, LoadsInv
      <4>3. ~\A k \in loads' : k.id # loadId'
        BY <2>1, <3>1, <3>2
      <4> QED
        BY <2>1, <4>2, <4>3 DEF TableInv, LoadsInv
    <3> QED
      BY <2>1, <2>2, <3>3 DEF TableInv, OffsetIsInTheTable
  <2> QED
    BY <2>3, <2>4
<1>7. ASSUME NEW l \in loads, TableFailed(l) PROVE TableInv'
  <2>1. failed'.of = loadId \/ failed'.body \/ (l.id # loadId /\ UNCHANGED <<rows, failed>>)
    BY <1>7 DEF TableFailed
  <2>2. UNCHANGED <<route, visitKind, offset, loadId, next, charts>> /\ loads' = loads \ {l}
    BY <1>7 DEF TableFailed
  <2>3. Filter' = Filter
    BY <2>2 DEF Filter
  <2>4. LoadsInv'
    BY <2>1, <2>2, LoadEnds DEF TableInv
  <2> QED
    BY <2>2, <2>3, <2>4 DEF TableInv, OffsetIsInTheTable
<1>8. route \in Routes \cup {AnyRoute} /\ visitKind \in VisitKinds \cup {AnyRoute}
  BY DEF TableInv, LoadsInv
<1>9. ASSUME NEW r \in {route, AnyRoute} \cup (IF rows = Nothing THEN {} ELSE Routes)
      PROVE  r \in Routes \cup {AnyRoute}
  BY <1>8
<1> QED
  BY <1>1, <1>3, <1>4, <1>5, <1>6, <1>7, <1>8, <1>9 DEF TableNext

LEMMA ChartsAreLatest == ASSUME ChartsInv PROVE NewestLoadIsShown /\ ChartsAreScaled
BY DEF ChartsInv, LoadsInv, NewestLoadIsShown, ChartsAreScaled

LEMMA TableIsLatest ==
  ASSUME TableInv PROVE (NewestLoadIsShown \/ LateRefusal) /\ OffsetIsInTheTable
BY DEF TableInv, LoadsInv, NewestLoadIsShown, LateRefusal

(* The button that copies: beside the promise itself, the counters count. *)
CopyInv ==
  /\ writing \in Nat /\ oldTimers \in Nat /\ copyTimer \in BOOLEAN
  /\ CopyReturns

LEMMA CopyStarts == ASSUME CopyInit PROVE CopyInv
BY DEF CopyInit, CopyInv, CopyReturns

LEMMA CopyGoesOn == ASSUME CopyInv, CopyNext PROVE CopyInv'
<1>1. CASE Copy
  <2>1. copyTimer' \in BOOLEAN
    BY <1>1, Zenon DEF Copy
  <2> QED
    BY <1>1, <2>1 DEF Copy, CopyInv, CopyReturns
<1>2. CASE Copied
  <2>1. copyTimer' /\ copyTimer' \in BOOLEAN
    BY <1>2, Zenon DEF Copied
  <2>2. writing' \in Nat /\ oldTimers' \in Nat
    BY <1>2 DEF Copied, CopyInv
  <2> QED
    BY <2>1, <2>2, Zenon DEF CopyInv, CopyReturns
<1>3. CASE CopyReset
  <2>1. copyTimer' \in BOOLEAN
    BY <1>3, Zenon DEF CopyReset, CopyInv
  <2>2. writing' \in Nat /\ oldTimers' \in Nat /\ copyLabel' = "Copy"
    BY <1>3 DEF CopyReset, CopyInv
  <2> QED
    BY <2>1, <2>2, Zenon DEF CopyInv, CopyReturns
<1> QED
  BY <1>1, <1>2, <1>3 DEF CopyNext

(* The front page's board.  What keeps the frames right is how the fields of *)
(* a mount go together: the loop is switched on just for the board that is   *)
(* up and not disabled, a game that still loads has asked for no frame, and  *)
(* a mount that has been left asks for none.                                 *)
OneMount == [running : BOOLEAN, loading : BOOLEAN, loaded : BOOLEAN,
             disabled : BOOLEAN, frames : Nat]
Hands == [stroke : Pointers \cup {NoPointer}, alive : BOOLEAN, hold : 0..2,
          scroll : Pointers \cup {NoPointer}, photo : Pointers \cup {NoPointer},
          dragged : BOOLEAN, touching : SUBSET Pointers, missed : BOOLEAN]
Boards == [slot : {NoSlot} \cup 1..Slots, mounts : [1..Slots -> OneMount],
           secret_counter : Nat, timers : Nat, hands : Hands]

MountIsRight(m, up) ==
  /\ m \in OneMount
  /\ m.loading => ~m.loaded
  /\ ~up => ~m.running /\ m.frames = 0
  /\ up => /\ m.running <=> ~m.disabled
           /\ m.frames = (IF m.loaded /\ ~m.disabled THEN 1 ELSE 0)

MountsAreRight(b) == \A s \in 1..Slots : MountIsRight(b.mounts[s], s = b.slot)
CounterIsRight(b) ==
  /\ b.secret_counter + b.timers >= Warned - 1
  /\ b.timers > 0 => b.secret_counter + b.timers = Warned - 1
  /\ ~Shown(b) => b.timers = 0

\* Unless a release was missed, what a pointer is kept for has one of its own
\* that is down.
HandsOk(h) ==
  /\ h.hold # 0 => h.stroke # NoPointer
  /\ ~h.missed => /\ {h.stroke, h.scroll, h.photo} \subseteq h.touching \cup {NoPointer}
                  /\ h.stroke # NoPointer => h.stroke # h.scroll /\ h.stroke # h.photo
                  /\ h.scroll # NoPointer => h.scroll # h.photo
HandsAreRight(b) == HandsOk(b.hands)

BoardInv(b) == b \in Boards /\ MountsAreRight(b) /\ CounterIsRight(b) /\ HandsAreRight(b)

LEMMA BoardIsRight == ASSUME BoardInv(board)
                      PROVE  FramesBelongToTheBoard /\ ClicksAreGivenBack /\ HoldEndsWithTheStroke
<1>1. FramesBelongToTheBoard
  BY DEF FramesBelongToTheBoard, BoardInv, MountsAreRight, MountIsRight
<1>2. ClicksAreGivenBack /\ HoldEndsWithTheStroke
  BY DEF BoardInv, CounterIsRight, HandsAreRight, HandsOk, ClicksAreGivenBack,
         HoldEndsWithTheStroke
<1> QED
  BY <1>1, <1>2

(* What each operation of a mount makes of it. *)

LEMMA OneMountKept ==
  ASSUME NEW m \in OneMount, NEW v \in BOOLEAN, NEW n \in Nat
  PROVE  /\ [m EXCEPT !.running = v] \in OneMount
         /\ [m EXCEPT !.loading = v] \in OneMount
         /\ [m EXCEPT !.loaded = v] \in OneMount
         /\ [m EXCEPT !.disabled = v] \in OneMount
         /\ [m EXCEPT !.frames = n] \in OneMount
<1>1. [m EXCEPT !.running = v] \in OneMount
  BY DEF OneMount
<1>2. [m EXCEPT !.loading = v] \in OneMount
  BY DEF OneMount
<1>3. [m EXCEPT !.loaded = v] \in OneMount
  BY DEF OneMount
<1>4. [m EXCEPT !.disabled = v] \in OneMount
  BY DEF OneMount
<1>5. [m EXCEPT !.frames = n] \in OneMount
  BY DEF OneMount
<1> QED
  BY <1>1, <1>2, <1>3, <1>4, <1>5

LEMMA StartedKept ==
  ASSUME NEW m \in OneMount
  PROVE  Started(m) \in OneMount /\ Cancelled(m) \in OneMount
<1>1. m.frames \in Nat
  BY DEF OneMount
<1>2. m.frames + 1 \in Nat /\ (IF m.frames = 0 THEN 0 ELSE m.frames - 1) \in Nat
  BY <1>1
<1> QED
  BY <1>2, OneMountKept DEF Started, Cancelled

LEMMA CancelledIsRight ==
  ASSUME NEW m, MountIsRight(m, TRUE)
  PROVE  /\ MountIsRight(Cancelled([m EXCEPT !.running = FALSE]), FALSE)
         /\ MountIsRight(Cancelled([m EXCEPT !.disabled = TRUE, !.running = FALSE]), TRUE)
<1> DEFINE left == Cancelled([m EXCEPT !.running = FALSE])
           off == Cancelled([m EXCEPT !.disabled = TRUE, !.running = FALSE])
<1>0. m \in OneMount /\ m.frames \in {0, 1} /\ (m.loading => ~m.loaded)
  BY DEF MountIsRight
<1>1. left \in OneMount /\ off \in OneMount
  <2>1. [m EXCEPT !.running = FALSE] \in OneMount
    BY <1>0, OneMountKept
  <2>2. [m EXCEPT !.disabled = TRUE] \in OneMount
    BY <1>0, OneMountKept
  <2>3. [m EXCEPT !.disabled = TRUE, !.running = FALSE] \in OneMount
    BY <2>2, OneMountKept
  <2> QED
    BY <2>1, <2>3, StartedKept
<1>2. left.frames = 0 /\ off.frames = 0
  BY <1>0 DEF Cancelled, OneMount
<1>3. ~left.running /\ ~off.running /\ off.disabled
  BY <1>0 DEF Cancelled, OneMount
<1>4. /\ left.loading = m.loading /\ left.loaded = m.loaded
      /\ off.loading = m.loading /\ off.loaded = m.loaded
  BY <1>0 DEF Cancelled, OneMount
<1> HIDE DEF left, off
<1>5. MountIsRight(left, FALSE)
  BY <1>0, <1>1, <1>2, <1>3, <1>4, Zenon DEF MountIsRight
<1>6. MountIsRight(off, TRUE)
  BY <1>0, <1>1, <1>2, <1>3, <1>4, Zenon DEF MountIsRight
<1> QED
  BY <1>5, <1>6 DEF left, off

LEMMA EnabledIsRight ==
  ASSUME NEW m, MountIsRight(m, TRUE), m.disabled,
         NEW e, e = [m EXCEPT !.disabled = FALSE, !.running = TRUE]
  PROVE  MountIsRight(IF e.loaded THEN Started(e) ELSE e, TRUE)
<1> DEFINE on == IF e.loaded THEN Started(e) ELSE e
<1>0. m \in OneMount /\ m.frames = 0 /\ (m.loading => ~m.loaded)
  BY DEF MountIsRight
<1>1. on \in OneMount
  <2>1. [m EXCEPT !.disabled = FALSE] \in OneMount
    BY <1>0, OneMountKept
  <2>2. e \in OneMount
    BY <2>1, OneMountKept
  <2> QED
    BY <2>2, StartedKept
<1>2. on.frames = (IF m.loaded THEN 1 ELSE 0)
  BY <1>0 DEF Started, OneMount
<1>3. on.running /\ ~on.disabled
  BY <1>0 DEF Started, OneMount
<1>4. on.loading = m.loading /\ on.loaded = m.loaded
  BY <1>0 DEF Started, OneMount
<1> HIDE DEF on
<1>5. MountIsRight(on, TRUE)
  BY <1>0, <1>1, <1>2, <1>3, <1>4, Zenon DEF MountIsRight
<1> QED
  BY <1>5 DEF on

LEMMA LoadedIsRight ==
  ASSUME NEW m, NEW up \in BOOLEAN, MountIsRight(m, up), m.loading,
         NEW n, n = [m EXCEPT !.loading = FALSE, !.loaded = TRUE]
  PROVE  /\ MountIsRight([m EXCEPT !.loading = FALSE], up)
         /\ MountIsRight(IF n.running THEN Started(n) ELSE n, up)
<1> DEFINE bare == [m EXCEPT !.loading = FALSE]
           full == IF n.running THEN Started(n) ELSE n
<1>0. m \in OneMount /\ ~m.loaded /\ m.frames = 0
  BY DEF MountIsRight
<1>1. bare \in OneMount /\ full \in OneMount
  <2>1. bare \in OneMount
    BY <1>0, OneMountKept
  <2>2. n \in OneMount
    BY <2>1, OneMountKept
  <2> QED
    BY <2>1, <2>2, StartedKept
<1>2. bare.frames = 0 /\ full.frames = (IF m.running THEN 1 ELSE 0)
  BY <1>0 DEF Started, OneMount
<1>3. ~bare.loading /\ ~full.loading /\ full.loaded
  BY <1>0 DEF Started, OneMount
<1>4. /\ bare.running = m.running /\ bare.disabled = m.disabled /\ bare.loaded = m.loaded
      /\ full.running = m.running /\ full.disabled = m.disabled
  BY <1>0 DEF Started, OneMount
<1> HIDE DEF bare, full
<1>5. MountIsRight(bare, up)
  BY <1>0, <1>1, <1>2, <1>3, <1>4, Zenon DEF MountIsRight
<1>6. MountIsRight(full, up)
  BY <1>0, <1>1, <1>2, <1>3, <1>4, Zenon DEF MountIsRight
<1> QED
  BY <1>5, <1>6 DEF bare, full

(* The same for the board: a mount, the hands or the counter is changed.      *)

LEMMA MountChanged ==
  ASSUME NEW b, BoardInv(b), NEW s \in 1..Slots, NEW n, MountIsRight(n, s = b.slot)
  PROVE  BoardInv([b EXCEPT !.mounts[s] = n])
<1> DEFINE c == [b EXCEPT !.mounts[s] = n]
<1>1. /\ c.slot = b.slot /\ c.secret_counter = b.secret_counter /\ c.timers = b.timers
      /\ c.hands = b.hands /\ c.mounts = [b.mounts EXCEPT ![s] = n]
  BY DEF BoardInv, Boards
<1>2. n \in OneMount
  BY DEF MountIsRight
<1>3. c \in Boards
  BY <1>2 DEF BoardInv, Boards
<1> HIDE DEF c
<1>4. MountsAreRight(c)
  BY <1>1, Zenon DEF BoardInv, Boards, MountsAreRight
<1>5. CounterIsRight(c) /\ HandsAreRight(c)
  BY <1>1 DEF BoardInv, CounterIsRight, HandsAreRight, Shown
<1> QED
  BY <1>3, <1>4, <1>5 DEF BoardInv, c

LEMMA HandsChanged ==
  ASSUME NEW b, BoardInv(b), NEW h \in Hands, HandsOk(h)
  PROVE  BoardInv([b EXCEPT !.hands = h])
<1> DEFINE c == [b EXCEPT !.hands = h]
<1>1. /\ c.slot = b.slot /\ c.secret_counter = b.secret_counter /\ c.timers = b.timers
      /\ c.hands = h /\ c.mounts = b.mounts /\ c \in Boards
  BY DEF BoardInv, Boards
<1> HIDE DEF c
<1>2. MountsAreRight(c) /\ CounterIsRight(c) /\ HandsAreRight(c)
  BY <1>1 DEF BoardInv, MountsAreRight, CounterIsRight, HandsAreRight, Shown
<1> QED
  BY <1>1, <1>2 DEF BoardInv, c

LEMMA CounterChanged ==
  ASSUME NEW b, BoardInv(b), NEW n \in Nat, NEW t \in Nat, n + t >= Warned - 1,
         t > 0 => n + t = Warned - 1, ~Shown(b) => t = 0
  PROVE  BoardInv([b EXCEPT !.timers = t, !.secret_counter = n])
<1> DEFINE c == [b EXCEPT !.timers = t, !.secret_counter = n]
<1>1. /\ c.slot = b.slot /\ c.secret_counter = n /\ c.timers = t
      /\ c.hands = b.hands /\ c.mounts = b.mounts /\ c \in Boards
  BY DEF BoardInv, Boards
<1> HIDE DEF c
<1>2. MountsAreRight(c) /\ CounterIsRight(c) /\ HandsAreRight(c)
  BY <1>1 DEF BoardInv, MountsAreRight, CounterIsRight, HandsAreRight, Shown
<1> QED
  BY <1>1, <1>2 DEF BoardInv, c

LEMMA BoardInitIsRight == BoardInv(BoardInit) /\ FreeSlots(BoardInit) # {}
<1>1. Free \in OneMount /\ NoHands \in Hands
  BY DEF Free, NoHands, OneMount, Hands
<1>2. BoardInit \in Boards
  BY <1>1, BoardConstants DEF BoardInit, Boards, NoSlot
<1>3. MountIsRight(Free, FALSE)
  BY <1>1 DEF MountIsRight, Free
<1>4. MountsAreRight(BoardInit)
  <2> SUFFICES ASSUME NEW s \in 1..Slots
               PROVE  MountIsRight(BoardInit.mounts[s], s = BoardInit.slot)
    BY DEF MountsAreRight
  <2>1. BoardInit.mounts[s] = Free /\ s # BoardInit.slot
    BY BoardConstants DEF BoardInit, NoSlot
  <2> QED
    BY <1>3, <2>1
<1>5. CounterIsRight(BoardInit) /\ HandsAreRight(BoardInit)
  BY BoardConstants DEF CounterIsRight, HandsAreRight, HandsOk, BoardInit, NoHands, NoSlot
<1>6. 1 \in FreeSlots(BoardInit)
  BY BoardConstants DEF FreeSlots, BoardInit, NoSlot, Free
<1> QED
  BY <1>2, <1>4, <1>5, <1>6 DEF BoardInv

LEMMA HideGameIsRight ==
  ASSUME NEW b, BoardInv(b)
  PROVE  /\ BoardInv(HideGame(b)) /\ ~Shown(HideGame(b))
         /\ FreeSlots(b) \subseteq FreeSlots(HideGame(b))
<1>1. CASE ~Shown(b)
  BY <1>1 DEF HideGame
<1>2. CASE Shown(b)
  <2> DEFINE m == Cancelled([b.mounts[b.slot] EXCEPT !.running = FALSE])
             c == HideGame(b)
  <2>1. b.slot \in 1..Slots /\ NoSlot \notin 1..Slots
    BY <1>2 DEF BoardInv, Boards, Shown, NoSlot
  <2>2. MountIsRight(m, FALSE)
    BY <2>1, CancelledIsRight DEF BoardInv, MountsAreRight
  <2>3. m \in OneMount /\ NoHands \in Hands /\ NoSlot \in {NoSlot} \cup 1..Slots
    BY <2>2 DEF MountIsRight, NoHands, Hands
  <2>4. c = [b EXCEPT !.mounts[b.slot] = m, !.slot = NoSlot, !.hands = NoHands,
                      !.secret_counter = b.secret_counter + b.timers, !.timers = 0]
    BY <1>2 DEF HideGame, BoardInv, Boards
  <2> HIDE DEF m
  <2>5. /\ c.slot = NoSlot /\ c.mounts = [b.mounts EXCEPT ![b.slot] = m]
        /\ c.hands = NoHands /\ c.timers = 0
        /\ c.secret_counter = b.secret_counter + b.timers /\ c \in Boards
    <3>1. c = [slot |-> NoSlot, mounts |-> [b.mounts EXCEPT ![b.slot] = m],
               secret_counter |-> b.secret_counter + b.timers, timers |-> 0,
               hands |-> NoHands]
      BY <2>4 DEF BoardInv, Boards
    <3>2. [b.mounts EXCEPT ![b.slot] = m] \in [1..Slots -> OneMount]
      BY <2>1, <2>3 DEF BoardInv, Boards
    <3>3. b.secret_counter + b.timers \in Nat
      BY DEF BoardInv, Boards
    <3> QED
      BY <2>3, <3>1, <3>2, <3>3 DEF Boards
  <2> HIDE DEF c
  <2>6. MountsAreRight(c)
    <3> SUFFICES ASSUME NEW s \in 1..Slots PROVE MountIsRight(c.mounts[s], s = c.slot)
      BY DEF MountsAreRight
    <3>1. s # c.slot /\ b.mounts \in [1..Slots -> OneMount]
      BY <2>1, <2>5 DEF BoardInv, Boards
    <3>2. CASE s = b.slot
      BY <2>2, <2>5, <3>1, <3>2
    <3>3. CASE s # b.slot
      <4>1. c.mounts[s] = b.mounts[s] /\ MountIsRight(b.mounts[s], FALSE)
        BY <2>5, <3>1, <3>3 DEF BoardInv, MountsAreRight
      <4> QED
        BY <3>1, <4>1
    <3> QED
      BY <3>2, <3>3
  <2>7. CounterIsRight(c) /\ HandsAreRight(c) /\ ~Shown(c)
    BY <2>5 DEF BoardInv, Boards, CounterIsRight, HandsAreRight, HandsOk, NoHands, Shown, NoSlot
  <2>8. FreeSlots(b) \subseteq FreeSlots(c)
    BY <2>1, <2>5 DEF FreeSlots, BoardInv, Boards
  <2> QED
    BY <2>5, <2>6, <2>7, <2>8 DEF BoardInv, c
<1> QED
  BY <1>1, <1>2

LEMMA MountPageIsRight ==
  ASSUME NEW b, BoardInv(b), FreeSlots(b) # {}
  PROVE  BoardInv(Mount(b))
<1>1. CASE Shown(b)
  BY <1>1 DEF Mount
<1>2. CASE ~Shown(b)
  <2> DEFINE s == CHOOSE x \in FreeSlots(b) : TRUE
             m == [Free EXCEPT !.running = TRUE, !.loading = TRUE]
             c == Mount(b)
  <2>1. s \in FreeSlots(b) /\ s \in 1..Slots
    BY DEF FreeSlots
  <2>2. MountIsRight(m, TRUE) /\ m \in OneMount /\ NoHands \in Hands
    <3>1. NoHands \in Hands
      BY DEF NoHands, Hands
    <3>2. Free \in OneMount
      BY DEF Free, OneMount
    <3>3. m \in OneMount
      <4>1. [Free EXCEPT !.running = TRUE] \in OneMount
        BY <3>2, OneMountKept
      <4> QED
        BY <4>1, OneMountKept
    <3>4. m.running /\ m.loading /\ ~m.loaded /\ ~m.disabled /\ m.frames = 0
      BY DEF Free
    <3> HIDE DEF m
    <3>5. MountIsRight(m, TRUE)
      BY <3>3, <3>4, Zenon DEF MountIsRight
    <3> QED
      BY <3>1, <3>3, <3>5
  <2>3. c = [b EXCEPT !.slot = s, !.hands = NoHands, !.mounts[s] = m]
    BY <1>2 DEF Mount
  <2> HIDE DEF s, m
  <2>4. /\ c.slot = s /\ c.mounts = [b.mounts EXCEPT ![s] = m] /\ c.hands = NoHands
        /\ c.timers = b.timers /\ c.secret_counter = b.secret_counter /\ c \in Boards
    <3>1. c = [slot |-> s, mounts |-> [b.mounts EXCEPT ![s] = m],
               secret_counter |-> b.secret_counter, timers |-> b.timers, hands |-> NoHands]
      BY <2>3 DEF BoardInv, Boards
    <3>2. [b.mounts EXCEPT ![s] = m] \in [1..Slots -> OneMount]
      BY <2>1, <2>2 DEF BoardInv, Boards
    <3> QED
      BY <2>1, <2>2, <3>1, <3>2 DEF BoardInv, Boards
  <2> HIDE DEF c
  <2>5. MountsAreRight(c)
    <3> SUFFICES ASSUME NEW k \in 1..Slots PROVE MountIsRight(c.mounts[k], k = c.slot)
      BY DEF MountsAreRight
    <3>1. b.mounts \in [1..Slots -> OneMount] /\ b.slot = NoSlot /\ k # b.slot
      BY <1>2 DEF BoardInv, Boards, Shown, NoSlot
    <3>2. CASE k = s
      BY <2>2, <2>4, <3>1, <3>2
    <3>3. CASE k # s
      <4>1. c.mounts[k] = b.mounts[k] /\ MountIsRight(b.mounts[k], FALSE)
        BY <2>4, <3>1, <3>3 DEF BoardInv, MountsAreRight
      <4> QED
        BY <2>4, <3>3, <4>1
    <3> QED
      BY <3>2, <3>3
  <2>6. CounterIsRight(c) /\ HandsAreRight(c)
    BY <1>2, <2>4 DEF BoardInv, CounterIsRight, HandsAreRight, HandsOk, NoHands, Shown
  <2> QED
    BY <2>4, <2>5, <2>6 DEF BoardInv, c
<1> QED
  BY <1>1, <1>2

LEMMA GameLoadedIsRight ==
  ASSUME NEW b, BoardInv(b), NEW s \in 1..Slots, b.mounts[s].loading, NEW ok \in BOOLEAN
  PROVE  BoardInv(GameLoaded(b, s, ok))
<1> DEFINE m == b.mounts[s]
           e == [m EXCEPT !.loading = FALSE, !.loaded = TRUE]
           n == IF ~ok THEN [m EXCEPT !.loading = FALSE]
                ELSE IF e.running THEN Started(e) ELSE e
<1>1. MountIsRight(m, s = b.slot)
  BY DEF BoardInv, MountsAreRight
<1>2. MountIsRight(n, s = b.slot)
  BY <1>1, LoadedIsRight
<1>3. GameLoaded(b, s, ok) = [b EXCEPT !.mounts[s] = n]
  BY DEF GameLoaded, BoardInv, Boards
<1> HIDE DEF n
<1> QED
  BY <1>2, <1>3, MountChanged

\* A frame asked for is that of the board that is up, and is asked for again.
LEMMA FrameIsRight ==
  ASSUME NEW b, BoardInv(b), NEW s \in 1..Slots, b.mounts[s].frames > 0
  PROVE  BoardInv(Frame(b, s))
<1>1. MountIsRight(b.mounts[s], s = b.slot)
  BY DEF BoardInv, MountsAreRight
<1>2. b.mounts[s].running
  BY <1>1 DEF MountIsRight
<1>3. b.mounts[s] = [b.mounts[s] EXCEPT !.frames = b.mounts[s].frames]
  BY <1>1 DEF MountIsRight, OneMount
<1>4. Frame(b, s) = [b EXCEPT !.mounts[s] = b.mounts[s]]
  BY <1>2, <1>3 DEF Frame, BoardInv, Boards
<1> QED
  BY <1>1, <1>4, MountChanged

LEMMA PowerIsRight ==
  ASSUME NEW b, BoardInv(b), Shown(b)
  PROVE  BoardInv(Power(b))
<1> DEFINE m == b.mounts[b.slot]
           e == [m EXCEPT !.disabled = FALSE, !.running = TRUE]
           n == IF ~m.disabled THEN Cancelled([m EXCEPT !.disabled = TRUE, !.running = FALSE])
                ELSE IF e.loaded THEN Started(e) ELSE e
<1>1. b.slot \in 1..Slots
  BY DEF BoardInv, Boards, Shown
<1>2. MountIsRight(m, TRUE)
  BY <1>1 DEF BoardInv, MountsAreRight
<1>3. MountIsRight(n, TRUE)
  <2>1. CASE ~m.disabled
    BY <1>2, <2>1, CancelledIsRight
  <2>2. CASE m.disabled
    BY <1>2, <2>2, EnabledIsRight
  <2> QED
    BY <2>1, <2>2
<1>4. Power(b) = [b EXCEPT !.mounts[b.slot] = n]
  BY DEF Power, BoardInv, Boards
<1> HIDE DEF n
<1>5. MountIsRight(n, b.slot = b.slot)
  BY <1>3
<1> QED
  BY <1>1, <1>4, <1>5, MountChanged

LEMMA CountIsRight ==
  ASSUME NEW b, BoardInv(b), Shown(b), ~Leads(b)
  PROVE  BoardInv(CountSecretClick(b))
<1> DEFINE n == b.secret_counter - 1
           t == IF b.secret_counter < Warned THEN b.timers + 1 ELSE b.timers
<1>1. b.secret_counter \in Nat \ {0} /\ b.timers \in Nat
  BY DEF BoardInv, Boards, Leads
<1>2. n \in Nat /\ t \in Nat
  BY <1>1
<1>3. n + t >= Warned - 1 /\ (t > 0 => n + t = Warned - 1)
  BY <1>1, BoardConstants DEF BoardInv, CounterIsRight
<1>4. CountSecretClick(b) = [b EXCEPT !.timers = t, !.secret_counter = n]
  BY <1>1 DEF CountSecretClick, BoardInv, Boards
<1>5. ~Shown(b) => t = 0
  OBVIOUS
<1> HIDE DEF n, t
<1>6. BoardInv([b EXCEPT !.timers = t, !.secret_counter = n])
  BY <1>2, <1>3, <1>5, CounterChanged
<1> QED
  BY <1>4, <1>6

LEMMA GiveBackIsRight ==
  ASSUME NEW b, BoardInv(b), b.timers > 0
  PROVE  BoardInv(GiveBack(b))
<1> DEFINE n == b.secret_counter + 1
           t == b.timers - 1
<1>1. b.secret_counter \in Nat /\ b.timers \in Nat \ {0}
  BY DEF BoardInv, Boards
<1>2. n \in Nat /\ t \in Nat /\ Shown(b)
  BY <1>1 DEF BoardInv, CounterIsRight
<1>3. n + t >= Warned - 1 /\ (t > 0 => n + t = Warned - 1)
  BY <1>1, BoardConstants DEF BoardInv, CounterIsRight
<1>4. GiveBack(b) = [b EXCEPT !.timers = t, !.secret_counter = n]
  BY DEF GiveBack, BoardInv, Boards
<1>5. ~Shown(b) => t = 0
  BY <1>2
<1> HIDE DEF n, t
<1>6. BoardInv([b EXCEPT !.timers = t, !.secret_counter = n])
  BY <1>2, <1>3, <1>5, CounterChanged
<1> QED
  BY <1>4, <1>6

\* A pointer goes down that was not: what it is kept for is its own.
LEMMA HandPresses ==
  ASSUME NEW h \in Hands, HandsOk(h), NEW p \in Pointers, p \notin h.touching,
         NEW n, NEW alive \in BOOLEAN, NEW hold \in 0..2, NEW dragged \in BOOLEAN,
         LET g == [h EXCEPT !.touching = @ \cup {p}] IN
         \/ n = [g EXCEPT !.scroll = p, !.dragged = dragged]
         \/ n = [g EXCEPT !.photo = p, !.dragged = dragged]
         \/ n = [g EXCEPT !.stroke = p, !.alive = alive, !.dragged = dragged, !.hold = hold]
  PROVE  n \in Hands /\ HandsOk(n)
<1> DEFINE g == [h EXCEPT !.touching = h.touching \cup {p}]
<1>0. p # NoPointer
  BY BoardConstants
<1>1. /\ g \in Hands /\ g.touching = h.touching \cup {p} /\ g.stroke = h.stroke
      /\ g.scroll = h.scroll /\ g.photo = h.photo /\ g.hold = h.hold /\ g.missed = h.missed
  BY DEF Hands
<1>2. /\ h.hold # 0 => h.stroke # NoPointer
      /\ ~h.missed => /\ {h.stroke, h.scroll, h.photo} \subseteq h.touching \cup {NoPointer}
                      /\ h.stroke # NoPointer => h.stroke # h.scroll /\ h.stroke # h.photo
                      /\ h.scroll # NoPointer => h.scroll # h.photo
  BY DEF HandsOk
<1>3. \/ n = [g EXCEPT !.scroll = p, !.dragged = dragged]
      \/ n = [g EXCEPT !.photo = p, !.dragged = dragged]
      \/ n = [g EXCEPT !.stroke = p, !.alive = alive, !.dragged = dragged, !.hold = hold]
  OBVIOUS
<1> HIDE DEF g
<1>4. CASE n = [g EXCEPT !.scroll = p, !.dragged = dragged]
  <2>1. /\ n \in Hands /\ n.touching = g.touching /\ n.stroke = g.stroke /\ n.scroll = p
        /\ n.photo = g.photo /\ n.hold = g.hold /\ n.missed = g.missed
    BY <1>1, <1>4 DEF Hands
  <2> QED
    BY <1>0, <1>1, <1>2, <2>1 DEF HandsOk
<1>5. CASE n = [g EXCEPT !.photo = p, !.dragged = dragged]
  <2>1. /\ n \in Hands /\ n.touching = g.touching /\ n.stroke = g.stroke /\ n.scroll = g.scroll
        /\ n.photo = p /\ n.hold = g.hold /\ n.missed = g.missed
    BY <1>1, <1>5 DEF Hands
  <2> QED
    BY <1>0, <1>1, <1>2, <2>1 DEF HandsOk
<1>6. CASE n = [g EXCEPT !.stroke = p, !.alive = alive, !.dragged = dragged, !.hold = hold]
  <2>1. /\ n \in Hands /\ n.touching = g.touching /\ n.stroke = p /\ n.scroll = g.scroll
        /\ n.photo = g.photo /\ n.missed = g.missed
    BY <1>1, <1>6 DEF Hands
  <2> QED
    BY <1>0, <1>1, <1>2, <2>1 DEF HandsOk
<1> QED
  BY <1>3, <1>4, <1>5, <1>6

LEMMA PointerDownIsRight ==
  ASSUME NEW b, BoardInv(b), NEW p \in Pointers, p \notin b.hands.touching,
         NEW left \in BOOLEAN, NEW what
  PROVE  BoardInv(PointerDown(b, p, left, what))
<1> DEFINE h == b.hands
           g == [h EXCEPT !.touching = h.touching \cup {p}]
           hold == IF Current(b).loaded THEN IF left THEN 2 ELSE 1 ELSE h.hold
           n == CASE what = "scrollbar" -> [g EXCEPT !.scroll = p, !.dragged = TRUE]
                  [] what = "photo" -> [g EXCEPT !.photo = p, !.dragged = TRUE]
                  [] OTHER -> [g EXCEPT !.stroke = p, !.alive = left, !.dragged = FALSE,
                                        !.hold = hold]
<1>1. h \in Hands /\ HandsOk(h) /\ hold \in 0..2
  BY DEF BoardInv, Boards, HandsAreRight, Hands
<1>2. g.hold = h.hold
  BY <1>1 DEF Hands
<1>3. PointerDown(b, p, left, what) = [b EXCEPT !.hands = n]
  <2>1. CASE what \in {"scrollbar", "photo"}
    BY <2>1 DEF PointerDown, BoardInv, Boards
  <2>2. CASE what \notin {"scrollbar", "photo"}
    <3>1. n = [g EXCEPT !.stroke = p, !.alive = left, !.dragged = FALSE, !.hold = hold]
      BY <2>2
    <3>2. PointerDown(b, p, left, what) =
            [b EXCEPT !.hands = [g EXCEPT !.stroke = p, !.alive = left, !.dragged = FALSE,
                                          !.hold = hold]]
      BY <1>2, <2>2 DEF PointerDown
    <3> QED
      BY <3>1, <3>2
  <2> QED
    BY <2>1, <2>2
<1> HIDE DEF hold
<1>4. \/ n = [g EXCEPT !.scroll = p, !.dragged = TRUE]
      \/ n = [g EXCEPT !.photo = p, !.dragged = TRUE]
      \/ n = [g EXCEPT !.stroke = p, !.alive = left, !.dragged = FALSE, !.hold = hold]
  OBVIOUS
<1> HIDE DEF n
<1>5. n \in Hands /\ HandsOk(n)
  <2>1. TRUE \in BOOLEAN /\ FALSE \in BOOLEAN
    OBVIOUS
  <2> QED
    BY <1>1, <1>4, <2>1, HandPresses
<1> QED
  BY <1>3, <1>5, HandsChanged

LEMMA PointerMoveIsRight ==
  ASSUME NEW b, BoardInv(b), NEW p \in Down(b), NEW far \in BOOLEAN
  PROVE  BoardInv(PointerMove(b, p, far))
<1>1. CASE p \in {b.hands.scroll, b.hands.photo} \/ p # b.hands.stroke
  BY <1>1 DEF PointerMove
<1>2. CASE p = b.hands.stroke /\ p \notin {b.hands.scroll, b.hands.photo}
  <2> DEFINE h == b.hands
             far2 == h.dragged \/ far
             hold == IF Current(b).loaded THEN IF h.alive THEN 2 ELSE 1 ELSE h.hold
             n == [h EXCEPT !.dragged = far2, !.hold = hold]
  <2>1. h \in Hands /\ HandsOk(h) /\ h.stroke # NoPointer /\ hold \in 0..2
    BY <1>2 DEF BoardInv, Boards, Hands, HandsAreRight, Down
  <2>2. far2 \in BOOLEAN
    OBVIOUS
  <2>3. PointerMove(b, p, far) = [b EXCEPT !.hands = n]
    BY <1>2 DEF PointerMove, BoardInv, Boards, Hands
  <2> HIDE DEF far2, hold
  <2>4. n \in Hands
    BY <2>1, <2>2 DEF Hands
  <2>5. /\ n.stroke = h.stroke /\ n.scroll = h.scroll /\ n.photo = h.photo
        /\ n.touching = h.touching /\ n.missed = h.missed
    BY <2>1 DEF Hands
  <2> HIDE DEF n
  <2>6. HandsOk(n)
    BY <2>1, <2>5 DEF HandsOk
  <2> QED
    BY <2>3, <2>4, <2>6, HandsChanged
<1> QED
  BY <1>1, <1>2

LEMMA EndStrokeIsRight ==
  ASSUME NEW b, BoardInv(b), NEW p \in Pointers
  PROVE  BoardInv(EndStroke(b, p))
<1> DEFINE h == b.hands
           g == [h EXCEPT !.touching = h.touching \ {p}]
           n == IF g.scroll = p THEN [g EXCEPT !.scroll = NoPointer]
                ELSE IF g.photo = p THEN [g EXCEPT !.photo = NoPointer]
                ELSE IF g.stroke = p
                     THEN [g EXCEPT !.stroke = NoPointer, !.alive = FALSE, !.hold = 0]
                ELSE g
<1>0. p # NoPointer /\ NoPointer \in Pointers \cup {NoPointer} /\ 0 \in 0..2
  BY BoardConstants
<1>1. h \in Hands /\ HandsOk(h)
  BY DEF BoardInv, Boards, HandsAreRight
<1>2. EndStroke(b, p) = [b EXCEPT !.hands = n]
  BY DEF EndStroke, BoardInv, Boards
<1>3. /\ g \in Hands /\ g.touching = h.touching \ {p} /\ g.stroke = h.stroke
      /\ g.scroll = h.scroll /\ g.photo = h.photo /\ g.hold = h.hold /\ g.missed = h.missed
  BY <1>1 DEF Hands
<1>4. /\ h.hold # 0 => h.stroke # NoPointer
      /\ ~h.missed => /\ {h.stroke, h.scroll, h.photo} \subseteq h.touching \cup {NoPointer}
                      /\ h.stroke # NoPointer => h.stroke # h.scroll /\ h.stroke # h.photo
                      /\ h.scroll # NoPointer => h.scroll # h.photo
  BY <1>1 DEF HandsOk
<1> HIDE DEF g, h
<1>5. \/ g.scroll = p /\ n = [g EXCEPT !.scroll = NoPointer]
      \/ g.scroll # p /\ g.photo = p /\ n = [g EXCEPT !.photo = NoPointer]
      \/ /\ g.scroll # p /\ g.photo # p /\ g.stroke = p
         /\ n = [g EXCEPT !.stroke = NoPointer, !.alive = FALSE, !.hold = 0]
      \/ g.scroll # p /\ g.photo # p /\ g.stroke # p /\ n = g
  <2>1. CASE g.scroll = p
    BY <2>1
  <2>2. CASE g.scroll # p /\ g.photo = p
    BY <2>2
  <2>3. CASE g.scroll # p /\ g.photo # p /\ g.stroke = p
    BY <2>3
  <2>4. CASE g.scroll # p /\ g.photo # p /\ g.stroke # p
    BY <2>4
  <2> QED
    BY <2>1, <2>2, <2>3, <2>4
<1> HIDE DEF n
<1>6. n \in Hands /\ HandsOk(n)
  <2>1. CASE g.scroll = p /\ n = [g EXCEPT !.scroll = NoPointer]
    <3>1. /\ n \in Hands /\ n.touching = g.touching /\ n.stroke = g.stroke
          /\ n.scroll = NoPointer /\ n.photo = g.photo /\ n.hold = g.hold /\ n.missed = g.missed
      BY <1>0, <1>3, <2>1 DEF Hands
    <3> QED
      BY <1>0, <1>3, <1>4, <2>1, <3>1 DEF HandsOk
  <2>2. CASE g.scroll # p /\ g.photo = p /\ n = [g EXCEPT !.photo = NoPointer]
    <3>1. /\ n \in Hands /\ n.touching = g.touching /\ n.stroke = g.stroke
          /\ n.scroll = g.scroll /\ n.photo = NoPointer /\ n.hold = g.hold /\ n.missed = g.missed
      BY <1>0, <1>3, <2>2 DEF Hands
    <3> QED
      BY <1>0, <1>3, <1>4, <2>2, <3>1 DEF HandsOk
  <2>3. CASE /\ g.scroll # p /\ g.photo # p /\ g.stroke = p
             /\ n = [g EXCEPT !.stroke = NoPointer, !.alive = FALSE, !.hold = 0]
    <3>1. /\ n \in Hands /\ n.touching = g.touching /\ n.stroke = NoPointer
          /\ n.scroll = g.scroll /\ n.photo = g.photo /\ n.hold = 0 /\ n.missed = g.missed
      BY <1>0, <1>3, <2>3 DEF Hands
    <3> QED
      BY <1>0, <1>3, <1>4, <2>3, <3>1 DEF HandsOk
  <2>4. CASE g.scroll # p /\ g.photo # p /\ g.stroke # p /\ n = g
    BY <1>3, <1>4, <2>4 DEF HandsOk
  <2> QED
    BY <1>5, <2>1, <2>2, <2>3, <2>4
<1> QED
  BY <1>2, <1>6, HandsChanged

\* A release the overlay is not told of is one that was missed.
LEMMA MissReleaseIsRight ==
  ASSUME NEW b, BoardInv(b), NEW p \in Pointers
  PROVE  BoardInv(MissRelease(b, p))
<1> DEFINE h == b.hands
           missed == h.missed \/ p \in Down(b)
           n == [h EXCEPT !.touching = h.touching \ {p}, !.missed = missed]
<1>1. h \in Hands /\ HandsOk(h) /\ missed \in BOOLEAN
  BY DEF BoardInv, Boards, HandsAreRight, Hands
<1>2. MissRelease(b, p) = [b EXCEPT !.hands = n]
  BY DEF MissRelease, BoardInv, Boards, Hands
<1>3. ~missed => ~h.missed /\ p \notin {h.stroke, h.scroll, h.photo}
  BY BoardConstants DEF Down
<1> HIDE DEF missed
<1>4. /\ n \in Hands /\ n.touching = h.touching \ {p} /\ n.stroke = h.stroke
      /\ n.scroll = h.scroll /\ n.photo = h.photo /\ n.hold = h.hold /\ n.missed = missed
  BY <1>1 DEF Hands
<1> HIDE DEF n
<1>5. HandsOk(n)
  BY <1>1, <1>3, <1>4 DEF HandsOk
<1> QED
  BY <1>2, <1>4, <1>5, HandsChanged

(* The document: the renders in flight, and what the Vim page holds.         *)

LEMMA CallJoins ==
  ASSUME NEW cs, NEW p, NEW stage
  PROVE  BagToSet(Plus(cs, p, stage)) = BagToSet(cs) \cup {[page |-> p, stage |-> stage]}
BY DEF Plus, BagToSet, SetToBag, (+)

LEMMA CallEnds ==
  ASSUME NEW cs, NEW c
  PROVE  BagToSet(Minus(cs, c)) \subseteq BagToSet(cs)
BY DEF Minus, BagToSet, SetToBag, (-)

LEMMA NoCalls == BagToSet(EmptyBag) = {}
BY DEF BagToSet, EmptyBag, SetToBag

(* A game has its listener while it is on the panel; nothing but the games'  *)
(* own steps and the page's mount and teardown touches what says so.         *)
KeysAreRight(v) ==
  /\ DOMAIN v = DOMAIN VimInit
  /\ v.keys = (IF v.game \in Keyed THEN 1 ELSE 0)
  /\ v.escape => v.up
  /\ v.game # "none" => v.escape

SamePanel(v, w) ==
  /\ DOMAIN w = DOMAIN v
  /\ w.game = v.game /\ w.keys = v.keys /\ w.escape = v.escape /\ w.up = v.up

LEMMA SamePanelIsRight ==
  ASSUME NEW v, NEW w, KeysAreRight(v), SamePanel(v, w)
  PROVE  KeysAreRight(w)
BY DEF KeysAreRight, SamePanel

LEMMA EditorKeepsPanel ==
  ASSUME NEW v, DOMAIN v = DOMAIN VimInit, NEW S, NEW x
  PROVE  /\ SamePanel(v, LoadScripts(v, S))
         /\ SamePanel(v, LoadChallenge(v))
         /\ SamePanel(v, Rejected(v))
         /\ SamePanel(v, EditBuffer(v, x))
<1>1. SamePanel(v, LoadScripts(v, S))
  BY DEF SamePanel, LoadScripts, VimInit
<1>2. SamePanel(v, LoadChallenge(v))
  BY DEF SamePanel, LoadChallenge, VimInit
<1>3. SamePanel(v, Rejected(v))
  BY DEF SamePanel, Rejected, VimInit
<1>4. SamePanel(v, EditBuffer(v, x))
  BY DEF SamePanel, EditBuffer, VimInit
<1> QED
  BY <1>1, <1>2, <1>3, <1>4

LEMMA SamePanelTwice ==
  ASSUME NEW u, NEW v, NEW w, SamePanel(u, v), SamePanel(v, w)
  PROVE  SamePanel(u, w)
BY DEF SamePanel

LEMMA ResolvedKeepsPanel ==
  ASSUME NEW v, DOMAIN v = DOMAIN VimInit
  PROVE  SamePanel(v, Resolved(v))
<1> DEFINE w == [v EXCEPT !.cm = TRUE]
<1>1. SamePanel(v, w)
  BY DEF SamePanel, VimInit
<1>2. DOMAIN w = DOMAIN VimInit
  OBVIOUS
<1>3. SamePanel(w, LoadChallenge(w)) /\ SamePanel(v, v)
  BY <1>2, EditorKeepsPanel DEF SamePanel
<1> HIDE DEF w
<1>4. Resolved(v) \in {v, w, LoadChallenge(w)}
  BY DEF Resolved, w
<1> QED
  BY <1>1, <1>3, <1>4, SamePanelTwice

LEMMA BuildKeepsPanel ==
  ASSUME NEW v, DOMAIN v = DOMAIN VimInit
  PROVE  SamePanel(v, BuildStep(v))
<1> DEFINE u == [v EXCEPT !.stage = "addons"]
           w == [v EXCEPT !.stage = "built", !.text = "sample"]
<1>1. SamePanel(v, u) /\ DOMAIN u = DOMAIN VimInit
  BY DEF SamePanel, VimInit
<1>2. SamePanel(v, w) /\ DOMAIN w = DOMAIN VimInit
  BY DEF SamePanel, VimInit
<1> HIDE DEF u, w
<1>3. SamePanel(u, LoadScripts(u, Scripts \ {Core}))
  BY <1>1, EditorKeepsPanel
<1>4. SamePanel(w, Resolved(w))
  BY <1>2, ResolvedKeepsPanel
<1>5. SamePanel(v, Rejected(v))
  BY EditorKeepsPanel
<1>6. BuildStep(v) \in {LoadScripts(u, Scripts \ {Core}), Resolved(w), Rejected(v)}
  <2>1. CASE v.stage = "core"
    BY <2>1 DEF BuildStep, u
  <2>2. CASE v.stage # "core"
    BY <2>2 DEF BuildStep, w
  <2> QED
    BY <2>1, <2>2
<1> QED
  BY <1>1, <1>2, <1>3, <1>4, <1>5, <1>6, SamePanelTwice

LEMMA ScriptKeepsPanel ==
  ASSUME NEW v, DOMAIN v = DOMAIN VimInit, NEW s, NEW ok
  PROVE  SamePanel(v, ScriptEnds(v, s, ok))
<1> DEFINE w == [v EXCEPT !.tag[s] = IF ok THEN "ok" ELSE "failed"]
<1>1. SamePanel(v, w) /\ DOMAIN w = DOMAIN VimInit
  BY DEF SamePanel, VimInit
<1> HIDE DEF w
<1>2. SamePanel(w, Rejected(w))
  BY <1>1, EditorKeepsPanel
<1>3. ScriptEnds(v, s, ok) \in {w, Rejected(w)}
  BY DEF ScriptEnds, w
<1> QED
  BY <1>1, <1>2, <1>3, SamePanelTwice

LEMMA ModeKeepsPanel ==
  ASSUME NEW v, DOMAIN v = DOMAIN VimInit, NEW m
  PROVE  SamePanel(v, EnterMode(v, m))
<1> DEFINE u == [v EXCEPT !.mode = m]
           w == [v EXCEPT !.mode = m, !.playgroundBuffer = IF v.mode = "playground"
                                                           THEN v.text ELSE @]
           x == [w EXCEPT !.text = w.playgroundBuffer]
<1>1. SamePanel(v, v) /\ SamePanel(v, u)
  BY DEF SamePanel, VimInit
<1>2. SamePanel(v, w) /\ DOMAIN w = DOMAIN VimInit
  BY DEF SamePanel, VimInit
<1>3. EnterMode(v, m) \in {v, u, LoadChallenge(w), x}
  BY DEF EnterMode
<1> HIDE DEF w
<1>4. SamePanel(w, x)
  BY <1>2 DEF SamePanel, VimInit
<1>5. SamePanel(w, LoadChallenge(w))
  BY <1>2, EditorKeepsPanel
<1> HIDE DEF u, x
<1> QED
  BY <1>1, <1>2, <1>3, <1>4, <1>5, SamePanelTwice

LEMMA DisposeVimIsRight ==
  ASSUME NEW v, KeysAreRight(v)
  PROVE  /\ KeysAreRight(DisposeVim(v))
         /\ ~DisposeVim(v).up /\ DisposeVim(v).keys = 0 /\ DisposeVim(v).game = "none"
         /\ ~DisposeVim(v).escape
BY DEF KeysAreRight, DisposeVim, DisposeGame, VimInit, Keyed

LEMMA MountVimIsRight ==
  ASSUME NEW v, KeysAreRight(v)
  PROVE  KeysAreRight(MountVim(v))
<1> DEFINE d == DisposeVim(v)
           w == [d EXCEPT !.up = TRUE, !.mode = "playground",
                          !.playgroundBuffer = "sample", !.solved = FALSE]
           u == [w EXCEPT !.stage = "core", !.asked = {}]
<1>1. /\ DOMAIN d = DOMAIN VimInit
      /\ ~d.up /\ d.keys = 0 /\ d.game = "none" /\ ~d.escape
  BY DisposeVimIsRight DEF KeysAreRight
<1>2. MountVim(v) \in {LoadScripts(u, {Core}), Resolved(w), w}
  BY DEF MountVim
<1> HIDE DEF d
<1>3. DOMAIN w = DOMAIN VimInit
  BY <1>1
<1>4. w.up /\ w.keys = 0 /\ w.game = "none" /\ ~w.escape
  BY <1>1 DEF VimInit
<1>5. KeysAreRight(w)
  BY <1>3, <1>4 DEF KeysAreRight, Keyed
<1> HIDE DEF w
<1>6. DOMAIN u = DOMAIN VimInit /\ SamePanel(w, u)
  BY <1>3 DEF SamePanel, VimInit
<1> HIDE DEF u
<1>7. SamePanel(u, LoadScripts(u, {Core})) /\ SamePanel(w, Resolved(w))
  BY <1>3, <1>6, EditorKeepsPanel, ResolvedKeepsPanel
<1>8. KeysAreRight(u)
  BY <1>5, <1>6, SamePanelIsRight
<1> QED
  BY <1>2, <1>5, <1>7, <1>8, SamePanelIsRight

LEMMA LaunchIsRight ==
  ASSUME NEW v, KeysAreRight(v), v.up, NEW g
  PROVE  KeysAreRight(LaunchGame(v, g)) /\ KeysAreRight(ReturnToEditor(v))
<1> DEFINE d == DisposeGame(v)
           w == LaunchGame(v, g)
           u == ReturnToEditor(v)
<1>1. DOMAIN d = DOMAIN VimInit /\ d.keys = 0 /\ d.game = "none" /\ d.up
  BY DEF KeysAreRight, DisposeGame, VimInit, Keyed
<1>2. /\ w = [d EXCEPT !.game = g, !.escape = TRUE, !.keys = IF g \in Keyed THEN @ + 1 ELSE @]
      /\ u = [d EXCEPT !.escape = FALSE]
  BY DEF LaunchGame, ReturnToEditor
<1> HIDE DEF d, w, u
<1>3. DOMAIN w = DOMAIN VimInit /\ DOMAIN u = DOMAIN VimInit
  BY <1>1, <1>2
<1>4. w.game = g /\ w.keys = (IF g \in Keyed THEN 1 ELSE 0) /\ u.keys = 0 /\ u.game = "none"
  BY <1>1, <1>2 DEF VimInit
<1>5. w.escape /\ w.up /\ ~u.escape
  BY <1>1, <1>2 DEF VimInit
<1>6. KeysAreRight(w) /\ KeysAreRight(u)
  BY <1>3, <1>4, <1>5 DEF KeysAreRight, Keyed
<1> QED
  BY <1>6 DEF w, u

(* The document is either one that has nothing to do with the Vim page, or   *)
(* one opened there, whose other page is the menu: nothing else can mount    *)
(* itself over a Vim page that is up.                                        *)
Elsewhere(cs) == \A c \in BagToSet(cs) : c.page # Vim
NearVim(cs) == \A c \in BagToSet(cs) : c.page \in {Vim, Secret} /\ c.stage \in {"chunk", "menu"}

NoVim ==
  /\ vim = VimInit /\ Vim \notin fetched
  /\ \A k \in DOMAIN entries : entries[k] # Vim
  /\ Elsewhere(calls)
VimDocument ==
  /\ \A k \in DOMAIN entries : entries[k] \in {Vim, Secret}
  /\ NearVim(calls) /\ late = {}
  /\ app \in Seq({Vim, Secret})
  /\ KeysAreRight(vim)
  /\ vim.up => Vim \in fetched /\ \E k \in DOMAIN app : app[k] = Vim

\* The addresses a document can ever be at.
Addresses == Entry \cup {Home, Secret, Room}

SiteInv ==
  /\ entries \in Seq(Addresses) /\ at \in 1..Len(entries)
  /\ BoardInv(board)
  /\ NoVim \/ VimDocument

LEMMA SiteKeepsKeys == ASSUME SiteInv PROVE KeysComeBack
<1>1. CASE NoVim
  BY <1>1 DEF NoVim, VimInit, KeysComeBack, Keyed
<1>2. CASE VimDocument
  <2>1. vim.up => Vim \in Range(app)
    BY <1>2 DEF VimDocument, Range
  <2> QED
    BY <1>2, <2>1 DEF VimDocument, KeysAreRight, KeysComeBack
<1> QED
  BY <1>1, <1>2 DEF SiteInv

LEMMA PageNames ==
  /\ Vim \notin {Home, Secret, Live, Room, Admin, Login, Missing} \cup Gated
  /\ Secret \notin {Home, Live, Room, Admin, Login, Missing} \cup Gated
  /\ Home # Missing /\ Login \notin {Home, Missing}
  /\ Home \notin Gated /\ Login \notin Gated /\ Missing \notin Gated
<1>1. Vim \notin {Home, Secret, Live, Room, Admin, Login, Missing} \cup Gated
  BY DEF Home, Secret, Vim, Live, Room, Admin, Login, Missing, Gated
<1>2. Secret \notin {Home, Live, Room, Admin, Login, Missing} \cup Gated
  BY DEF Home, Secret, Vim, Live, Room, Admin, Login, Missing, Gated
<1>3. Home # Missing /\ Login \notin {Home, Missing}
  BY DEF Home, Missing, Login
<1>4. Home \notin Gated /\ Login \notin Gated /\ Missing \notin Gated
  BY DEF Home, Live, Room, Admin, Login, Missing, Gated
<1> QED
  BY <1>1, <1>2, <1>3, <1>4

\* What a page's address makes of the document, case by case.
LEMMA RenderCases ==
  ASSUME NEW es, NEW i, NEW cs, RenderPage(es, i, cs),
         NEW b, b = Teardown(es[i], board, vim).board,
         NEW v, v = Teardown(es[i], board, vim).vim
  PROVE  /\ es[i] \in {Home, Missing} => Becomes(HomeShown(cs, b, v))
         /\ es[i] = Login => Becomes(RenderRoute(Secret, fetched, cs, <<>>, b, v))
         /\ es[i] \in Gated => Becomes([calls |-> Plus(cs, es[i], "gate"), app |-> <<>>,
                                        board |-> b, vim |-> v])
         /\ es[i] \notin {Home, Missing, Login} \cup Gated =>
              Becomes(RenderRoute(es[i], fetched, cs, <<>>, b, v))
<1> DEFINE page == es[i]
           gate == [calls |-> Plus(cs, page, "gate"), app |-> <<>>, board |-> b, vim |-> v]
           r == CASE page \in {Home, Missing} -> HomeShown(cs, b, v)
                  [] page = Login -> RenderRoute(Secret, fetched, cs, <<>>, b, v)
                  [] page \in Gated -> gate
                  [] OTHER -> RenderRoute(page, fetched, cs, <<>>, b, v)
<1>1. Becomes(r)
  BY DEF RenderPage
<1> HIDE DEF gate
<1>2. page \in {Home, Missing} => r = HomeShown(cs, b, v)
  BY PageNames
<1>3. page = Login => r = RenderRoute(Secret, fetched, cs, <<>>, b, v)
  BY PageNames
<1>4. page \in Gated => r = gate
  BY PageNames
<1>5. page \notin {Home, Missing, Login} \cup Gated => r = RenderRoute(page, fetched, cs, <<>>, b, v)
  OBVIOUS
<1> HIDE DEF r
<1> QED
  BY <1>1, <1>2, <1>3, <1>4, <1>5 DEF gate

\* Only the front page's own mount and the teardown touch the board.
LEMMA RenderKeepsBoard ==
  ASSUME NEW p, NEW have, NEW cs, NEW dom, NEW b, NEW v
  PROVE  RenderRoute(p, have, cs, dom, b, v).board = b /\ Mounted(p, cs, dom, b, v).board = b
<1>1. Mounted(p, cs, dom, b, v).board = b
  BY DEF Mounted
<1> QED
  BY <1>1 DEF RenderRoute

LEMMA RenderBoard ==
  ASSUME BoardInv(board), FreeSlots(board) # {}, NEW es, NEW i, NEW cs, RenderPage(es, i, cs)
  PROVE  BoardInv(board')
<1> DEFINE page == es[i]
           t == Teardown(page, board, vim)
<1>1. t.board \in {board, HideGame(board)}
  BY DEF Teardown
<1>2. BoardInv(t.board) /\ FreeSlots(t.board) # {}
  BY <1>1, HideGameIsRight
<1>3. BoardInv(Mount(t.board))
  BY <1>2, MountPageIsRight
<1>4. board' \in {t.board, Mount(t.board)}
  <2>1. CASE page \in {Home, Missing}
    BY <2>1, RenderCases DEF Becomes, HomeShown
  <2>2. CASE page = Login
    BY <2>2, RenderCases, RenderKeepsBoard DEF Becomes
  <2>3. CASE page \in Gated
    BY <2>3, RenderCases DEF Becomes
  <2>4. CASE page \notin {Home, Missing, Login} \cup Gated
    BY <2>4, RenderCases, RenderKeepsBoard DEF Becomes
  <2> QED
    BY <2>1, <2>2, <2>3, <2>4
<1> QED
  BY <1>2, <1>3, <1>4

\* What a render of a page makes of a document without a Vim page.
LEMMA RenderNoVim ==
  ASSUME NEW p, p # Vim, NEW cs, Elsewhere(cs), NEW have, NEW dom, NEW b
  PROVE  /\ RenderRoute(p, have, cs, dom, b, VimInit).vim = VimInit
         /\ Elsewhere(RenderRoute(p, have, cs, dom, b, VimInit).calls)
         /\ Mounted(p, cs, dom, b, VimInit).vim = VimInit
         /\ Elsewhere(Mounted(p, cs, dom, b, VimInit).calls)
<1>1. \A s : Elsewhere(Plus(cs, p, s))
  BY CallJoins DEF Elsewhere
<1>2. /\ Mounted(p, cs, dom, b, VimInit).vim = VimInit
      /\ Elsewhere(Mounted(p, cs, dom, b, VimInit).calls)
  BY <1>1 DEF Mounted
<1> QED
  BY <1>1, <1>2 DEF RenderRoute

LEMMA LeavesNoVim ==
  ASSUME NoVim, NEW es, NEW i \in DOMAIN es, NEW cs, Elsewhere(cs), RenderPage(es, i, cs),
         es \in Seq(Addresses), \A k \in DOMAIN es : es[k] # Vim
  PROVE  NoVim'
<1> DEFINE page == es[i]
           t == Teardown(page, board, vim)
<1>1. t.vim = VimInit /\ fetched' = fetched /\ page # Vim
  BY DEF Teardown, NoVim, RenderPage
<1>2. \A s : Elsewhere(Plus(cs, page, s)) /\ Elsewhere(Plus(cs, Secret, s))
  BY <1>1, PageNames, CallJoins DEF Elsewhere
<1>3. vim' = VimInit /\ Elsewhere(calls')
  <2>1. CASE page \in {Home, Missing}
    BY <1>1, <2>1, RenderCases DEF Becomes, HomeShown
  <2>2. CASE page = Login
    BY <1>1, <2>2, PageNames, RenderCases, RenderNoVim DEF Becomes
  <2>3. CASE page \in Gated
    BY <1>1, <1>2, <2>3, RenderCases DEF Becomes
  <2>4. CASE page \notin {Home, Missing, Login} \cup Gated
    BY <1>1, <2>4, RenderCases, RenderNoVim DEF Becomes
  <2> QED
    BY <2>1, <2>2, <2>3, <2>4
<1>4. \A k \in DOMAIN entries' : entries'[k] # Vim
  <2>1. CASE page = Login
    BY <2>1, PageNames DEF RenderPage
  <2>2. CASE page = Missing
    <3>1. entries' = Append(SubSeq(es, 1, i), Home)
      BY <2>2, PageNames DEF RenderPage
    <3>2. SubSeq(es, 1, i) \in Seq(Addresses) /\ Len(SubSeq(es, 1, i)) = i
      OBVIOUS
    <3>3. \A k \in 1..i : SubSeq(es, 1, i)[k] = es[k]
      OBVIOUS
    <3>4. Home \in Addresses
      BY DEF Addresses
    <3>5. \A k \in 1..i + 1 : entries'[k] = (IF k \in 1..i THEN es[k] ELSE Home)
      BY <3>1, <3>2, <3>3, <3>4
    <3>6. DOMAIN entries' = 1..i + 1
      BY <3>1, <3>2, <3>4
    <3> QED
      BY <3>5, <3>6, PageNames
  <2>3. CASE page \notin {Login, Missing}
    BY <2>3 DEF RenderPage
  <2> QED
    BY <2>1, <2>2, <2>3
<1> QED
  BY <1>1, <1>3, <1>4 DEF NoVim

\* The history stays one, of addresses of the site, and the place in it.
LEMMA LeavesHistory ==
  ASSUME NEW es \in Seq(Addresses), NEW i \in 1..Len(es), NEW cs, RenderPage(es, i, cs)
  PROVE  entries' \in Seq(Addresses) /\ at' \in 1..Len(entries')
<1>1. CASE es[i] = Login
  <2>1. Secret \in Addresses
    BY DEF Addresses
  <2>2. entries' = [es EXCEPT ![i] = Secret] /\ at' = i
    BY <1>1, PageNames DEF RenderPage
  <2> QED
    BY <2>1, <2>2
<1>2. CASE es[i] = Missing
  <2>1. entries' = Append(SubSeq(es, 1, i), Home) /\ at' = i + 1
    BY <1>2, PageNames DEF RenderPage
  <2>2. SubSeq(es, 1, i) \in Seq(Addresses) /\ Len(SubSeq(es, 1, i)) = i
    OBVIOUS
  <2>3. Home \in Addresses
    BY DEF Addresses
  <2> QED
    BY <2>1, <2>2, <2>3
<1>3. CASE es[i] \notin {Login, Missing}
  BY <1>3 DEF RenderPage
<1> QED
  BY <1>1, <1>2, <1>3

LEMMA NearVimJoins ==
  ASSUME NEW cs, NearVim(cs), NEW p \in {Vim, Secret}, NEW stage \in {"chunk", "menu"}
  PROVE  NearVim(Plus(cs, p, stage))
BY CallJoins DEF NearVim

\* A document opened at the Vim page: either page is up, or being fetched.
LEMMA LeavesVimDocument ==
  ASSUME VimDocument, NEW es \in Seq(Addresses), NEW i \in 1..Len(es), NEW cs, NearVim(cs),
         RenderPage(es, i, cs), late' \subseteq late,
         \A k \in DOMAIN es : es[k] \in {Vim, Secret}
  PROVE  VimDocument'
<1> DEFINE page == es[i]
           b == Teardown(page, board, vim).board
           v == Teardown(page, board, vim).vim
<1>1. page \in {Vim, Secret}
  OBVIOUS
<1>2. page \notin {Home, Missing, Login} \cup Gated /\ Vim # Secret
  BY <1>1, PageNames
<1>3. Becomes(RenderRoute(page, fetched, cs, <<>>, b, v))
  BY <1>2, RenderCases
<1>4. entries' = es /\ fetched' = fetched /\ late' = {}
  BY <1>2 DEF RenderPage, VimDocument
<1>5. CASE page = Vim
  <2>1. v = vim
    BY <1>5 DEF Teardown
  <2>2. CASE Vim \in fetched
    <3>1. /\ calls' = cs /\ app' = <<Vim>> /\ vim' = MountVim(vim)
      BY <1>2, <1>3, <1>5, <2>1, <2>2 DEF Becomes, RenderRoute, Mounted
    <3>2. KeysAreRight(vim')
      BY <3>1, MountVimIsRight DEF VimDocument
    <3>3. app' \in Seq({Vim, Secret}) /\ app'[1] = Vim /\ 1 \in DOMAIN app'
      BY <3>1
    <3> QED
      BY <1>4, <2>2, <3>1, <3>2, <3>3 DEF VimDocument
  <2>3. CASE Vim \notin fetched
    <3>1. /\ calls' = Plus(cs, Vim, "chunk") /\ app' = <<>> /\ vim' = vim
      BY <1>3, <1>5, <2>1, <2>3 DEF Becomes, RenderRoute
    <3>2. NearVim(calls') /\ app' \in Seq({Vim, Secret}) /\ ~vim.up
      BY <2>3, <3>1, NearVimJoins DEF VimDocument
    <3> QED
      BY <1>4, <3>1, <3>2 DEF VimDocument
  <2> QED
    BY <2>2, <2>3
<1>6. CASE page = Secret
  <2>1. v = IF Vim \in fetched THEN DisposeVim(vim) ELSE vim
    BY <1>2, <1>6 DEF Teardown
  <2>2. KeysAreRight(v) /\ ~v.up
    BY <2>1, DisposeVimIsRight DEF VimDocument
  <2>3. vim' = v /\ app' = <<>> /\ \E s \in {"chunk", "menu"} : calls' = Plus(cs, Secret, s)
    BY <1>3, <1>6 DEF Becomes, RenderRoute, Mounted
  <2> HIDE DEF v
  <2>4. NearVim(calls') /\ app' \in Seq({Vim, Secret})
    BY <2>3, NearVimJoins
  <2> QED
    BY <1>4, <2>2, <2>3, <2>4 DEF VimDocument
<1> QED
  BY <1>1, <1>5, <1>6

\* A render of the page at place i of a history, in either kind of document.
LEMMA RenderGoesOn ==
  ASSUME SiteInv, FreeSlots(board) # {}, NEW es \in Seq(Addresses), NEW i \in 1..Len(es), NEW cs,
         RenderPage(es, i, cs), late' \subseteq late,
         NoVim => (\A k \in DOMAIN es : es[k] # Vim) /\ Elsewhere(cs),
         VimDocument => (\A k \in DOMAIN es : es[k] \in {Vim, Secret}) /\ NearVim(cs)
  PROVE  SiteInv'
<1>1. entries' \in Seq(Addresses) /\ at' \in 1..Len(entries')
  BY LeavesHistory
<1>2. BoardInv(board')
  BY RenderBoard DEF SiteInv
<1>3. CASE NoVim
  BY <1>1, <1>2, <1>3, LeavesNoVim DEF SiteInv
<1>4. CASE VimDocument
  BY <1>1, <1>2, <1>4, LeavesVimDocument DEF SiteInv
<1> QED
  BY <1>3, <1>4 DEF SiteInv

LEMMA NavigateGoesOn ==
  ASSUME SiteInv, FreeSlots(board) # {}, NEW p \in {Secret, Room}, VimDocument => p = Secret,
         NEW cs, BagToSet(cs) \subseteq BagToSet(calls), Navigate(p, cs), late' \subseteq late
  PROVE  SiteInv'
<1>1. /\ NoVim => Elsewhere(cs)
      /\ VimDocument => NearVim(cs)
  BY DEF NoVim, VimDocument, Elsewhere, NearVim
<1>2. CASE p = Address
  <2>1. calls' = cs /\ UNCHANGED <<entries, at, fetched, app, board, vim>>
    BY <1>2 DEF Navigate
  <2>2. NoVim => NoVim'
    BY <1>1, <2>1 DEF NoVim
  <2>3. VimDocument => VimDocument'
    BY <1>1, <2>1 DEF VimDocument
  <2> QED
    BY <2>1, <2>2, <2>3 DEF SiteInv
<1>3. CASE p # Address
  <2> DEFINE es == Append(SubSeq(entries, 1, at), p)
  <2>1. RenderPage(es, at + 1, cs)
    BY <1>3 DEF Navigate
  <2>2. entries \in Seq(Addresses) /\ at \in 1..Len(entries) /\ p \in Addresses
    BY DEF SiteInv, Addresses
  <2>3. SubSeq(entries, 1, at) \in Seq(Addresses) /\ Len(SubSeq(entries, 1, at)) = at
    BY <2>2
  <2>4. \A k \in 1..at : SubSeq(entries, 1, at)[k] = entries[k]
    BY <2>2
  <2>5. /\ es \in Seq(Addresses) /\ Len(es) = at + 1 /\ DOMAIN es = 1..at + 1
        /\ \A k \in 1..at + 1 : es[k] = (IF k \in 1..at THEN entries[k] ELSE p)
    BY <2>2, <2>3, <2>4
  <2>6. at + 1 \in 1..Len(es) /\ 1..at \subseteq DOMAIN entries
    BY <2>2, <2>5
  <2> HIDE DEF es
  <2>7. p # Vim
    BY PageNames
  <2>8. NoVim => \A k \in DOMAIN es : es[k] # Vim
    BY <2>5, <2>6, <2>7 DEF NoVim
  <2>9. VimDocument => \A k \in DOMAIN es : es[k] \in {Vim, Secret}
    BY <2>5, <2>6 DEF VimDocument
  <2> QED
    BY <1>1, <2>1, <2>5, <2>6, <2>8, <2>9, RenderGoesOn
<1> QED
  BY <1>2, <1>3

\* What leaves the router and the Vim page alone, and the board in order.
LEMMA BoardStepGoesOn ==
  ASSUME SiteInv, UNCHANGED router, UNCHANGED vim, BoardInv(board')
  PROVE  SiteInv'
<1>1. NoVim => NoVim'
  BY DEF NoVim, router
<1>2. VimDocument => VimDocument'
  BY DEF VimDocument, router
<1> QED
  BY <1>1, <1>2 DEF SiteInv, router

\* What the Vim page does is done in a document of its own.
LEMMA VimStepGoesOn ==
  ASSUME SiteInv, ~NoVim, UNCHANGED router, UNCHANGED board,
         KeysAreRight(vim'), vim'.up => vim.up
  PROVE  SiteInv'
<1>1. VimDocument'
  BY DEF SiteInv, VimDocument, router
<1> QED
  BY <1>1 DEF SiteInv, router

LEMMA SiteStarts == ASSUME Init PROVE SiteInv
<1>1. PICK p \in Entry :
        LET first == IF p = Missing THEN <<p, Home>> ELSE <<IF p = Login THEN Secret ELSE p>>
            r == CASE p \in {Home, Missing} -> HomeShown(EmptyBag, BoardInit, VimInit)
                   [] p \in Gated -> [calls |-> Plus(EmptyBag, p, "gate"), app |-> <<>>,
                                      board |-> BoardInit, vim |-> VimInit]
                   [] OTHER -> RenderRoute(IF p = Login THEN Secret ELSE p, {}, EmptyBag, <<>>,
                                           BoardInit, VimInit) IN
        /\ entries = first /\ at = Len(first) /\ fetched = {}
        /\ calls = r.calls /\ app = r.app /\ board = r.board /\ vim = r.vim
        /\ health = "asked" /\ late = {}
  BY DEF Init
<1> DEFINE q == IF p = Login THEN Secret ELSE p
           home == HomeShown(EmptyBag, BoardInit, VimInit)
           gate == [calls |-> Plus(EmptyBag, p, "gate"), app |-> <<>>,
                    board |-> BoardInit, vim |-> VimInit]
           route0 == RenderRoute(q, {}, EmptyBag, <<>>, BoardInit, VimInit)
           r == CASE p \in {Home, Missing} -> home [] p \in Gated -> gate [] OTHER -> route0
<1>2. /\ calls = r.calls /\ app = r.app /\ board = r.board /\ vim = r.vim
      /\ fetched = {} /\ late = {}
      /\ entries = (IF p = Missing THEN <<p, Home>> ELSE <<q>>) /\ at = Len(entries)
  BY <1>1
<1>3. home = [calls |-> EmptyBag, app |-> <<Home>>, board |-> Mount(BoardInit), vim |-> VimInit]
  BY DEF HomeShown
<1>4. route0 = [calls |-> Plus(EmptyBag, q, "chunk"), app |-> <<>>, board |-> BoardInit,
                vim |-> VimInit]
  BY DEF RenderRoute
<1>5. /\ p \in {Home, Missing} => r = home
      /\ p \in Gated => r = gate
      /\ p \notin {Home, Missing} \cup Gated => r = route0
  BY PageNames
<1> HIDE DEF r
<1>6. vim = VimInit
  BY <1>2, <1>3, <1>4, <1>5
<1>7. BoardInv(board)
  <2>1. board \in {BoardInit, Mount(BoardInit)}
    BY <1>2, <1>3, <1>4, <1>5
  <2> QED
    BY <2>1, BoardInitIsRight, MountPageIsRight
<1>8. entries \in Seq(Addresses) /\ at \in 1..Len(entries)
  <2>1. p \in Addresses /\ q \in Addresses /\ Home \in Addresses
    BY DEF Addresses
  <2>2. <<p, Home>> \in Seq(Addresses) /\ <<q>> \in Seq(Addresses)
    BY <2>1
  <2> QED
    BY <1>2, <2>2
<1>9. CASE p = Vim
  <2>1. q = Vim /\ entries = <<Vim>> /\ r = route0
    BY <1>2, <1>5, <1>9, PageNames
  <2>2. calls = Plus(EmptyBag, Vim, "chunk") /\ app = <<>>
    BY <1>2, <1>4, <2>1
  <2>3. NearVim(calls)
    <3>1. NearVim(EmptyBag)
      BY NoCalls DEF NearVim
    <3> QED
      BY <2>2, <3>1, NearVimJoins
  <2>4. KeysAreRight(VimInit) /\ ~VimInit.up
    BY DEF KeysAreRight, VimInit, Keyed
  <2>5. \A k \in DOMAIN entries : entries[k] \in {Vim, Secret}
    BY <2>1
  <2> QED
    BY <1>2, <1>6, <1>7, <1>8, <2>2, <2>3, <2>4, <2>5 DEF SiteInv, VimDocument
<1>10. CASE p # Vim
  <2>1. q # Vim /\ Home # Vim
    BY <1>10, PageNames
  <2>2. calls \in {EmptyBag, Plus(EmptyBag, p, "gate"), Plus(EmptyBag, q, "chunk")}
    BY <1>2, <1>3, <1>4, <1>5
  <2>3. Elsewhere(calls)
    <3>1. Elsewhere(EmptyBag)
      BY NoCalls DEF Elsewhere
    <3>2. Elsewhere(Plus(EmptyBag, p, "gate")) /\ Elsewhere(Plus(EmptyBag, q, "chunk"))
      BY <1>10, <2>1, <3>1, CallJoins DEF Elsewhere
    <3> QED
      BY <2>2, <3>1, <3>2
  <2>4. \A k \in DOMAIN entries : entries[k] # Vim
    BY <1>2, <1>10, <2>1
  <2> QED
    BY <1>2, <1>6, <1>7, <1>8, <2>3, <2>4 DEF SiteInv, NoVim
<1> QED
  BY <1>9, <1>10

\* The answers to a gate, a chunk that arrives and the menu that appears.
LEMMA AnswersGoOn ==
  ASSUME SiteInv, NEW c \in BagToSet(calls), NEW allowed \in BOOLEAN,
         ChunkArrives(c) \/ MenuAppears(c) \/ GateAnswers(c, allowed)
  PROVE  SiteInv'
<1>0. BagToSet(Minus(calls, c)) \subseteq BagToSet(calls)
  BY CallEnds
<1>1. /\ NoVim => Elsewhere(Minus(calls, c)) /\ c.page # Vim
      /\ VimDocument => NearVim(Minus(calls, c)) /\ c.page \in {Vim, Secret} /\ c.stage # "gate"
  BY <1>0 DEF NoVim, VimDocument, Elsewhere, NearVim
<1>2. CASE ChunkArrives(c)
  <2>1. /\ fetched' = fetched \cup {c.page}
        /\ Becomes(Mounted(c.page, Minus(calls, c), app, board, vim))
        /\ UNCHANGED <<entries, at, late, health>>
    BY <1>2 DEF ChunkArrives
  <2>2. board' = board
    BY <2>1, RenderKeepsBoard DEF Becomes
  <2>3. CASE NoVim
    <3>1. vim' = VimInit /\ Elsewhere(calls')
      BY <1>1, <2>1, <2>3, RenderNoVim DEF Becomes, NoVim
    <3> QED
      BY <1>1, <2>1, <2>2, <2>3, <3>1 DEF NoVim, SiteInv
  <2>4. CASE VimDocument
    <3>1. CASE c.page = Vim
      <4>1. calls' = Minus(calls, c) /\ app' = <<Vim>> /\ vim' = MountVim(vim)
        BY <2>1, <3>1, PageNames DEF Becomes, Mounted
      <4>2. KeysAreRight(vim') /\ Vim \in fetched'
        BY <2>1, <2>4, <3>1, <4>1, MountVimIsRight DEF VimDocument
      <4>3. app' \in Seq({Vim, Secret}) /\ app'[1] = Vim /\ 1 \in DOMAIN app'
        BY <4>1
      <4> QED
        BY <1>1, <2>1, <2>2, <2>4, <4>1, <4>2, <4>3 DEF VimDocument, SiteInv
    <3>2. CASE c.page = Secret
      <4>1. calls' = Plus(Minus(calls, c), Secret, "menu") /\ app' = app /\ vim' = vim
        BY <2>1, <3>2 DEF Becomes, Mounted
      <4>2. NearVim(calls')
        BY <1>1, <2>4, <4>1, NearVimJoins
      <4> QED
        BY <2>1, <2>2, <2>4, <4>1, <4>2 DEF VimDocument, SiteInv
    <3> QED
      BY <1>1, <2>4, <3>1, <3>2
  <2> QED
    BY <2>3, <2>4 DEF SiteInv
<1>3. CASE MenuAppears(c)
  <2>1. /\ calls' = Minus(calls, c) /\ app' = Append(app, Secret)
        /\ UNCHANGED <<entries, at, fetched, late, health, board, vim>>
    BY <1>3 DEF MenuAppears
  <2>2. NoVim => NoVim'
    BY <1>1, <2>1 DEF NoVim
  <2>3. ASSUME VimDocument PROVE VimDocument'
    <3>1. app \in Seq({Vim, Secret}) /\ app' \in Seq({Vim, Secret})
      BY <2>1, <2>3 DEF VimDocument
    <3>2. \A k \in DOMAIN app : k \in DOMAIN app' /\ app'[k] = app[k]
      BY <2>1, <3>1
    <3> QED
      BY <1>1, <2>1, <2>3, <3>1, <3>2 DEF VimDocument
  <2> QED
    BY <2>1, <2>2, <2>3 DEF SiteInv
<1>4. CASE GateAnswers(c, allowed)
  <2>1. ~VimDocument /\ NoVim /\ UNCHANGED late
    BY <1>1, <1>4 DEF GateAnswers, SiteInv
  <2>2. CASE ~allowed
    <3>1. Navigate(Secret, Minus(calls, c)) /\ FreeSlots(board) # {}
      BY <1>4, <2>2 DEF GateAnswers, Bounded, Roomy
    <3> QED
      BY <1>0, <2>1, <3>1, NavigateGoesOn
  <2>3. CASE allowed /\ Address # c.page
    <3>1. calls' = Minus(calls, c) /\ UNCHANGED <<entries, at, fetched, app, board, vim>>
      BY <1>4, <2>3 DEF GateAnswers
    <3> QED
      BY <1>1, <2>1, <3>1 DEF NoVim, SiteInv
  <2>4. CASE allowed /\ Address = c.page
    <3>1. /\ UNCHANGED <<entries, at, fetched>>
          /\ Becomes(RenderRoute(c.page, fetched, Minus(calls, c), app, board, vim))
      BY <1>4, <2>4 DEF GateAnswers
    <3>2. board' = board
      BY <3>1, RenderKeepsBoard DEF Becomes
    <3>3. vim' = VimInit /\ Elsewhere(calls')
      BY <1>1, <2>1, <3>1, RenderNoVim DEF Becomes, NoVim
    <3> QED
      BY <2>1, <3>1, <3>2, <3>3 DEF NoVim, SiteInv
  <2> QED
    BY <2>2, <2>3, <2>4
<1> QED
  BY <1>2, <1>3, <1>4

LEMMA ToMenuGoesOn == ASSUME SiteInv, GoToMenu PROVE SiteInv'
<1>1. Navigate(Secret, calls) /\ FreeSlots(board) # {} /\ late' = late
  BY DEF GoToMenu, Bounded, Roomy
<1> QED
  BY <1>1, NavigateGoesOn

LEMMA BoardGoesOnInSite == ASSUME SiteInv, BoardNext PROVE SiteInv'
<1>0. BoardInv(board)
  BY DEF SiteInv
<1>1. ASSUME NEW b, BoardStep(b), BoardInv(b) PROVE SiteInv'
  BY <1>1, BoardStepGoesOn DEF BoardStep
<1>2. ASSUME NEW s \in 1..Slots, DrawFrame(s) PROVE SiteInv'
  BY <1>0, <1>1, <1>2, FrameIsRight DEF DrawFrame
<1>3. ASSUME NEW s \in 1..Slots, NEW ok \in BOOLEAN, GameLoads(s, ok) PROVE SiteInv'
  BY <1>0, <1>1, <1>3, GameLoadedIsRight DEF GameLoads
<1>4. ASSUME NEW ok \in BOOLEAN, HealthAnswers(ok) PROVE SiteInv'
  BY <1>0, <1>4, BoardStepGoesOn DEF HealthAnswers
<1>5. CASE TogglePower
  BY <1>0, <1>1, <1>5, PowerIsRight DEF TogglePower
<1>6. CASE ClickIsGivenBack
  BY <1>0, <1>1, <1>6, GiveBackIsRight DEF ClickIsGivenBack
<1>7. CASE ClicksTheGround
  <2>1. CASE Leads(board)
    BY <1>7, <2>1, ToMenuGoesOn DEF ClicksTheGround, Counts
  <2>2. CASE ~Leads(board)
    BY <1>0, <1>1, <1>7, <2>2, CountIsRight DEF ClicksTheGround, Counts
  <2> QED
    BY <2>1, <2>2
<1>8. CASE Escapes \/ SecretButton
  BY <1>8, ToMenuGoesOn DEF Escapes, SecretButton
<1>9. ASSUME NEW p \in Pointers, NEW hidden \in BOOLEAN, Releases(p, hidden) PROVE SiteInv'
  BY <1>0, <1>1, <1>9, EndStrokeIsRight, MissReleaseIsRight DEF Releases
<1>10. ASSUME NEW p \in Pointers, NEW far \in BOOLEAN, Moves(p, far) PROVE SiteInv'
  BY <1>0, <1>1, <1>10, PointerMoveIsRight DEF Moves
<1>11. ASSUME NEW p \in Pointers, NEW left \in BOOLEAN, NEW what, Presses(p, left, what)
       PROVE  SiteInv'
  BY <1>0, <1>1, <1>11, PointerDownIsRight DEF Presses
<1> QED
  BY <1>2, <1>3, <1>4, <1>5, <1>6, <1>7, <1>8, <1>9, <1>10, <1>11 DEF BoardNext

LEMMA VimGoesOn == ASSUME SiteInv, VimNext PROVE SiteInv'
<1>0. NoVim => vim = VimInit
  BY DEF NoVim
<1>1. ~NoVim => VimDocument
  BY DEF SiteInv
<1>2. ~NoVim => KeysAreRight(vim) /\ DOMAIN vim = DOMAIN VimInit
  BY <1>1 DEF VimDocument, KeysAreRight
<1>3. ASSUME NEW v, VimStep(v), ~NoVim, KeysAreRight(v), v.up => vim.up PROVE SiteInv'
  BY <1>3, VimStepGoesOn DEF VimStep
<1>4. ASSUME NEW v, VimStep(v), ~NoVim, SamePanel(vim, v) PROVE SiteInv'
  <2>1. KeysAreRight(v) /\ (v.up => vim.up)
    BY <1>2, <1>4, SamePanelIsRight DEF SamePanel
  <2> QED
    BY <1>3, <1>4, <2>1
<1>5. ASSUME Builds PROVE SiteInv'
  <2>1. ~NoVim
    BY <1>0, <1>5 DEF Builds, CanBuild, VimInit
  <2> QED
    BY <1>2, <1>4, <1>5, <2>1, BuildKeepsPanel DEF Builds
<1>6. ASSUME VimLive PROVE ~NoVim
  BY <1>0, <1>6 DEF VimLive, VimInit
<1>7. ASSUME Resets PROVE SiteInv'
  BY <1>2, <1>4, <1>6, <1>7, EditorKeepsPanel DEF Resets
<1>8. ASSUME LeavesGame PROVE SiteInv'
  <2>1. ~NoVim
    BY <1>0, <1>8 DEF LeavesGame, VimInit
  <2>2. vim.up
    BY <1>2, <1>8, <2>1 DEF LeavesGame, KeysAreRight
  <2> QED
    BY <1>2, <1>3, <1>8, <2>1, <2>2, LaunchIsRight DEF LeavesGame
<1>9. ASSUME Quits PROVE SiteInv'
  <2>1. Navigate(Secret, calls) /\ FreeSlots(board) # {} /\ late' = late
    BY <1>9 DEF Quits, Bounded, Roomy
  <2> QED
    BY <2>1, NavigateGoesOn
<1>10. ASSUME NEW s \in Scripts, NEW ok \in BOOLEAN, ScriptAnswers(s, ok) PROVE SiteInv'
  <2>1. ~NoVim
    BY <1>0, <1>10 DEF ScriptAnswers, VimInit
  <2> QED
    BY <1>2, <1>4, <1>10, <2>1, ScriptKeepsPanel DEF ScriptAnswers
<1>11. ASSUME NEW t \in BufferTexts, Types(t) PROVE SiteInv'
  BY <1>2, <1>4, <1>6, <1>11, EditorKeepsPanel DEF Types, Editing
<1>12. ASSUME NEW m, ChoosesMode(m) PROVE SiteInv'
  BY <1>2, <1>4, <1>6, <1>12, ModeKeepsPanel DEF ChoosesMode
<1>13. ASSUME NEW g, Launches(g) PROVE SiteInv'
  <2>1. vim.up /\ ~NoVim
    BY <1>6, <1>13 DEF Launches, VimLive
  <2> QED
    BY <1>2, <1>3, <1>13, <2>1, LaunchIsRight DEF Launches
<1> QED
  BY <1>5, <1>7, <1>8, <1>9, <1>10, <1>11, <1>12, <1>13 DEF VimNext

LEMMA SiteGoesOn == ASSUME SiteInv, Next PROVE SiteInv'
<1>1. ASSUME NEW i, PopState(i) PROVE SiteInv'
  <2>1. /\ RenderPage(entries, i, calls) /\ FreeSlots(board) # {} /\ late' = late
        /\ entries \in Seq(Addresses) /\ i \in 1..Len(entries)
    BY <1>1 DEF PopState, Roomy, SiteInv
  <2>2. /\ NoVim => (\A k \in DOMAIN entries : entries[k] # Vim) /\ Elsewhere(calls)
        /\ VimDocument => (\A k \in DOMAIN entries : entries[k] \in {Vim, Secret}) /\ NearVim(calls)
    BY DEF NoVim, VimDocument
  <2> QED
    BY <2>1, <2>2, RenderGoesOn
<1>2. ASSUME NEW c \in BagToSet(calls), ChunkArrives(c) \/ MenuAppears(c) PROVE SiteInv'
  BY <1>2, AnswersGoOn, TRUE \in BOOLEAN
<1>3. ASSUME NEW c \in BagToSet(calls), NEW allowed \in BOOLEAN, GateAnswers(c, allowed)
      PROVE  SiteInv'
  BY <1>3, AnswersGoOn
<1>4. CASE OpensRoom \/ LogsOut
  <2>1. /\ app = <<Live>> \/ app = <<Admin>>
        /\ UNCHANGED <<entries, at, fetched, calls, app, health, board, vim>>
    BY <1>4 DEF OpensRoom, LogsOut, Asks
  <2>2. ~VimDocument
    <3>1. app[1] \notin {Vim, Secret} /\ DOMAIN app = {1}
      BY <2>1, PageNames
    <3>2. VimDocument => app[1] \in {Vim, Secret}
      BY <3>1 DEF VimDocument
    <3> QED
      BY <3>1, <3>2
  <2> QED
    BY <2>1, <2>2 DEF SiteInv, NoVim
<1>5. ASSUME NEW p \in {Room, Secret}, Answered(p) PROVE SiteInv'
  <2>1. /\ p \in late /\ late' \subseteq late /\ Navigate(p, calls) /\ FreeSlots(board) # {}
    BY <1>5 DEF Answered, Bounded, Roomy
  <2>2. VimDocument => p = Secret
    BY <2>1 DEF VimDocument
  <2> QED
    BY <2>1, <2>2, NavigateGoesOn
<1> QED
  BY <1>1, <1>2, <1>3, <1>4, <1>5, BoardGoesOnInSite, VimGoesOn DEF Next
-----------------------------------------------------------------------------
(* The motions.  A motion goes to a flat index and back, so what counts is   *)
(* which indices are cells: those that are not blank, the first, the last.   *)

\* A set of numbers has a least one: of the intervals up to each of its members
\* none is strictly within all the others but one.
LEMMA LeastOf ==
  ASSUME NEW S \in SUBSET Nat, NEW n \in S
  PROVE  \E m \in S : \A k \in S : m <= k
<1> DEFINE T == {1..k : k \in S}
<1>1. T \subseteq FiniteSubsetsOf(Nat) /\ T # {}
  BY FS_Interval DEF FiniteSubsetsOf
<1>2. PICK x \in T : \A y \in T : <<y, x>> \notin StrictSubsetOrdering(Nat)
  BY <1>1, FS_StrictSubsetOrderingWellFounded, WFMin
<1>3. PICK m \in S : x = 1..m
  BY <1>2
<1>4. ASSUME NEW k \in S, k < m PROVE FALSE
  <2>1. 1..k \subseteq 1..m /\ m \in 1..m /\ m \notin 1..k
    BY <1>3, <1>4
  <2>2. 1..k \in T /\ 1..k \in SUBSET Nat /\ 1..m \in SUBSET Nat
    BY <1>3, <1>4
  <2> QED
    BY <1>2, <1>3, <2>1, <2>2 DEF StrictSubsetOrdering
<1> QED
  BY <1>4

\* A set that has 0, and with each number up to n the next, has them all.
LEMMA ByInduction ==
  ASSUME NEW n \in Nat, NEW P, 0 \in P, \A i \in 0..n - 1 : i \in P => i + 1 \in P
  PROVE  \A i \in 0..n : i \in P
<1> DEFINE Bad == {i \in 0..n : i \notin P}
<1>1. ASSUME NEW b \in Bad PROVE FALSE
  <2>1. Bad \in SUBSET Nat
    OBVIOUS
  <2>2. PICK m \in Bad : \A k \in Bad : m <= k
    BY <2>1, LeastOf
  <2>3. m # 0 /\ m - 1 \in 0..n - 1 /\ m - 1 \notin Bad
    BY <2>2
  <2>4. m - 1 \in P
    BY <2>3
  <2>5. m - 1 + 1 = m
    BY <2>2
  <2> QED
    BY <2>2, <2>3, <2>4, <2>5
<1> QED
  BY <1>1

LEMMA MinOf ==
  ASSUME NEW S \in SUBSET Nat, S # {}
  PROVE  Min(S) \in S /\ \A k \in S : Min(S) <= k
<1>1. \E m \in S : \A k \in S : m <= k
  BY LeastOf
<1> QED
  BY <1>1 DEF Min

LEMMA MaxOf ==
  ASSUME NEW n \in Nat, NEW S \in SUBSET (0..n), S # {}
  PROVE  Max(S) \in S /\ \A k \in S : Max(S) >= k
<1> DEFINE T == {n - k : k \in S}
<1>1. T \in SUBSET Nat /\ T # {}
  <2>1. \A k \in S : n - k \in Nat
    OBVIOUS
  <2> QED
    BY <2>1
<1>2. PICK m \in T : \A k \in T : m <= k
  <2> HIDE DEF T
  <2> QED
    BY <1>1, LeastOf
<1>3. PICK x \in S : m = n - x
  BY <1>2
<1>4. \A k \in S : x >= k
  BY <1>2, <1>3
<1> QED
  BY <1>4 DEF Max

\* A text: lines, none of them empty.
Text(ls) == /\ ls \in Seq(Seq(STRING)) /\ Len(ls) \in Nat \ {0}
            /\ \A l \in 1..Len(ls) : ls[l] \in Seq(STRING) /\ Len(ls[l]) \in Nat \ {0}

LEMMA InSeq ==
  ASSUME NEW S, NEW s \in Seq(S), s # <<>>
  PROVE  /\ Len(s) \in Nat \ {0} /\ DOMAIN s = 1..Len(s)
         /\ \A i \in 1..Len(s) : s[i] \in S
OBVIOUS

LEMMA LinesAreText ==
  ASSUME NEW r \in Nat \ {0}
  PROVE  Text(Buffers[((r - 1) % Len(Buffers)) + 1])
<1> DEFINE n == Len(Buffers)
           b == ((r - 1) % n) + 1
<1>1. /\ n \in Nat \ {0} /\ DOMAIN Buffers = 1..n
      /\ \A k \in 1..n : Buffers[k] \in Seq(Seq(STRING))
  BY MotionConstants, InSeq
<1>2. b \in 1..n
  <2>1. r - 1 \in Nat
    OBVIOUS
  <2> HIDE DEF n
  <2> QED
    BY <1>1, <2>1
<1> HIDE DEF b, n
<1>3. Buffers[b] \in Seq(Seq(STRING))
  BY <1>1, <1>2
<1>4. Buffers[b] # <<>> /\ \A l \in DOMAIN Buffers[b] : Buffers[b][l] # <<>>
  BY <1>1, <1>2, MotionConstants
<1>5. ASSUME NEW ls \in Seq(Seq(STRING)), ls # <<>>, \A l \in DOMAIN ls : ls[l] # <<>>
      PROVE  Text(ls)
  <2>1. /\ Len(ls) \in Nat \ {0} /\ DOMAIN ls = 1..Len(ls)
        /\ \A l \in 1..Len(ls) : ls[l] \in Seq(STRING)
    BY <1>5, InSeq
  <2>2. ASSUME NEW l \in 1..Len(ls) PROVE Len(ls[l]) \in Nat \ {0}
    BY <1>5, <2>1, InSeq
  <2> QED
    BY <1>5, <2>1, <2>2 DEF Text
<1> QED
  BY <1>3, <1>4, <1>5 DEF b, n

LEMMA FirstIsThere ==
  ASSUME NEW ls, Text(ls)
  PROVE  First \in UNION {[line : {l}, col : 1..Len(ls[l])] : l \in DOMAIN ls}
<1>1. 1 \in DOMAIN ls /\ 1 \in 1..Len(ls[1])
  BY DEF Text
<1>2. First \in [line : {1}, col : 1..Len(ls[1])]
  BY <1>1 DEF First
<1> QED
  BY <1>1, <1>2

(* Where the lines begin: the function LineStart is defined by is there.     *)

Starting(g) == g = [k \in DOMAIN Lines |-> IF k = 1 THEN 1
                                           ELSE g[k - 1] + Len(Lines[k - 1]) + 1]
StartsUpto(g, n) == /\ g = [k \in 1..n |-> g[k]] /\ g[1] = 1
                    /\ \A k \in 2..n : g[k] = g[k - 1] + Len(Lines[k - 1]) + 1

LEMMA StartingIs ==
  ASSUME NEW g, Text(Lines) PROVE Starting(g) <=> StartsUpto(g, Len(Lines))
<1> DEFINE n == Len(Lines)
           e(k) == IF k = 1 THEN 1 ELSE g[k - 1] + Len(Lines[k - 1]) + 1
<1>1. n \in Nat \ {0} /\ DOMAIN Lines = 1..n
  BY DEF Text
<1>2. e(1) = 1 /\ \A k \in 2..n : e(k) = g[k - 1] + Len(Lines[k - 1]) + 1
  OBVIOUS
<1>3. Starting(g) <=> g = [k \in 1..n |-> e(k)]
  BY <1>1 DEF Starting
<1> HIDE DEF e, n
<1>4. g = [k \in 1..n |-> e(k)] <=> g = [k \in 1..n |-> g[k]] /\ \A k \in 1..n : g[k] = e(k)
  OBVIOUS
<1>5. (\A k \in 1..n : g[k] = e(k)) <=> g[1] = e(1) /\ \A k \in 2..n : g[k] = e(k)
  BY <1>1
<1> QED
  BY <1>2, <1>3, <1>4, <1>5 DEF n, StartsUpto

LEMMA SomeStarting == ASSUME Text(Lines) PROVE \E g : Starting(g)
<1> DEFINE n == Len(Lines) - 1
           P == {k \in 0..n : \E g : StartsUpto(g, k + 1)}
<1>1. n \in Nat
  BY DEF Text
<1>2. 0 \in P
  <2>1. StartsUpto([k \in 1..0 + 1 |-> 1], 0 + 1)
    BY DEF StartsUpto
  <2> HIDE DEF n
  <2> QED
    BY <1>1, <2>1
<1>3. ASSUME NEW k \in 0..n - 1, k \in P PROVE k + 1 \in P
  <2>1. PICK g : StartsUpto(g, k + 1)
    BY <1>3
  <2> DEFINE m == k + 2
             h == [i \in 1..m |-> IF i = m THEN g[m - 1] + Len(Lines[m - 1]) + 1 ELSE g[i]]
  <2>2. k \in Nat /\ m - 1 = k + 1 /\ m \in Nat /\ 1..k + 1 = 1..m - 1
    BY <1>1
  <2>3. h = [i \in 1..m |-> h[i]] /\ h[1] = 1
    BY <2>1, <2>2 DEF StartsUpto
  <2>4. ASSUME NEW i \in 2..m PROVE h[i] = h[i - 1] + Len(Lines[i - 1]) + 1
    <3>1. CASE i = m
      BY <2>2, <3>1
    <3>2. CASE i # m
      <4>1. i \in 2..k + 1 /\ h[i] = g[i] /\ h[i - 1] = g[i - 1]
        BY <2>2, <3>2
      <4> HIDE DEF h
      <4> QED
        BY <2>1, <4>1 DEF StartsUpto
    <3> QED
      BY <3>1, <3>2
  <2>5. StartsUpto(h, m)
    <3> HIDE DEF h, m
    <3> QED
      BY <2>3, <2>4 DEF StartsUpto
  <2>6. k + 1 \in 0..n /\ (k + 1) + 1 = m
    BY <1>1
  <2> HIDE DEF h, m
  <2> QED
    BY <2>5, <2>6
<1>4. n \in P
  <2> HIDE DEF P, n
  <2>1. \A i \in 0..n : i \in P
    BY <1>1, <1>2, <1>3, ByInduction
  <2> QED
    BY <1>1, <2>1
<1>5. PICK g : StartsUpto(g, n + 1)
  BY <1>4
<1>6. n + 1 = Len(Lines)
  BY DEF Text
<1> QED
  BY <1>5, <1>6, StartingIs

LEMMA LineStartIs ==
  ASSUME Text(Lines)
  PROVE  /\ LineStart(1) = 1
         /\ \A k \in 2..Len(Lines) : LineStart(k) = LineStart(k - 1) + Len(Lines[k - 1]) + 1
<1>1. PICK g : g = CHOOSE h : Starting(h)
  OBVIOUS
<1>2. Starting(g)
  BY <1>1, SomeStarting
<1>3. \A l : LineStart(l) = g[l]
  BY <1>1 DEF LineStart, Starting
<1>4. StartsUpto(g, Len(Lines))
  BY <1>2, StartingIs
<1> QED
  BY <1>3, <1>4 DEF StartsUpto

\* A line begins after the end of each line before it.
LEMMA LinesAreApart ==
  ASSUME Text(Lines), NEW n \in 1..Len(Lines)
  PROVE  /\ LineStart(n) \in Nat \ {0}
         /\ \A k \in 1..n - 1 : LineStart(k) + Len(Lines[k]) + 1 <= LineStart(n)
<1> DEFINE Right(m) == /\ LineStart(m) \in Nat \ {0}
                       /\ \A k \in 1..m - 1 : LineStart(k) + Len(Lines[k]) + 1 <= LineStart(m)
           P == {i \in 0..n - 1 : \A m \in 1..i + 1 : Right(m)}
<1>1. n \in Nat \ {0} /\ n <= Len(Lines) /\ Len(Lines) \in Nat
  BY DEF Text
<1>2. \A k \in 1..n : Len(Lines[k]) \in Nat
  BY <1>1 DEF Text
<1>3. 0 \in P
  <2>1. \A m \in 1..0 + 1 : m = 1
    OBVIOUS
  <2>2. Right(1)
    BY LineStartIs
  <2> HIDE DEF Right
  <2> QED
    BY <1>1, <2>1, <2>2
<1>4. ASSUME NEW i \in 0..(n - 1) - 1, i \in P PROVE i + 1 \in P
  <2> DEFINE l == i + 1
  <2>1. l \in 1..n /\ l + 1 \in 2..Len(Lines) /\ (l + 1) - 1 = l
    BY <1>1
  <2>2. Right(l) /\ \A m \in 1..l : Right(m)
    BY <1>4, <2>1
  <2>3. LineStart(l + 1) = LineStart(l) + Len(Lines[l]) + 1
    BY <2>1, LineStartIs
  <2>4. Len(Lines[l]) \in Nat
    BY <1>2, <2>1
  <2>5. \A k \in 1..l - 1 : Right(k) /\ Len(Lines[k]) \in Nat
    BY <1>2, <2>1, <2>2
  <2>6. LineStart(l + 1) \in Nat \ {0}
    BY <2>2, <2>3, <2>4
  <2>7. ASSUME NEW k \in 1..(l + 1) - 1 PROVE LineStart(k) + Len(Lines[k]) + 1 <= LineStart(l + 1)
    <3>1. CASE k = l
      <4>1. LineStart(l) \in Nat
        BY <2>2
      <4> QED
        BY <2>3, <2>4, <3>1, <4>1
    <3>2. CASE k # l
      <4>1. k \in 1..l - 1
        BY <2>1, <3>2
      <4>2. LineStart(k) \in Nat /\ Len(Lines[k]) \in Nat /\ LineStart(l) \in Nat
        BY <2>2, <2>5, <4>1
      <4>3. LineStart(k) + Len(Lines[k]) + 1 <= LineStart(l)
        BY <2>2, <4>1
      <4> QED
        BY <2>3, <2>4, <4>2, <4>3
    <3> QED
      BY <3>1, <3>2
  <2>8. Right(l + 1)
    BY <2>6, <2>7
  <2>9. \A m \in 1..l + 1 : m \in 1..l \/ m = l + 1
    BY <2>1
  <2> HIDE DEF Right
  <2> QED
    BY <1>1, <2>1, <2>2, <2>8, <2>9
<1>5. n - 1 \in P
  <2> HIDE DEF P
  <2>1. \A i \in 0..n - 1 : i \in P
    <3>1. n - 1 \in Nat
      BY <1>1
    <3> QED
      BY <3>1, <1>3, <1>4, ByInduction
  <2> QED
    BY <1>1, <2>1
<1>6. Right(n)
  <2> HIDE DEF Right
  <2>1. n \in 1..(n - 1) + 1
    BY <1>1
  <2> QED
    BY <1>5, <2>1
<1> QED
  BY <1>6

(* Cells and flat indices.                                                   *)

LEMMA PlacesAre ==
  ASSUME Text(Lines), NEW p
  PROVE  p \in Places <=> /\ p = [line |-> p.line, col |-> p.col]
                          /\ p.line \in 1..Len(Lines) /\ p.col \in 1..Len(Lines[p.line])
<1>1. DOMAIN Lines = 1..Len(Lines)
  BY DEF Text
<1> QED
  BY <1>1 DEF Places

LEMMA CellsAreFlat ==
  ASSUME Text(Lines)
  PROVE  /\ FlatLen \in Nat \ {0}
         /\ \A p \in Places : FlatOf(p) \in 1..FlatLen
<1> DEFINE n == Len(Lines)
<1>1. n \in 1..n /\ Len(Lines[n]) \in Nat \ {0}
  BY DEF Text
<1>2. LineStart(n) \in Nat \ {0}
  BY <1>1, LinesAreApart
<1>3. FlatLen = LineStart(n) + Len(Lines[n]) - 1
  BY DEF FlatLen
<1> HIDE DEF n
<1>4. FlatLen \in Nat \ {0} /\ LineStart(n) <= FlatLen
  BY <1>1, <1>2, <1>3
<1>5. ASSUME NEW p \in Places PROVE FlatOf(p) \in 1..FlatLen
  <2>1. p.line \in 1..n /\ p.col \in 1..Len(Lines[p.line])
    BY PlacesAre DEF n
  <2>2. LineStart(p.line) \in Nat \ {0} /\ Len(Lines[p.line]) \in Nat
    BY <2>1, LinesAreApart DEF n, Text
  <2>3. FlatOf(p) = LineStart(p.line) + p.col - 1
    BY DEF FlatOf
  <2>4. CASE p.line = n
    BY <1>3, <1>4, <2>1, <2>2, <2>3, <2>4
  <2>5. CASE p.line # n
    <3>1. n \in Nat /\ p.line \in 1..n - 1
      BY <1>1, <2>1, <2>5
    <3>2. LineStart(p.line) + Len(Lines[p.line]) + 1 <= LineStart(n)
      BY <1>1, <3>1, LinesAreApart DEF n
    <3> QED
      BY <1>2, <1>4, <2>1, <2>2, <2>3, <3>2
  <2> QED
    BY <2>4, <2>5
<1> QED
  BY <1>4, <1>5

IsCell(i) == \E p \in Places : FlatOf(p) = i

LEMMA EndsAreCells == ASSUME Text(Lines) PROVE IsCell(1) /\ IsCell(FlatLen)
<1>1. First \in Places
  BY FirstIsThere DEF Places
<1>2. FlatOf(First) = 1
  BY LineStartIs DEF FlatOf, First
<1> DEFINE n == Len(Lines)
           p == [line |-> n, col |-> Len(Lines[n])]
<1>3. p \in Places
  <2>1. n \in 1..n /\ Len(Lines[n]) \in 1..Len(Lines[n])
    BY DEF Text
  <2> QED
    BY <2>1, PlacesAre
<1>4. FlatOf(p) = FlatLen
  BY DEF FlatOf, FlatLen
<1> QED
  BY <1>1, <1>2, <1>3, <1>4 DEF IsCell

LEMMA TypedAreCells == ASSUME NEW i, TypeAt(i) # "blank" PROVE IsCell(i)
BY DEF TypeAt, IsCell

LEMMA PosOfCell ==
  ASSUME NEW i, IsCell(i) PROVE PosOf(i) \in Places /\ FlatOf(PosOf(i)) = i
BY DEF IsCell, PosOf

LEMMA PosFromFlatIs ==
  ASSUME Text(Lines), NEW i \in 1..FlatLen
  PROVE  PosFromFlat(i) \in Places /\ (IsCell(i) => FlatOf(PosFromFlat(i)) = i)
<1> DEFINE S == {j \in 1..i : \E p \in Places : FlatOf(p) = j}
           m == Max(S)
<1>1. i \in Nat /\ 1 \in S /\ S \in SUBSET (0..i)
  BY CellsAreFlat, EndsAreCells DEF IsCell
<1>2. m \in S /\ \A k \in S : m >= k
  <2> HIDE DEF S
  <2> QED
    BY <1>1, MaxOf
<1>3. IsCell(m) /\ m \in 1..i
  BY <1>2 DEF IsCell
<1>4. PosFromFlat(i) = PosOf(m)
  BY DEF PosFromFlat
<1>5. IsCell(i) => m = i
  <2>1. ASSUME IsCell(i) PROVE i \in S
    BY <1>1, <2>1 DEF IsCell
  <2> HIDE DEF S, m
  <2> QED
    BY <1>1, <1>2, <1>3, <2>1
<1> HIDE DEF m
<1> QED
  BY <1>3, <1>4, <1>5, PosOfCell

(* Beginnings and ends of words and of runs of punctuation.                  *)

WordBegins == {j \in 1..FlatLen : TypeAt(j) # "blank" /\ (j > 1 => TypeAt(j - 1) # TypeAt(j))}
WordEnds == {j \in 1..FlatLen : TypeAt(j) # "blank" /\ (j < FlatLen => TypeAt(j + 1) # TypeAt(j))}

LEMMA SkipIs ==
  ASSUME FlatLen \in Nat \ {0}, NEW i \in 1..FlatLen + 1, NEW t
  PROVE  /\ Skip(i, t) \in i..FlatLen + 1
         /\ \A j \in i..Skip(i, t) - 1 : TypeAt(j) = t
         /\ Skip(i, t) = FlatLen + 1 \/ TypeAt(Skip(i, t)) # t
<1> DEFINE S == {j \in i..FlatLen + 1 : j = FlatLen + 1 \/ TypeAt(j) # t}
<1>1. S \in SUBSET Nat /\ FlatLen + 1 \in S
  OBVIOUS
<1>2. Skip(i, t) = Min(S)
  BY DEF Skip
<1>3. Skip(i, t) \in S /\ \A k \in S : Skip(i, t) <= k
  <2> HIDE DEF S
  <2> QED
    BY <1>1, <1>2, MinOf
<1>4. ASSUME NEW j \in i..Skip(i, t) - 1, TypeAt(j) # t PROVE FALSE
  <2>1. j \in S /\ j < Skip(i, t)
    BY <1>3, <1>4
  <2>2. Skip(i, t) <= j /\ Skip(i, t) \in Nat /\ j \in Nat
    BY <1>1, <1>3, <2>1
  <2> QED
    BY <2>1, <2>2
<1> QED
  BY <1>3, <1>4

\* The least of a set and a bound on it.
LEMMA LeastWith ==
  ASSUME NEW n \in Nat, NEW S \in SUBSET (0..n), NEW m \in S \cup {n}, \A k \in S : m <= k
  PROVE  Min({n} \cup S) = m
<1> DEFINE T == {n} \cup S
<1>1. T \in SUBSET Nat /\ T # {} /\ m \in T /\ \A k \in T : m <= k
  OBVIOUS
<1> HIDE DEF T
<1>2. Min(T) \in T /\ \A k \in T : Min(T) <= k
  BY <1>1, MinOf
<1>3. Min(T) <= m /\ m <= Min(T) /\ m \in Nat /\ Min(T) \in Nat
  BY <1>1, <1>2
<1> QED
  BY <1>3 DEF T

LEMMA GreatestWith ==
  ASSUME NEW n \in Nat, NEW S \in SUBSET (1..n), NEW m \in S \cup {1}, \A k \in S : k <= m
  PROVE  Max({1} \cup S) = m
<1> DEFINE T == {1} \cup S
           o == n + 1
<1>1. o \in Nat /\ T \in SUBSET (0..o) /\ T # {}
  OBVIOUS
<1>2. m \in T /\ m \in Nat /\ \A k \in T : k \in Nat /\ k <= m
  OBVIOUS
<1> HIDE DEF T, o
<1>3. Max(T) \in T /\ \A k \in T : Max(T) >= k
  BY <1>1, MaxOf
<1>4. Max(T) <= m /\ Max(T) >= m /\ Max(T) \in Nat
  BY <1>2, <1>3
<1>5. Max(T) = m
  BY <1>2, <1>4
<1> QED
  BY <1>5 DEF T

LEMMA LastPlaceIs ==
  ASSUME FlatLen \in Nat, NEW i \in Nat
  PROVE  LastPlace(i) = (IF i <= FlatLen THEN i ELSE FlatLen)
<1>1. {i, FlatLen} \in SUBSET Nat
  OBVIOUS
<1>2. Min({i, FlatLen}) \in {i, FlatLen} /\ Min({i, FlatLen}) <= i /\ Min({i, FlatLen}) <= FlatLen
  BY <1>1, MinOf
<1> QED
  BY <1>2 DEF LastPlace

LEMMA NextWordIs ==
  ASSUME Text(Lines), NEW i \in 1..FlatLen
  PROVE  /\ NextWord(i) = Min({FlatLen} \cup {j \in WordBegins : j > i})
         /\ NextWord(i) \in 1..FlatLen /\ IsCell(NextWord(i))
<1> DEFINE S == {j \in WordBegins : j > i}
<1>0. FlatLen \in Nat \ {0} /\ IsCell(FlatLen) /\ S \in SUBSET (0..FlatLen)
  BY CellsAreFlat, EndsAreCells DEF WordBegins
<1>1. CASE i >= FlatLen
  <2>1. NextWord(i) = FlatLen /\ S = {}
    BY <1>0, <1>1 DEF NextWord, WordBegins
  <2>2. Min({FlatLen} \cup S) = FlatLen
    <3> HIDE DEF S
    <3> QED
      BY <1>0, <2>1, LeastWith
  <2> QED
    BY <1>0, <2>1, <2>2
<1>2. CASE i < FlatLen
  <2> DEFINE t == TypeAt(i)
             s1 == IF t = "blank" THEN i ELSE Skip(i, t)
             s == Skip(s1, "blank")
  <2>1. /\ s1 \in i..FlatLen + 1
        /\ \A j \in i..s1 - 1 : TypeAt(j) = t
        /\ t # "blank" => s1 > i /\ (s1 = FlatLen + 1 \/ TypeAt(s1) # t)
    BY <1>0, SkipIs
  <2>2. NextWord(i) = LastPlace(s)
    BY <1>0, <1>2 DEF NextWord
  <2> HIDE DEF s1
  <2>3. /\ s \in s1..FlatLen + 1
        /\ \A j \in s1..s - 1 : TypeAt(j) = "blank"
        /\ s = FlatLen + 1 \/ TypeAt(s) # "blank"
    BY <1>0, <2>1, SkipIs
  <2> HIDE DEF s
  <2>4. s > i
    <3>1. CASE t = "blank"
      <4>1. s1 = i
        BY <3>1 DEF s1
      <4>2. s \in i..FlatLen + 1 /\ i \in Nat /\ FlatLen \in Nat
        BY <1>0, <2>3, <4>1
      <4>3. s # i
        BY <1>0, <1>2, <2>3, <3>1
      <4>4. s \in Int /\ s >= i
        BY <4>2
      <4> HIDE DEF t
      <4> QED
        BY <4>2, <4>3, <4>4
    <3>2. CASE t # "blank"
      BY <2>1, <2>3, <3>2
    <3> QED
      BY <3>1, <3>2
  <2>5. ASSUME NEW j \in i + 1..s - 1 PROVE j \notin S
    <3>1. CASE j < s1
      <4>1. j \in i..s1 - 1 /\ j - 1 \in i..s1 - 1 /\ j > 1
        BY <2>1, <2>5, <3>1
      <4>2. TypeAt(j) = TypeAt(j - 1)
        BY <2>1, <4>1
      <4> QED
        BY <4>1, <4>2 DEF WordBegins
    <3>2. CASE j >= s1
      <4>1. j \in s1..s - 1
        BY <2>1, <2>3, <2>5, <3>2
      <4> QED
        BY <2>3, <4>1 DEF WordBegins
    <3> QED
      BY <2>1, <2>5, <3>1, <3>2
  <2>6. \A k \in S : s <= k
    <3>1. ASSUME NEW k \in S, k < s PROVE FALSE
      <4>1. k \in i + 1..s - 1
        BY <1>0, <2>1, <2>3, <3>1
      <4> QED
        BY <2>5, <3>1, <4>1
    <3> QED
      BY <1>0, <2>1, <2>3, <3>1
  <2>7. CASE s = FlatLen + 1
    <3>1. NextWord(i) = FlatLen
      BY <1>0, <2>2, <2>7, LastPlaceIs
    <3>2. S = {}
      BY <1>0, <2>6, <2>7
    <3>3. Min({FlatLen} \cup S) = FlatLen
      <4> HIDE DEF S
      <4> QED
        BY <1>0, <3>2, LeastWith
    <3> QED
      BY <1>0, <3>1, <3>3
  <2>8. CASE s <= FlatLen
    <3>1. s \in 1..FlatLen /\ TypeAt(s) # "blank" /\ s \in Nat
      BY <1>0, <2>1, <2>3, <2>8
    <3>2. NextWord(i) = s
      BY <1>0, <2>2, <2>8, <3>1, LastPlaceIs
    <3>3. TypeAt(s - 1) # TypeAt(s)
      <4>1. CASE s > s1
        <5>1. s - 1 \in s1..s - 1
          BY <2>1, <2>3, <4>1
        <5> QED
          BY <2>3, <3>1, <5>1
      <4>2. CASE s = s1
        <5>1. t # "blank" /\ TypeAt(s1) # t
          BY <2>1, <2>4, <2>8, <1>0, <4>2 DEF s1
        <5>2. s1 - 1 \in i..s1 - 1
          BY <2>1, <2>4, <4>2
        <5> QED
          BY <2>1, <4>2, <5>1, <5>2
      <4> QED
        BY <2>1, <2>3, <4>1, <4>2
    <3>4. s \in S
      BY <2>4, <3>1, <3>3 DEF WordBegins
    <3>5. Min({FlatLen} \cup S) = s
      <4> HIDE DEF S
      <4> QED
        BY <1>0, <2>6, <3>4, LeastWith
    <3> QED
      BY <3>1, <3>2, <3>5, TypedAreCells
  <2> QED
    BY <1>0, <2>1, <2>3, <2>7, <2>8
<1> QED
  BY <1>0, <1>1, <1>2

LEMMA PrevWordIs ==
  ASSUME Text(Lines), NEW i \in 1..FlatLen
  PROVE  /\ PrevWord(i) = Max({1} \cup {j \in WordBegins : j < i})
         /\ PrevWord(i) \in 1..FlatLen /\ IsCell(PrevWord(i))
<1> DEFINE S == {j \in WordBegins : j < i}
<1>0. FlatLen \in Nat \ {0} /\ IsCell(1) /\ S \in SUBSET (1..FlatLen) /\ i \in Nat
  BY CellsAreFlat, EndsAreCells DEF WordBegins
<1>1. CASE i = 1
  <2>1. PrevWord(i) = 1 /\ S = {}
    BY <1>0, <1>1 DEF PrevWord, WordBegins
  <2>2. Max({1} \cup S) = 1
    <3> HIDE DEF S
    <3> QED
      BY <1>0, <2>1, GreatestWith
  <2> QED
    BY <1>0, <2>1, <2>2
<1>2. CASE i > 1
  <2> DEFINE A == {1} \cup {k \in 1..i - 1 : TypeAt(k) # "blank"}
             j == Max(A)
             R == {k \in 1..j : \A m \in k..j : TypeAt(m) = TypeAt(j)}
             r == Min(R)
  <2>1. PrevWord(i) = r
    BY <1>0, <1>2 DEF PrevWord
  <2>2. j \in A /\ \A k \in A : j >= k
    <3>1. A \in SUBSET (0..i) /\ A # {}
      BY <1>0, <1>2
    <3> HIDE DEF A
    <3> QED
      BY <1>0, <3>1, MaxOf
  <2>3. j \in 1..i - 1 /\ (TypeAt(j) # "blank" \/ j = 1)
    BY <1>0, <1>2, <2>2
  <2>4. ASSUME NEW k \in j + 1..i - 1 PROVE TypeAt(k) = "blank"
    <3>1. k \notin A
      <4> HIDE DEF A
      <4> QED
        BY <1>0, <2>2, <2>3
    <3> QED
      BY <1>0, <2>3, <3>1
  <2> HIDE DEF A, j
  <2>5. r \in R /\ \A k \in R : r <= k
    <3>1. R \in SUBSET Nat /\ j \in R
      BY <1>0, <2>3
    <3> HIDE DEF R
    <3> QED
      BY <3>1, MinOf
  <2>6. r \in 1..j /\ \A m \in r..j : TypeAt(m) = TypeAt(j)
    BY <2>5
  <2>7. r = 1 \/ TypeAt(r - 1) # TypeAt(j)
    <3>1. ASSUME r # 1, TypeAt(r - 1) = TypeAt(j) PROVE FALSE
      <4>1. r - 1 \in 1..j
        BY <1>0, <2>3, <2>6, <3>1
      <4>2. ASSUME NEW m \in r - 1..j PROVE TypeAt(m) = TypeAt(j)
        <5>1. m = r - 1 \/ m \in r..j
          BY <1>0, <2>3, <2>6, <4>1
        <5> QED
          BY <2>6, <3>1, <5>1
      <4>3. r - 1 \in R
        BY <4>1, <4>2
      <4> HIDE DEF R, r
      <4> QED
        BY <1>0, <2>3, <2>5, <2>6, <4>1, <4>3
    <3> QED
      BY <3>1
  <2> HIDE DEF R, r
  <2>8. r \in Nat /\ j \in Nat /\ r <= j /\ j < i
    BY <1>0, <2>3, <2>6
  <2>9. ASSUME NEW k \in S PROVE k <= r
    <3>1. k \in 1..FlatLen /\ k < i /\ TypeAt(k) # "blank" /\ (k > 1 => TypeAt(k - 1) # TypeAt(k))
      BY DEF WordBegins
    <3>2. k <= j
      <4>1. k \notin j + 1..i - 1
        BY <2>4, <3>1
      <4> QED
        BY <1>0, <2>8, <3>1, <4>1
    <3>3. ASSUME k > r PROVE FALSE
      <4>1. k \in r..j /\ k - 1 \in r..j /\ k > 1
        BY <1>0, <2>6, <2>8, <3>1, <3>2, <3>3
      <4> QED
        BY <2>6, <3>1, <4>1
    <3> QED
      BY <1>0, <2>8, <3>1, <3>3
  <2>10. r \in S \cup {1} /\ IsCell(r) /\ r \in 1..FlatLen
    <3>1. r \in 1..FlatLen /\ r < i /\ TypeAt(r) = TypeAt(j)
      BY <1>0, <2>6, <2>8
    <3>2. CASE TypeAt(j) = "blank"
      <4>1. r = 1
        BY <2>3, <2>6, <2>8, <3>2
      <4> QED
        BY <1>0, <3>1, <4>1
    <3>3. CASE TypeAt(j) # "blank"
      <4>1. r \in S
        BY <2>7, <2>8, <3>1, <3>3 DEF WordBegins
      <4> QED
        BY <3>1, <3>3, <4>1, TypedAreCells
    <3> QED
      BY <3>2, <3>3
  <2>11. Max({1} \cup S) = r
    <3> HIDE DEF S
    <3> QED
      BY <1>0, <2>9, <2>10, GreatestWith
  <2> QED
    BY <2>1, <2>10, <2>11
<1> QED
  BY <1>0, <1>1, <1>2

LEMMA EndWordIs ==
  ASSUME Text(Lines), NEW i \in 1..FlatLen
  PROVE  /\ EndWord(i) = Min({FlatLen} \cup {j \in WordEnds : j > i})
         /\ EndWord(i) \in 1..FlatLen /\ IsCell(EndWord(i))
<1> DEFINE S == {j \in WordEnds : j > i}
           j == Skip(i + 1, "blank")
           k == Skip(j, TypeAt(j))
<1>0. FlatLen \in Nat \ {0} /\ IsCell(FlatLen) /\ S \in SUBSET (0..FlatLen)
  BY CellsAreFlat, EndsAreCells DEF WordEnds
<1>1. /\ j \in i + 1..FlatLen + 1
      /\ \A m \in i + 1..j - 1 : TypeAt(m) = "blank"
      /\ j = FlatLen + 1 \/ TypeAt(j) # "blank"
  <2>1. i + 1 \in 1..FlatLen + 1
    BY <1>0
  <2> QED
    BY <1>0, <2>1, SkipIs
<1>2. EndWord(i) = IF j > FlatLen THEN FlatLen ELSE LastPlace(k - 1)
  BY DEF EndWord
<1> HIDE DEF j
<1>3. CASE j > FlatLen
  <2>1. S = {}
    <3>1. ASSUME NEW m \in S PROVE FALSE
      <4>1. m \in i + 1..j - 1 /\ TypeAt(m) # "blank"
        BY <1>0, <1>1, <1>3 DEF WordEnds
      <4> QED
        BY <1>1, <4>1
    <3> QED
      BY <3>1
  <2>2. Min({FlatLen} \cup S) = FlatLen
    <3> HIDE DEF S
    <3> QED
      BY <1>0, <2>1, LeastWith
  <2> QED
    BY <1>0, <1>2, <1>3, <2>2
<1>4. CASE ~(j > FlatLen)
  <2>1. j \in 1..FlatLen /\ j > i /\ TypeAt(j) # "blank" /\ j \in 1..FlatLen + 1 /\ j \in Nat
    BY <1>0, <1>1, <1>4
  <2>2. /\ k \in j..FlatLen + 1
        /\ \A m \in j..k - 1 : TypeAt(m) = TypeAt(j)
        /\ k = FlatLen + 1 \/ TypeAt(k) # TypeAt(j)
    BY <1>0, <2>1, SkipIs
  <2> HIDE DEF k
  <2>3. k > j /\ k \in Nat
    <3>1. k # j
      BY <1>0, <2>1, <2>2
    <3> QED
      BY <1>0, <2>1, <2>2, <3>1
  <2> DEFINE e == k - 1
  <2>4. e \in j..FlatLen /\ e \in Nat /\ e <= FlatLen /\ e + 1 = k
    BY <1>0, <2>1, <2>2, <2>3
  <2>5. EndWord(i) = e
    BY <1>0, <1>2, <1>4, <2>4, LastPlaceIs
  <2>6. TypeAt(e) = TypeAt(j)
    BY <2>2, <2>4
  <2> HIDE DEF e
  <2>7. e \in S
    <3>1. e \in 1..FlatLen /\ e > i
      BY <1>0, <2>1, <2>4
    <3>2. e < FlatLen => TypeAt(e + 1) # TypeAt(e)
      BY <1>0, <2>2, <2>4, <2>6
    <3> QED
      BY <2>1, <2>6, <3>1, <3>2 DEF WordEnds
  <2>8. ASSUME NEW m \in S PROVE e <= m
    <3>1. m \in 1..FlatLen /\ m > i /\ TypeAt(m) # "blank" /\ (m < FlatLen => TypeAt(m + 1) # TypeAt(m))
      BY DEF WordEnds
    <3>2. m >= j
      <4>1. m \notin i + 1..j - 1
        BY <1>1, <3>1
      <4> QED
        BY <1>0, <2>1, <3>1, <4>1
    <3>3. ASSUME m < e PROVE FALSE
      <4>1. m \in j..k - 1 /\ m + 1 \in j..k - 1 /\ m < FlatLen
        BY <1>0, <2>1, <2>3, <2>4, <3>1, <3>2, <3>3
      <4> QED
        BY <2>2, <3>1, <4>1
    <3> QED
      BY <1>0, <2>4, <3>1, <3>3
  <2>9. Min({FlatLen} \cup S) = e
    <3> HIDE DEF S
    <3> QED
      BY <1>0, <2>7, <2>8, LeastWith
  <2> QED
    BY <1>0, <2>1, <2>4, <2>5, <2>6, <2>9, TypedAreCells
<1> QED
  BY <1>3, <1>4

(* The motions themselves.                                                   *)

LEMMA PairOf ==
  ASSUME NEW a \in Nat, NEW b \in Nat
  PROVE  /\ Min({a, b}) = (IF a <= b THEN a ELSE b)
         /\ Max({a, b}) = (IF a <= b THEN b ELSE a)
<1>1. {a, b} \in SUBSET Nat
  OBVIOUS
<1>2. Min({a, b}) \in {a, b} /\ Min({a, b}) <= a /\ Min({a, b}) <= b
  BY <1>1, MinOf
<1>3. {a, b} \in SUBSET (0..a + b) /\ a + b \in Nat
  OBVIOUS
<1>4. Max({a, b}) \in {a, b} /\ Max({a, b}) >= a /\ Max({a, b}) >= b
  BY <1>3, MaxOf
<1> QED
  BY <1>2, <1>4

LEMMA PlacedIsThere ==
  ASSUME Text(Lines), NEW l \in 1..Len(Lines), NEW c \in Nat
  PROVE  Placed(l, c) \in Places
<1>1. Len(Lines[l]) \in Nat \ {0}
  BY DEF Text
<1>2. Min({c, Len(Lines[l])}) \in Nat /\ Min({c, Len(Lines[l])}) <= Len(Lines[l])
  BY <1>1, PairOf
<1>3. ClampCol(l, c) \in 1..Len(Lines[l])
  <2> DEFINE m == Min({c, Len(Lines[l])})
  <2>1. m \in Nat /\ m <= Len(Lines[l])
    BY <1>2
  <2>2. ClampCol(l, c) = Max({1, m})
    BY DEF ClampCol
  <2> HIDE DEF m
  <2>3. Max({1, m}) = IF 1 <= m THEN m ELSE 1
    BY <2>1, PairOf
  <2> QED
    BY <1>1, <2>1, <2>2, <2>3
<1>4. Placed(l, c) = [line |-> l, col |-> ClampCol(l, c)]
  BY DEF Placed
<1> QED
  BY <1>3, <1>4, PlacesAre

\* Every motion stays on the text.
LEMMA MotionsStay ==
  ASSUME Text(Lines), cursor \in Places,
         NEW k \in {"h", "j", "k", "l", "w", "b", "e", "0", "$", "G"}
  PROVE  Motion(cursor, k) \in Places
<1>1. /\ cursor.line \in 1..Len(Lines) /\ cursor.col \in 1..Len(Lines[cursor.line])
      /\ Len(Lines) \in Nat \ {0} /\ Len(Lines[cursor.line]) \in Nat \ {0}
  BY PlacesAre DEF Text
<1>2. FlatOf(cursor) \in 1..FlatLen
  BY CellsAreFlat
<1>3. /\ cursor.col - 1 \in Nat /\ cursor.col + 1 \in Nat /\ cursor.col \in Nat
      /\ 1 \in Nat /\ Len(Lines[cursor.line]) \in Nat
  BY <1>1
<1>4. CASE k = "h"
  BY <1>1, <1>3, <1>4, PlacedIsThere DEF Motion
<1>5. CASE k = "l"
  BY <1>1, <1>3, <1>5, PlacedIsThere DEF Motion
<1>6. CASE k = "j"
  <2> DEFINE l == Min({Len(Lines), cursor.line + 1})
  <2>1. l \in 1..Len(Lines)
    BY <1>1, PairOf
  <2>2. Motion(cursor, k) = Placed(l, cursor.col)
    BY <1>6 DEF Motion
  <2> HIDE DEF l
  <2> QED
    BY <1>3, <2>1, <2>2, PlacedIsThere
<1>7. CASE k = "k"
  <2> DEFINE l == Max({1, cursor.line - 1})
  <2>1. l \in 1..Len(Lines)
    <3>1. 1 \in Nat /\ cursor.line - 1 \in Nat
      BY <1>1
    <3>2. l = IF 1 <= cursor.line - 1 THEN cursor.line - 1 ELSE 1
      BY <3>1, PairOf
    <3> QED
      BY <1>1, <3>2
  <2>2. Motion(cursor, k) = Placed(l, cursor.col)
    BY <1>7 DEF Motion
  <2> HIDE DEF l
  <2> QED
    BY <1>3, <2>1, <2>2, PlacedIsThere
<1>8. CASE k = "0"
  BY <1>1, <1>3, <1>8, PlacedIsThere DEF Motion
<1>9. CASE k = "$"
  BY <1>1, <1>3, <1>9, PlacedIsThere DEF Motion
<1>10. CASE k = "w"
  BY <1>2, <1>10, NextWordIs, PosFromFlatIs DEF Motion
<1>11. CASE k = "b"
  BY <1>2, <1>11, PrevWordIs, PosFromFlatIs DEF Motion
<1>12. CASE k = "e"
  BY <1>2, <1>12, EndWordIs, PosFromFlatIs DEF Motion
<1>13. CASE k = "G"
  <2>1. Motion(cursor, k) = [line |-> Len(Lines), col |-> 1]
    BY <1>13 DEF Motion
  <2>2. Len(Lines) \in 1..Len(Lines) /\ 1 \in 1..Len(Lines[Len(Lines)])
    BY DEF Text
  <2> QED
    BY <2>1, <2>2, PlacesAre
<1> QED
  BY <1>4, <1>5, <1>6, <1>7, <1>8, <1>9, <1>10, <1>11, <1>12, <1>13

\* f finds nothing and stays, or finds its character further on in the line.
LEMMA FindIs ==
  ASSUME Text(Lines), cursor \in Places, NEW c
  PROVE  /\ Find(c) \in Places
         /\ \/ Find(c) = cursor
            \/ /\ CharAt(Find(c)) = c /\ Find(c).line = cursor.line
               /\ Find(c).col > cursor.col
<1> DEFINE line == Lines[cursor.line]
           found == {k \in cursor.col + 1..Len(line) : line[k] = c}
           m == Min(found)
<1>1. /\ cursor = [line |-> cursor.line, col |-> cursor.col]
      /\ cursor.line \in 1..Len(Lines) /\ cursor.col \in 1..Len(line)
      /\ Len(line) \in Nat \ {0}
  BY PlacesAre DEF Text
<1>2. CASE found = {}
  <2>1. Find(c) = cursor
    BY <1>2 DEF Find
  <2> QED
    BY <2>1
<1>3. CASE found # {}
  <2>1. found \in SUBSET Nat
    BY <1>1
  <2>2. m \in found
    <3> HIDE DEF found
    <3> QED
      BY <1>3, <2>1, MinOf
  <2>3. Find(c) = [cursor EXCEPT !.col = m]
    BY <1>3 DEF Find
  <2>4. m \in cursor.col + 1..Len(line) /\ line[m] = c
    BY <2>2
  <2> HIDE DEF m
  <2>5. Find(c) = [line |-> cursor.line, col |-> m]
    BY <1>1, <2>3
  <2>6. m \in 1..Len(line) /\ m > cursor.col
    BY <1>1, <2>4
  <2>7. Find(c) \in Places
    BY <1>1, <2>5, <2>6, PlacesAre
  <2> QED
    BY <2>4, <2>5, <2>6, <2>7 DEF CharAt
<1> QED
  BY <1>2, <1>3

(* What the game keeps: its cursor is on the text and not on its target.     *)

MotionInv == round \in Nat \ {0} /\ cursor \in Places /\ cursor # target

LEMMA MotionIsFair == ASSUME MotionInv PROVE WordMotionsAreVims
<1>1. Text(Lines)
  BY LinesAreText DEF MotionInv, Lines
<1>2. cursor \in Places /\ cursor # target /\ FlatOf(cursor) \in 1..FlatLen
  BY <1>1, CellsAreFlat DEF MotionInv
<1> DEFINE i == FlatOf(cursor)
<1>3. FlatOf(Motion(cursor, "w")) = Min({FlatLen} \cup {j \in WordBegins : j > i})
  <2>1. Motion(cursor, "w") = PosFromFlat(NextWord(i))
    BY DEF Motion
  <2> QED
    BY <1>1, <1>2, <2>1, NextWordIs, PosFromFlatIs
<1>4. FlatOf(Motion(cursor, "b")) = Max({1} \cup {j \in WordBegins : j < i})
  <2>1. Motion(cursor, "b") = PosFromFlat(PrevWord(i))
    BY DEF Motion
  <2> QED
    BY <1>1, <1>2, <2>1, PrevWordIs, PosFromFlatIs
<1>5. FlatOf(Motion(cursor, "e")) = Min({FlatLen} \cup {j \in WordEnds : j > i})
  <2>1. Motion(cursor, "e") = PosFromFlat(EndWord(i))
    BY DEF Motion
  <2> QED
    BY <1>1, <1>2, <2>1, EndWordIs, PosFromFlatIs
<1>6. ASSUME NEW c
      PROVE  FlatOf(Find(c)) = i \/ /\ CharAt(Find(c)) = c /\ Find(c).line = cursor.line
                                    /\ Find(c).col > cursor.col
  BY <1>1, <1>2, FindIs
<1> QED
  BY <1>2, <1>3, <1>4, <1>5, <1>6 DEF WordMotionsAreVims, WordBegins, WordEnds

LEMMA MotionStarts == ASSUME MotionInit PROVE MotionInv
<1>1. round = 1 /\ cursor = First /\ target \in Targets(First)
  BY DEF MotionInit
<1>2. Text(Lines)
  BY <1>1, LinesAreText DEF Lines
<1> QED
  BY <1>1, <1>2, FirstIsThere DEF MotionInv, Places, Targets

LEMMA MoveStays == ASSUME MotionInv, NEW c \in Places, Move(c) PROVE MotionInv'
<1>1. CASE c # target
  <2>1. cursor' = c /\ target' = target /\ round' = round
    BY <1>1 DEF Move
  <2>2. Places' = Places
    BY <2>1 DEF Places, Lines
  <2> QED
    BY <1>1, <2>1, <2>2 DEF MotionInv
<1>2. CASE c = target
  <2>1. round' = round + 1 /\ cursor' = First /\ target' \in Targets(First)'
    BY <1>2 DEF Move
  <2>2. round' \in Nat \ {0}
    BY <2>1 DEF MotionInv
  <2>3. Text(Lines')
    BY <2>2, LinesAreText DEF Lines
  <2>4. First \in Places'
    BY <2>3, FirstIsThere DEF Places
  <2>5. target' # First
    BY <2>1 DEF Targets
  <2> QED
    BY <2>1, <2>2, <2>4, <2>5 DEF MotionInv
<1> QED
  BY <1>1, <1>2

LEMMA MotionGoesOn == ASSUME MotionInv, MotionNext \/ UNCHANGED motionVars PROVE MotionInv'
<1>1. Text(Lines) /\ cursor \in Places
  BY LinesAreText DEF MotionInv, Lines
<1>2. ASSUME UNCHANGED <<cursor, target, round>> PROVE MotionInv'
  <2>1. Places' = Places
    BY <1>2 DEF Places, Lines
  <2> QED
    BY <1>2, <2>1 DEF MotionInv
<1>3. ASSUME NEW k, SecondKey(k) PROVE MotionInv'
  <2>1. Find(k) \in Places
    BY <1>1, FindIs
  <2>2. First \in Places
    BY <1>1, FirstIsThere DEF Places
  <2> QED
    BY <1>2, <1>3, <2>1, <2>2, MoveStays DEF SecondKey
<1>4. ASSUME NEW k, FirstKey(k) PROVE MotionInv'
  BY <1>1, <1>2, <1>4, MotionsStay, MoveStays DEF FirstKey
<1> QED
  BY <1>2, <1>3, <1>4 DEF MotionNext, motionVars

-----------------------------------------------------------------------------
(* The pixel shapes.  A raster is what is solid and what of it is drawn; the *)
(* rest of it is the hole.                                                   *)

Pair(c) == c = <<c[1], c[2]>> /\ c[1] \in Int /\ c[2] \in Int

\* A raster as the shapes make them: w and h cells, what is drawn is solid.
IsRaster(m, solid) ==
  /\ m.w \in Nat \ {0} /\ m.h \in Nat \ {0} /\ m = [w |-> m.w, h |-> m.h, cells |-> m.cells]
  /\ solid \subseteq Grid(m.w, m.h) /\ m.cells \subseteq solid

\* The four cells beside a cell of the hole are solid.
HoleIsInside(m, solid) ==
  \A c \in solid \ m.cells :
    /\ \A i \in {-1, 1} : <<c[1] + i, c[2]>> \in solid
    /\ \A j \in {-1, 1} : <<c[1], c[2] + j>> \in solid

LEMMA GridIs ==
  ASSUME NEW w \in Nat, NEW h \in Nat, NEW c
  PROVE  c \in Grid(w, h) <=> c = <<c[1], c[2]>> /\ c[1] \in 0..w - 1 /\ c[2] \in 0..h - 1
BY DEF Grid

(* Closing diagonals. *)

\* c and d are the cells of a gap that the cells of m leave, beside one another
\* at a corner.
Gap(m, c, i, j) ==
  /\ <<c[1] + i, c[2]>> \in m.cells /\ <<c[1], c[2] + j>> \in m.cells
  /\ c \notin m.cells /\ <<c[1] + i, c[2] + j>> \notin m.cells

Corner(m, solid, x, y) ==
  LET tl == <<x, y>>  tr == <<x + 1, y>>  bl == <<x, y + 1>>  br == <<x + 1, y + 1>> IN
  IF {tl, br} \subseteq m.cells /\ {tr, bl} \cap m.cells = {} THEN FillGap(m, solid, tr, bl)
  ELSE IF {tr, bl} \subseteq m.cells /\ {tl, br} \cap m.cells = {} THEN FillGap(m, solid, tl, br)
  ELSE {}

LEMMA ClosedIs ==
  ASSUME NEW m, NEW solid, IsRaster(m, solid)
  PROVE  CloseDiagonals(m, solid) =
           [w |-> m.w, h |-> m.h,
            cells |-> m.cells \cup UNION {Corner(m, solid, x, y) : x \in 0..m.w - 2, y \in 0..m.h - 2}]
<1> DEFINE A == UNION {Corner(m, solid, x, y) : x \in 0..m.w - 2, y \in 0..m.h - 2}
<1>1. CloseDiagonals(m, solid) = [m EXCEPT !.cells = m.cells \cup A]
  BY DEF CloseDiagonals, Corner
<1> HIDE DEF A
<1>2. [m EXCEPT !.cells = m.cells \cup A] = [w |-> m.w, h |-> m.h, cells |-> m.cells \cup A]
  BY DEF IsRaster
<1> QED
  BY <1>1, <1>2 DEF A

LEMMA FillGapIs ==
  ASSUME NEW m, NEW solid, NEW a, NEW b
  PROVE  /\ FillGap(m, solid, a, b) \subseteq {a, b} \cap solid
         /\ a \in solid /\ b \notin solid => FillGap(m, solid, a, b) = {a}
         /\ b \in solid /\ a \notin solid => FillGap(m, solid, a, b) = {b}
BY DEF FillGap

\* What closing adds is solid and fills a gap.
LEMMA ClosingAdds ==
  ASSUME NEW m, NEW solid, IsRaster(m, solid),
         NEW c \in CloseDiagonals(m, solid).cells, c \notin m.cells
  PROVE  c \in solid /\ \E i \in {-1, 1}, j \in {-1, 1} : Gap(m, c, i, j)
<1>1. PICK x \in 0..m.w - 2, y \in 0..m.h - 2 : c \in Corner(m, solid, x, y)
  BY ClosedIs
<1>2. x \in Int /\ y \in Int
  BY DEF IsRaster
<1> DEFINE tl == <<x, y>>  tr == <<x + 1, y>>  bl == <<x, y + 1>>  br == <<x + 1, y + 1>>
<1>3. CASE {tl, br} \subseteq m.cells /\ {tr, bl} \cap m.cells = {}
  <2>1. c \in {tr, bl} \cap solid
    BY <1>1, <1>3, FillGapIs DEF Corner
  <2>2. CASE c = tr
    <3>1. c[1] - 1 = x /\ c[2] = y /\ c[2] + 1 = y + 1 /\ c[1] = x + 1
      BY <1>2, <2>2
    <3>2. Gap(m, c, -1, 1)
      BY <1>2, <1>3, <2>2, <3>1 DEF Gap
    <3> QED
      BY <2>1, <3>2
  <2>3. CASE c = bl
    <3>1. c[1] + 1 = x + 1 /\ c[2] - 1 = y /\ c[2] = y + 1 /\ c[1] = x
      BY <1>2, <2>3
    <3>2. Gap(m, c, 1, -1)
      BY <1>2, <1>3, <2>3, <3>1 DEF Gap
    <3> QED
      BY <2>1, <3>2
  <2> QED
    BY <2>1, <2>2, <2>3
<1>4. CASE {tr, bl} \subseteq m.cells /\ {tl, br} \cap m.cells = {}
  <2>1. c \in {tl, br} \cap solid
    BY <1>1, <1>3, <1>4, FillGapIs DEF Corner
  <2>2. CASE c = tl
    <3>1. c[1] = x /\ c[2] = y
      BY <1>2, <2>2
    <3>2. Gap(m, c, 1, 1)
      BY <1>2, <1>4, <2>2, <3>1 DEF Gap
    <3> QED
      BY <2>1, <3>2
  <2>3. CASE c = br
    <3>1. c[1] - 1 = x /\ c[2] - 1 = y /\ c[2] = y + 1 /\ c[1] = x + 1
      BY <1>2, <2>3
    <3>2. Gap(m, c, -1, -1)
      BY <1>2, <1>4, <2>3, <3>1 DEF Gap
    <3> QED
      BY <2>1, <3>2
  <2> QED
    BY <2>1, <2>2, <2>3
<1> QED
  BY <1>1, <1>3, <1>4 DEF Corner

\* A gap between a solid cell and one that is not gets the solid one.
LEMMA ClosingFills ==
  ASSUME NEW m, NEW solid, IsRaster(m, solid), NEW c \in solid,
         NEW i \in {-1, 1}, NEW j \in {-1, 1}, Gap(m, c, i, j),
         <<c[1] + i, c[2] + j>> \notin solid
  PROVE  c \in CloseDiagonals(m, solid).cells
<1> DEFINE d == <<c[1] + i, c[2] + j>>
           x == IF i = 1 THEN c[1] ELSE c[1] - 1
           y == IF j = 1 THEN c[2] ELSE c[2] - 1
<1>1. c = <<c[1], c[2]>> /\ c[1] \in 0..m.w - 1 /\ c[2] \in 0..m.h - 1 /\ m.w \in Nat /\ m.h \in Nat
  BY GridIs DEF IsRaster
<1>2. c[1] + i \in 0..m.w - 1 /\ c[2] + j \in 0..m.h - 1
  <2>1. <<c[1] + i, c[2]>> \in Grid(m.w, m.h) /\ <<c[1], c[2] + j>> \in Grid(m.w, m.h)
    BY DEF Gap, IsRaster
  <2> QED
    BY <1>1, <2>1, GridIs
<1>3. x \in 0..m.w - 2 /\ y \in 0..m.h - 2
  BY <1>1, <1>2
<1>4. SUFFICES c \in Corner(m, solid, x, y)
  BY <1>3, ClosedIs
<1>5. CASE i = 1 /\ j = 1
  <2>1. x = c[1] /\ y = c[2] /\ <<x, y>> = c /\ <<x + 1, y + 1>> = d
    BY <1>1, <1>5
  <2>2. {<<x + 1, y>>, <<x, y + 1>>} \subseteq m.cells /\ {c, d} \cap m.cells = {}
    BY <1>1, <1>5, <2>1 DEF Gap
  <2>3. FillGap(m, solid, c, d) = {c}
    BY FillGapIs
  <2> HIDE DEF x, y, d
  <2> QED
    BY <2>1, <2>2, <2>3 DEF Corner
<1>6. CASE i = -1 /\ j = -1
  <2>1. x + 1 = c[1] /\ y + 1 = c[2] /\ <<x, y>> = d /\ <<x + 1, y + 1>> = c
    BY <1>1, <1>6
  <2>2. {<<x + 1, y>>, <<x, y + 1>>} \subseteq m.cells /\ {c, d} \cap m.cells = {}
    BY <1>1, <1>6, <2>1 DEF Gap
  <2>3. FillGap(m, solid, d, c) = {c}
    BY FillGapIs
  <2> HIDE DEF x, y, d
  <2> QED
    BY <2>1, <2>2, <2>3 DEF Corner
<1>7. CASE i = -1 /\ j = 1
  <2>1. x + 1 = c[1] /\ y = c[2] /\ <<x + 1, y>> = c /\ <<x, y + 1>> = d
    BY <1>1, <1>7
  <2>2. {<<x, y>>, <<x + 1, y + 1>>} \subseteq m.cells /\ {c, d} \cap m.cells = {}
    BY <1>1, <1>7, <2>1 DEF Gap
  <2>3. FillGap(m, solid, c, d) = {c}
    BY FillGapIs
  <2> HIDE DEF x, y, d
  <2> QED
    BY <2>1, <2>2, <2>3 DEF Corner
<1>8. CASE i = 1 /\ j = -1
  <2>1. x = c[1] /\ y + 1 = c[2] /\ <<x, y + 1>> = c /\ <<x + 1, y>> = d
    BY <1>1, <1>8
  <2>2. {<<x, y>>, <<x + 1, y + 1>>} \subseteq m.cells /\ {c, d} \cap m.cells = {}
    BY <1>1, <1>8, <2>1 DEF Gap
  <2>3. FillGap(m, solid, d, c) = {c}
    BY FillGapIs
  <2> HIDE DEF x, y, d
  <2> QED
    BY <2>1, <2>2, <2>3 DEF Corner
<1> QED
  BY <1>5, <1>6, <1>7, <1>8

(* Walking from outside.  Where nothing more can be reached from a set, what *)
(* is reached from it is that set, if the recursion defines anything: it     *)
(* does, for what every set that is closed under a step has is a solution.   *)

Stepped1(S, free, diagonal) == S \cup {c \in free : Near(c, diagonal) \cap S # {}}
Walks(g, from, free, diagonal) ==
  g = [S \in SUBSET (from \cup free) |->
         IF Stepped1(S, free, diagonal) = S THEN S ELSE g[Stepped1(S, free, diagonal)]]

LEMMA SomeWalk ==
  ASSUME NEW from, NEW free, NEW diagonal
  PROVE  \E g : Walks(g, from, free, diagonal)
<1> DEFINE U == from \cup free
           To(S) == Stepped1(S, free, diagonal)
           Around(S) == {T \in SUBSET U : S \subseteq T /\ To(T) = T}
           g == [S \in SUBSET U |-> {c \in U : \A T \in Around(S) : c \in T}]
<1>1. ASSUME NEW S \in SUBSET U, To(S) = S PROVE g[S] = S
  <2>1. S \in Around(S)
    BY <1>1
  <2>2. \A T \in Around(S) : S \subseteq T
    OBVIOUS
  <2> HIDE DEF Around, To
  <2> QED
    BY <2>1, <2>2
<1>2. ASSUME NEW S \in SUBSET U PROVE To(S) \in SUBSET U /\ g[S] = g[To(S)]
  <2>1. To(S) \in SUBSET U
    BY DEF Stepped1
  <2>2. ASSUME NEW T \in SUBSET U, S \subseteq T, To(T) = T PROVE To(S) \subseteq T
    BY <2>2 DEF Stepped1
  <2>3. S \subseteq To(S)
    BY DEF Stepped1
  <2> HIDE DEF To
  <2>4. Around(S) = Around(To(S))
    BY <2>2, <2>3
  <2> HIDE DEF Around
  <2> QED
    BY <2>1, <2>4
<1> HIDE DEF To
<1>3. g = [S \in SUBSET U |-> IF To(S) = S THEN S ELSE g[To(S)]]
  <2>1. \A S \in SUBSET U : g[S] = IF To(S) = S THEN S ELSE g[To(S)]
    BY <1>1, <1>2
  <2>2. g = [S \in SUBSET U |-> g[S]]
    OBVIOUS
  <2> HIDE DEF g, U
  <2> QED
    BY <2>1, <2>2
<1> HIDE DEF g
<1> QED
  BY <1>3 DEF Walks, To

LEMMA ReachedOnly ==
  ASSUME NEW from, NEW free, NEW diagonal,
         \A c \in free : Near(c, diagonal) \cap from # {} => c \in from
  PROVE  Reached(from, free, diagonal) = from
<1>1. PICK g : g = CHOOSE h : Walks(h, from, free, diagonal)
  OBVIOUS
<1>2. Walks(g, from, free, diagonal)
  BY <1>1, SomeWalk
<1>3. Reached(from, free, diagonal) = g[from]
  BY <1>1 DEF Reached, Walks, Stepped1
<1>4. Stepped1(from, free, diagonal) = from
  BY DEF Stepped1
<1> QED
  BY <1>2, <1>3, <1>4 DEF Walks

\* The cells near another.
LEMMA NearIs ==
  ASSUME NEW c, NEW diagonal \in BOOLEAN, NEW d \in Near(c, diagonal)
  PROVE  \E i \in -1..1, j \in -1..1 : /\ d = <<c[1] + i, c[2] + j>>
                                       /\ ~diagonal => i = 0 \/ j = 0
<1>1. PICK i \in -1..1, j \in -1..1 : d = <<c[1] + i, c[2] + j>>
  BY DEF Near
<1>2. ~diagonal => ~(i \in {-1, 1} /\ j \in {-1, 1})
  BY <1>1 DEF Near
<1>3. i \in {-1, 0, 1} /\ j \in {-1, 0, 1}
  OBVIOUS
<1> QED
  BY <1>1, <1>2, <1>3

\* No way into a raster whose hole is inside: next to a cell of the hole there
\* is none outside, not even at a corner when its diagonals are closed.
LEMMA RasterIsClosed ==
  ASSUME NEW m, NEW solid, IsRaster(m, solid), HoleIsInside(m, solid), NEW diagonal \in BOOLEAN,
         NEW drawn, drawn = IF diagonal THEN CloseDiagonals(m, solid).cells ELSE m.cells,
         NEW c \in solid, c \notin drawn, NEW d \in Near(c, diagonal)
  PROVE  d \in solid
<1>1. c \notin m.cells
  <2>1. m.cells \subseteq CloseDiagonals(m, solid).cells
    BY ClosedIs
  <2> QED
    BY <2>1
<1>2. PICK i \in -1..1, j \in -1..1 : d = <<c[1] + i, c[2] + j>> /\ (~diagonal => i = 0 \/ j = 0)
  BY NearIs
<1>3. c = <<c[1], c[2]>> /\ c[1] \in Int /\ c[2] \in Int
  BY GridIs DEF IsRaster
<1>4. i \in {-1, 0, 1} /\ j \in {-1, 0, 1}
  OBVIOUS
<1>5. CASE i = 0 /\ j = 0
  BY <1>2, <1>3, <1>5
<1>6. CASE i # 0 /\ j = 0
  <2>1. i \in {-1, 1} /\ c[2] + j = c[2]
    BY <1>3, <1>4, <1>6
  <2> QED
    BY <1>1, <1>2, <2>1 DEF HoleIsInside
<1>7. CASE i = 0 /\ j # 0
  <2>1. j \in {-1, 1} /\ c[1] + i = c[1]
    BY <1>3, <1>4, <1>7
  <2> QED
    BY <1>1, <1>2, <2>1 DEF HoleIsInside
<1>8. CASE i # 0 /\ j # 0
  <2> DEFINE p == <<c[1] + i, c[2]>>
             q == <<c[1], c[2] + j>>
  <2>1. i \in {-1, 1} /\ j \in {-1, 1} /\ diagonal
    BY <1>2, <1>4, <1>8
  <2>2. p \in solid /\ q \in solid
    BY <1>1, <2>1 DEF HoleIsInside
  <2>3. ASSUME d \notin solid PROVE FALSE
    <3>1. p \in m.cells
      <4>1. ASSUME p \notin m.cells PROVE <<p[1], p[2] + j>> \in solid
        BY <2>1, <2>2, <4>1 DEF HoleIsInside
      <4>2. <<p[1], p[2] + j>> = d
        BY <1>2
      <4> QED
        BY <2>3, <4>1, <4>2
    <3>2. q \in m.cells
      <4>1. ASSUME q \notin m.cells PROVE <<q[1] + i, q[2]>> \in solid
        BY <2>1, <2>2, <4>1 DEF HoleIsInside
      <4>2. <<q[1] + i, q[2]>> = d
        BY <1>2
      <4> QED
        BY <2>3, <4>1, <4>2
    <3>3. d \notin m.cells
      BY <2>3 DEF IsRaster
    <3>4. Gap(m, c, i, j)
      BY <1>1, <1>2, <3>1, <3>2, <3>3 DEF Gap
    <3> QED
      BY <1>2, <2>1, <2>3, <3>4, ClosingFills
  <2> QED
    BY <2>3
<1> QED
  BY <1>4, <1>5, <1>6, <1>7, <1>8

LEMMA DrawnIsSolid ==
  ASSUME NEW m, NEW solid, IsRaster(m, solid)
  PROVE  /\ m.cells \subseteq CloseDiagonals(m, solid).cells
         /\ CloseDiagonals(m, solid).cells \subseteq solid
<1>1. m.cells \subseteq CloseDiagonals(m, solid).cells
  BY ClosedIs
<1>2. ASSUME NEW c \in CloseDiagonals(m, solid).cells PROVE c \in solid
  BY ClosingAdds DEF IsRaster
<1> QED
  BY <1>1, <1>2

LEMMA OutlineOf ==
  ASSUME NEW m, NEW solid, IsRaster(m, solid), HoleIsInside(m, solid), NEW diagonal \in BOOLEAN,
         NEW drawn, drawn = IF diagonal THEN CloseDiagonals(m, solid).cells ELSE m.cells,
         NEW all, solid \subseteq all
  PROVE  Reached((all \ solid) \cap (all \ drawn), all \ drawn, diagonal) \cap solid \subseteq drawn
<1> DEFINE outside == all \ solid
           free == all \ drawn
<1>1. drawn \subseteq solid
  <2>1. CASE diagonal
    BY <2>1, DrawnIsSolid
  <2>2. CASE ~diagonal
    BY <2>2 DEF IsRaster
  <2> QED
    BY <2>1, <2>2
<1>2. outside \cap free = outside
  BY <1>1
<1>3. ASSUME NEW c \in free, Near(c, diagonal) \cap outside # {}, c \notin outside PROVE FALSE
  <2>1. c \in solid /\ c \notin drawn
    BY <1>3
  <2>2. PICK d \in Near(c, diagonal) : d \notin solid
    BY <1>3
  <2> QED
    BY <2>1, <2>2, RasterIsClosed
<1>4. Reached(outside, free, diagonal) = outside
  BY <1>3, ReachedOnly
<1> QED
  BY <1>2, <1>4

(* The square. *)

LEMMA SquareIs ==
  ASSUME NEW n \in Nat \ {0}, NEW depth \in Nat
  PROVE  LET r == Square(n, depth) IN
         /\ IsRaster(r.mask, r.solid) /\ HoleIsInside(r.mask, r.solid)
         /\ r.mask.w = n /\ r.mask.h = n /\ r.solid = Grid(n, n)
         /\ \A c : c \in r.solid \ r.mask.cells <=>
              /\ c \in Grid(n, n) /\ depth # 0
              /\ c[1] \in depth..n - depth - 1 /\ c[2] \in depth..n - depth - 1
<1> DEFINE cells == {c \in Grid(n, n) : \/ depth = 0
                                        \/ c[1] < depth \/ c[2] < depth
                                        \/ c[1] >= n - depth \/ c[2] >= n - depth}
           m == [w |-> n, h |-> n, cells |-> cells]
           r == Square(n, depth)
<1>1. r.mask = m /\ r.solid = Grid(n, n)
  BY DEF Square
<1>2. cells \subseteq Grid(n, n)
  OBVIOUS
<1>3. ASSUME NEW c \in Grid(n, n)
      PROVE  c \notin cells <=> /\ depth # 0 /\ c[1] \in depth..n - depth - 1
                                /\ c[2] \in depth..n - depth - 1
  BY <1>3, GridIs
<1> HIDE DEF cells
<1>4. IsRaster(m, Grid(n, n))
  BY <1>2 DEF IsRaster
<1>5. HoleIsInside(m, Grid(n, n))
  <2>1. ASSUME NEW c \in Grid(n, n), c \notin cells, NEW i \in {-1, 1}
        PROVE  <<c[1] + i, c[2]>> \in Grid(n, n) /\ <<c[1], c[2] + i>> \in Grid(n, n)
    <3>1. depth >= 1 /\ c[1] \in depth..n - depth - 1 /\ c[2] \in depth..n - depth - 1
      BY <1>3, <2>1
    <3>2. c[1] + i \in 0..n - 1 /\ c[2] + i \in 0..n - 1 /\ c[1] \in 0..n - 1 /\ c[2] \in 0..n - 1
      BY <3>1
    <3> QED
      BY <3>2, GridIs
  <2> QED
    BY <2>1 DEF HoleIsInside
<1> HIDE DEF r
<1> QED
  BY <1>1, <1>2, <1>3, <1>4, <1>5 DEF r

(* The ellipse. *)

LEMMA Squares ==
  ASSUME NEW x \in Int
  PROVE  x * x \in Nat /\ (x # 0 => x * x > 0) /\ (-x) * (-x) = x * x
OBVIOUS

LEMMA SmallerSquare ==
  ASSUME NEW x \in Int, NEW r \in Nat, x * x <= r * r
  PROVE  x <= r /\ -x <= r
OBVIOUS

LEMMA Divided ==
  ASSUME NEW s \in Nat \ {0}, NEW u \in Int, NEW v \in Int, u * s <= v * s
  PROVE  u <= v
OBVIOUS

LEMMA Scaled1 ==
  ASSUME NEW s \in Nat, NEW u \in Int, NEW v \in Int, u <= v
  PROVE  u * s <= v * s
OBVIOUS

\* Twenty times how far a cell is from the middle of n, half a cell being ten.
Off(n, k) == 10 * (2 * k + 1 - n)

LEMMA InEllipseIs ==
  ASSUME NEW w \in Int, NEW h \in Int, NEW a \in Int, NEW b \in Int, NEW c,
         c[1] \in Int, c[2] \in Int
  PROVE  InEllipse(w, h, a, b, c) <=>
           /\ a > 0 /\ b > 0
           /\ (Off(w, c[1]) * Off(w, c[1])) * (b * b)
                <= (b * b - Off(h, c[2]) * Off(h, c[2])) * (a * a)
<1> DEFINE x == Off(w, c[1])
           y == Off(h, c[2])
<1>1. x \in Int /\ y \in Int
  BY DEF Off
<1>2. InEllipse(w, h, a, b, c) <=> a > 0 /\ b > 0 /\ x * x * b * b <= a * a * (b * b - y * y)
  BY DEF InEllipse, Off
<1> HIDE DEF x, y
<1>3. x * x * b * b = (x * x) * (b * b)
  BY <1>1
<1>4. a * a * (b * b - y * y) = (b * b - y * y) * (a * a)
  BY <1>1
<1> QED
  BY <1>2, <1>3, <1>4 DEF x, y

LEMMA InDisc ==
  ASSUME NEW w \in Int, NEW h \in Int, NEW r \in Int, NEW c, c[1] \in Int, c[2] \in Int
  PROVE  InEllipse(w, h, r, r, c) <=>
           r > 0 /\ Off(w, c[1]) * Off(w, c[1]) + Off(h, c[2]) * Off(h, c[2]) <= r * r
<1> DEFINE x == Off(w, c[1])
           y == Off(h, c[2])
           p == x * x
           q == y * y
           s == r * r
<1>1. x \in Int /\ y \in Int
  BY DEF Off
<1>2. InEllipse(w, h, r, r, c) <=> r > 0 /\ p * s <= (s - q) * s
  BY InEllipseIs
<1> HIDE DEF x, y
<1>3. p \in Nat /\ q \in Nat /\ s \in Nat /\ (r > 0 => s > 0)
  BY <1>1, Squares
<1> HIDE DEF p, q, s
<1>4. s > 0 => (p * s <= (s - q) * s <=> p <= s - q)
  <2> SUFFICES ASSUME s > 0 PROVE p * s <= (s - q) * s <=> p <= s - q
    OBVIOUS
  <2>1. s - q \in Int /\ s \in Nat \ {0} /\ p \in Int
    BY <1>3
  <2>2. p * s <= (s - q) * s => p <= s - q
    BY <2>1, Divided
  <2>3. p <= s - q => p * s <= (s - q) * s
    BY <2>1, Scaled1
  <2> QED
    BY <2>2, <2>3
<1>5. p <= s - q <=> p + q <= s
  BY <1>3
<1> QED
  BY <1>2, <1>3, <1>4, <1>5 DEF p, q, s, x, y

\* Nearer to both axes is in the ellipse too.
LEMMA InEllipseToo ==
  ASSUME NEW w \in Int, NEW h \in Int, NEW a \in Int, NEW b \in Int, NEW c, NEW d,
         c[1] \in Int, c[2] \in Int, d[1] \in Int, d[2] \in Int, InEllipse(w, h, a, b, c),
         Off(w, d[1]) * Off(w, d[1]) <= Off(w, c[1]) * Off(w, c[1]),
         Off(h, d[2]) * Off(h, d[2]) <= Off(h, c[2]) * Off(h, c[2])
  PROVE  InEllipse(w, h, a, b, d)
<1> DEFINE p == Off(w, c[1]) * Off(w, c[1])
           q == Off(h, c[2]) * Off(h, c[2])
           u == Off(w, d[1]) * Off(w, d[1])
           v == Off(h, d[2]) * Off(h, d[2])
           s == a * a
           t == b * b
<1>1. p \in Nat /\ q \in Nat /\ u \in Nat /\ v \in Nat
  <2>1. Off(w, c[1]) \in Int /\ Off(h, c[2]) \in Int /\ Off(w, d[1]) \in Int /\ Off(h, d[2]) \in Int
    BY DEF Off
  <2> QED
    BY <2>1, Squares
<1>2. s \in Nat /\ t \in Nat
  BY Squares
<1>3. a > 0 /\ b > 0 /\ p * t <= (t - q) * s
  BY InEllipseIs
<1>4. InEllipse(w, h, a, b, d) <=> a > 0 /\ b > 0 /\ u * t <= (t - v) * s
  BY InEllipseIs
<1>5. u <= p /\ v <= q
  OBVIOUS
<1> HIDE DEF p, q, u, v, s, t
<1>6. u * t <= p * t
  BY <1>1, <1>2, <1>5, Scaled1
<1>7. (t - q) * s <= (t - v) * s
  <2>1. t - q \in Int /\ t - v \in Int /\ t - q <= t - v
    BY <1>1, <1>2, <1>5
  <2> QED
    BY <1>2, <2>1, Scaled1
<1>8. u * t \in Int /\ p * t \in Int /\ (t - q) * s \in Int /\ (t - v) * s \in Int
  BY <1>1, <1>2
<1> QED
  BY <1>3, <1>4, <1>6, <1>7, <1>8

\* One cell further from the middle is in the disc that is one cell wider.
LEMMA WiderDisc ==
  ASSUME NEW x \in Int, NEW y \in Int, NEW r \in Nat, x * x + y * y <= r * r,
         NEW u \in {x - 20, x + 20}
  PROVE  u * u + y * y <= (r + 20) * (r + 20)
<1>1. y * y \in Nat /\ x * x \in Nat
  BY Squares
<1>2. x <= r /\ -x <= r
  <2>1. x * x <= r * r
    BY <1>1
  <2> QED
    BY <2>1, SmallerSquare
<1>3. u * u <= x * x + 40 * r + 400
  BY <1>2
<1>4. (r + 20) * (r + 20) = r * r + 40 * r + 400
  OBVIOUS
<1>5. r * r \in Int /\ u * u \in Int
  OBVIOUS
<1> QED
  BY <1>1, <1>3, <1>4, <1>5

\* A disc lies in its grid.
LEMMA DiscInGrid ==
  ASSUME NEW n \in Nat \ {0}, NEW k \in Int, NEW r \in Nat, r <= 10 * n,
         Off(n, k) * Off(n, k) <= r * r
  PROVE  k \in 0..n - 1
<1>1. Off(n, k) \in Int
  BY DEF Off
<1>2. Off(n, k) <= r /\ -Off(n, k) <= r
  BY <1>1, SmallerSquare
<1> QED
  BY <1>2 DEF Off

\* What an ellipse is made of: its grid, the cells in it, those of its hole.
GrownBy(beta) == IF beta > 0 THEN (beta + 19) \div 20 ELSE 0
Grown(n, beta) == n + 2 * GrownBy(beta)
Axis(n, beta) == 10 * n + beta
Whole(w0, h0, beta) ==
  {c \in Grid(Grown(w0, beta), Grown(h0, beta)) :
     InEllipse(Grown(w0, beta), Grown(h0, beta), Axis(w0, beta), Axis(h0, beta), c)}
Within(w0, h0, beta, depth) ==
  {c \in Whole(w0, h0, beta) : depth > 0
     /\ InEllipse(Grown(w0, beta), Grown(h0, beta),
                  Axis(w0, beta) - 20 * depth, Axis(h0, beta) - 20 * depth, c)}
Box(w0, h0, beta, keep) == CropBox(keep, Grown(w0, beta), Grown(h0, beta))
Kept(S, box) == Cut(S, box.x0, box.y0, box.x1, box.y1)
CutWalls(S, box, w, h, depth) ==
  {c \in Kept(S, box) : \/ box.y0 > 0 /\ c[2] < depth
                        \/ box.y1 < h - 1 /\ c[2] >= (box.y1 - box.y0 + 1) - depth
                        \/ box.x0 > 0 /\ c[1] < depth
                        \/ box.x1 < w - 1 /\ c[1] >= (box.x1 - box.x0 + 1) - depth}

LEMMA KeptIs ==
  ASSUME NEW S \in SUBSET (Int \X Int), NEW box, NEW c,
         box.x0 \in Int, box.y0 \in Int, box.x1 \in Int, box.y1 \in Int
  PROVE  c \in Kept(S, box) <=>
           /\ c = <<c[1], c[2]>> /\ c[1] \in 0..box.x1 - box.x0 /\ c[2] \in 0..box.y1 - box.y0
           /\ <<c[1] + box.x0, c[2] + box.y0>> \in S
<1>1. ASSUME c \in Kept(S, box)
      PROVE  /\ c = <<c[1], c[2]>> /\ c[1] \in 0..box.x1 - box.x0 /\ c[2] \in 0..box.y1 - box.y0
             /\ <<c[1] + box.x0, c[2] + box.y0>> \in S
  <2>1. PICK d \in S : /\ d[1] \in box.x0..box.x1 /\ d[2] \in box.y0..box.y1
                       /\ c = <<d[1] - box.x0, d[2] - box.y0>>
    BY <1>1 DEF Kept, Cut
  <2>2. d = <<d[1], d[2]>> /\ d[1] \in Int /\ d[2] \in Int
    OBVIOUS
  <2>3. c[1] + box.x0 = d[1] /\ c[2] + box.y0 = d[2]
    BY <2>1, <2>2
  <2> QED
    BY <2>1, <2>2, <2>3
<1>2. ASSUME c = <<c[1], c[2]>>, c[1] \in 0..box.x1 - box.x0, c[2] \in 0..box.y1 - box.y0,
             <<c[1] + box.x0, c[2] + box.y0>> \in S
      PROVE  c \in Kept(S, box)
  <2> DEFINE d == <<c[1] + box.x0, c[2] + box.y0>>
  <2>1. d \in S /\ d[1] \in box.x0..box.x1 /\ d[2] \in box.y0..box.y1
    BY <1>2
  <2>2. c = <<d[1] - box.x0, d[2] - box.y0>>
    BY <1>2
  <2> QED
    BY <2>1, <2>2 DEF Kept, Cut
<1> QED
  BY <1>1, <1>2

LEMMA EllipseIs ==
  ASSUME NEW w0, NEW h0, NEW beta, NEW depth, NEW keep
  PROVE  LET box == Box(w0, h0, beta, keep)
             S == Whole(w0, h0, beta)
             H == Within(w0, h0, beta, depth) IN
         Ellipse(w0, h0, beta, depth, keep) =
           [mask |-> [w |-> box.x1 - box.x0 + 1, h |-> box.y1 - box.y0 + 1,
                      cells |-> Kept(S \ H, box)
                                  \cup CutWalls(S, box, Grown(w0, beta), Grown(h0, beta), depth)],
            solid |-> Kept(S, box)]
<1> DEFINE pad == IF beta > 0 THEN (beta + 19) \div 20 ELSE 0
           w == w0 + 2 * pad
           h == h0 + 2 * pad
           a == 10 * w0 + beta
           b == 10 * h0 + beta
           solid == {c \in Grid(w, h) : InEllipse(w, h, a, b, c)}
           hole == {c \in solid : depth > 0
                      /\ InEllipse(w, h, a - 20 * depth, b - 20 * depth, c)}
           box == CropBox(keep, w, h)
           cut(cells) == Cut(cells, box.x0, box.y0, box.x1, box.y1)
           wide == box.x1 - box.x0 + 1
           tall == box.y1 - box.y0 + 1
           kept == cut(solid)
           walls == {c \in kept : \/ box.y0 > 0 /\ c[2] < depth
                                  \/ box.y1 < h - 1 /\ c[2] >= tall - depth
                                  \/ box.x0 > 0 /\ c[1] < depth
                                  \/ box.x1 < w - 1 /\ c[1] >= wide - depth}
<1>1. Ellipse(w0, h0, beta, depth, keep) =
        [mask |-> [w |-> wide, h |-> tall, cells |-> cut(solid \ hole) \cup walls],
         solid |-> cut(solid)]
  BY DEF Ellipse
<1>2. w = Grown(w0, beta) /\ h = Grown(h0, beta) /\ a = Axis(w0, beta) /\ b = Axis(h0, beta)
  BY DEF Grown, GrownBy, Axis
<1> HIDE DEF w, h, a, b
<1>3. solid = Whole(w0, h0, beta) /\ box = Box(w0, h0, beta, keep)
  BY <1>2 DEF Whole, Box
<1>4. hole = Within(w0, h0, beta, depth)
  BY <1>2, <1>3 DEF Within
<1> HIDE DEF solid, hole, box
<1>5. kept = Kept(solid, box) /\ cut(solid \ hole) = Kept(solid \ hole, box)
  BY DEF Kept
<1> HIDE DEF kept, cut
<1>6. walls = CutWalls(solid, box, w, h, depth)
  <2> DEFINE Y == tall - depth
             X == wide - depth
  <2>1. walls = {c \in kept : \/ box.y0 > 0 /\ c[2] < depth
                              \/ box.y1 < h - 1 /\ c[2] >= Y
                              \/ box.x0 > 0 /\ c[1] < depth
                              \/ box.x1 < w - 1 /\ c[1] >= X}
    OBVIOUS
  <2>2. CutWalls(solid, box, w, h, depth) =
    {c \in Kept(solid, box) : \/ box.y0 > 0 /\ c[2] < depth
                              \/ box.y1 < h - 1 /\ c[2] >= Y
                              \/ box.x0 > 0 /\ c[1] < depth
                              \/ box.x1 < w - 1 /\ c[1] >= X}
    BY DEF CutWalls
  <2> QED
    BY <1>5, <2>1, <2>2
<1>7. Ellipse(w0, h0, beta, depth, keep) =
        [mask |-> [w |-> wide, h |-> tall, cells |-> cut(solid \ hole) \cup walls],
         solid |-> kept]
  BY <1>1 DEF kept
<1> HIDE DEF walls
<1> QED
  BY <1>2, <1>3, <1>4, <1>5, <1>6, <1>7

LEMMA BoxIs ==
  ASSUME NEW w \in Nat \ {0}, NEW h \in Nat \ {0}, NEW keep
  PROVE  LET b == CropBox(keep, w, h) IN
         /\ b.x0 \in 0..b.x1 /\ b.x1 \in 0..w - 1 /\ b.y0 \in 0..b.y1 /\ b.y1 \in 0..h - 1
         /\ b.x0 \in Int /\ b.x1 \in Int /\ b.y0 \in Int /\ b.y1 \in Int
<1> DEFINE b == CropBox(keep, w, h)
<1>1. /\ b.x0 = IF keep \in {"Right", "TR", "BR"} THEN w \div 2 ELSE 0
      /\ b.x1 = IF keep \in {"Left", "TL", "BL"} THEN (w + 1) \div 2 - 1 ELSE w - 1
      /\ b.y0 = IF keep \in {"Down", "BL", "BR"} THEN h \div 2 ELSE 0
      /\ b.y1 = IF keep \in {"Up", "TL", "TR"} THEN (h + 1) \div 2 - 1 ELSE h - 1
  BY DEF CropBox
<1>2. /\ keep \in {"Right", "TR", "BR"} => keep \notin {"Left", "TL", "BL"}
      /\ keep \in {"Down", "BL", "BR"} => keep \notin {"Up", "TL", "TR"}
  OBVIOUS
<1> HIDE DEF b
<1>3. b.x0 \in 0..b.x1 /\ b.x1 \in 0..w - 1
  BY <1>1, <1>2
<1>4. b.y0 \in 0..b.y1 /\ b.y1 \in 0..h - 1
  BY <1>1, <1>2
<1> QED
  BY <1>3, <1>4 DEF b

LEMMA GrownIs ==
  ASSUME NEW n \in Nat \ {0}, NEW beta \in -20..20
  PROVE  /\ Grown(n, beta) \in Nat \ {0} /\ Axis(n, beta) \in Int
         /\ Axis(n, beta) <= 10 * Grown(n, beta)
BY DEF Grown, GrownBy, Axis

LEMMA EllipseIsRaster ==
  ASSUME NEW w0 \in Nat \ {0}, NEW h0 \in Nat \ {0}, NEW beta \in -20..20, NEW depth \in Nat,
         NEW keep
  PROVE  LET r == Ellipse(w0, h0, beta, depth, keep) IN IsRaster(r.mask, r.solid)
<1> DEFINE box == Box(w0, h0, beta, keep)
           S == Whole(w0, h0, beta)
           H == Within(w0, h0, beta, depth)
           w == Grown(w0, beta)
           h == Grown(h0, beta)
           r == Ellipse(w0, h0, beta, depth, keep)
<1>1. w \in Nat \ {0} /\ h \in Nat \ {0} /\ w \in Nat /\ h \in Nat
  BY GrownIs
<1>2. /\ box.x0 \in 0..box.x1 /\ box.x1 \in 0..w - 1 /\ box.y0 \in 0..box.y1 /\ box.y1 \in 0..h - 1
      /\ box.x0 \in Int /\ box.x1 \in Int /\ box.y0 \in Int /\ box.y1 \in Int
  BY <1>1, BoxIs DEF Box
<1>3. S \in SUBSET Grid(w, h) /\ S \ H \subseteq S /\ S \in SUBSET (Int \X Int)
  BY <1>1 DEF Whole, Grid
<1>4. /\ r.mask = [w |-> box.x1 - box.x0 + 1, h |-> box.y1 - box.y0 + 1,
                   cells |-> Kept(S \ H, box) \cup CutWalls(S, box, w, h, depth)]
      /\ r.solid = Kept(S, box)
  BY EllipseIs
<1> HIDE DEF box, S, H, w, h, r
<1>5. Kept(S \ H, box) \subseteq Kept(S, box) /\ CutWalls(S, box, w, h, depth) \subseteq Kept(S, box)
  BY <1>3 DEF Kept, Cut, CutWalls
<1>6. ASSUME NEW c \in Kept(S, box) PROVE c \in Grid(box.x1 - box.x0 + 1, box.y1 - box.y0 + 1)
  <2>1. c = <<c[1], c[2]>> /\ c[1] \in 0..box.x1 - box.x0 /\ c[2] \in 0..box.y1 - box.y0
    BY <1>2, <1>3, KeptIs
  <2> DEFINE p == box.x1 - box.x0 + 1
             q == box.y1 - box.y0 + 1
  <2>2. p \in Nat /\ q \in Nat /\ c[1] \in 0..p - 1 /\ c[2] \in 0..q - 1
    BY <1>2, <2>1
  <2> HIDE DEF p, q
  <2>3. c \in Grid(p, q)
    BY <2>1, <2>2, GridIs
  <2> QED
    BY <2>3 DEF p, q
<1>7. box.x1 - box.x0 + 1 \in Nat \ {0} /\ box.y1 - box.y0 + 1 \in Nat \ {0}
  BY <1>2
<1>8. IsRaster(r.mask, r.solid)
  <2>1. /\ r.mask.w = box.x1 - box.x0 + 1 /\ r.mask.h = box.y1 - box.y0 + 1
        /\ r.mask.cells \subseteq r.solid
    BY <1>4, <1>5
  <2>2. r.mask = [w |-> r.mask.w, h |-> r.mask.h, cells |-> r.mask.cells]
    BY <1>4
  <2>3. r.solid \subseteq Grid(r.mask.w, r.mask.h)
    BY <1>4, <1>6, <2>1
  <2> QED
    BY <1>7, <2>1, <2>2, <2>3 DEF IsRaster
<1> QED
  BY <1>8 DEF r

\* The hole of an ellipse, cell by cell: where it comes from, and no wall of a
\* cut side.
LEMMA HoleOf ==
  ASSUME NEW w0 \in Nat \ {0}, NEW h0 \in Nat \ {0}, NEW beta \in -20..20, NEW depth \in Nat,
         NEW keep, NEW c
  PROVE  LET box == Box(w0, h0, beta, keep)
             r == Ellipse(w0, h0, beta, depth, keep)
             w == Grown(w0, beta)
             h == Grown(h0, beta)
             d == <<c[1] + box.x0, c[2] + box.y0>> IN
         /\ c \in r.solid <=>
              /\ c = <<c[1], c[2]>> /\ c[1] \in 0..box.x1 - box.x0 /\ c[2] \in 0..box.y1 - box.y0
              /\ d \in Whole(w0, h0, beta)
         /\ c \in r.solid \ r.mask.cells <=>
              /\ c \in r.solid
              /\ d \in Within(w0, h0, beta, depth)
              /\ ~(\/ box.y0 > 0 /\ c[2] < depth
                   \/ box.y1 < h - 1 /\ c[2] >= (box.y1 - box.y0 + 1) - depth
                   \/ box.x0 > 0 /\ c[1] < depth
                   \/ box.x1 < w - 1 /\ c[1] >= (box.x1 - box.x0 + 1) - depth)
<1> DEFINE box == Box(w0, h0, beta, keep)
           S == Whole(w0, h0, beta)
           H == Within(w0, h0, beta, depth)
           w == Grown(w0, beta)
           h == Grown(h0, beta)
           r == Ellipse(w0, h0, beta, depth, keep)
           d == <<c[1] + box.x0, c[2] + box.y0>>
           wall == \/ box.y0 > 0 /\ c[2] < depth
                   \/ box.y1 < h - 1 /\ c[2] >= (box.y1 - box.y0 + 1) - depth
                   \/ box.x0 > 0 /\ c[1] < depth
                   \/ box.x1 < w - 1 /\ c[1] >= (box.x1 - box.x0 + 1) - depth
<1>1. w \in Nat \ {0} /\ h \in Nat \ {0} /\ w \in Nat /\ h \in Nat
  BY GrownIs
<1>2. box.x0 \in Int /\ box.x1 \in Int /\ box.y0 \in Int /\ box.y1 \in Int
  BY <1>1, BoxIs DEF Box
<1>3. S \in SUBSET (Int \X Int) /\ S \ H \in SUBSET (Int \X Int)
  BY <1>1 DEF Whole, Grid
<1>4. r.mask.cells = Kept(S \ H, box) \cup CutWalls(S, box, w, h, depth) /\ r.solid = Kept(S, box)
  BY EllipseIs
<1>5. c \in CutWalls(S, box, w, h, depth) <=> c \in Kept(S, box) /\ wall
  BY DEF CutWalls
<1> HIDE DEF box, S, H, w, h, r, wall
<1>6. c \in Kept(S, box) <=>
        /\ c = <<c[1], c[2]>> /\ c[1] \in 0..box.x1 - box.x0 /\ c[2] \in 0..box.y1 - box.y0
        /\ d \in S
  BY <1>2, <1>3, KeptIs
<1>7. c \in Kept(S \ H, box) <=>
        /\ c = <<c[1], c[2]>> /\ c[1] \in 0..box.x1 - box.x0 /\ c[2] \in 0..box.y1 - box.y0
        /\ d \in S \ H
  BY <1>2, <1>3, KeptIs
<1>8. H \subseteq S
  BY DEF H, S, Within
<1> HIDE DEF d
<1>9. c \in r.solid \ r.mask.cells <=> c \in r.solid /\ d \in H /\ ~wall
  BY <1>4, <1>5, <1>6, <1>7, <1>8
<1> QED
  BY <1>4, <1>6, <1>9 DEF box, S, H, w, h, r, wall, d

\* A cell of a disc and the hole in it, and the cells beside it.
LEMMA DiscBeside ==
  ASSUME NEW n0 \in Nat \ {0}, NEW beta \in -20..20, NEW depth \in Nat,
         NEW d \in Within(n0, n0, beta, depth), NEW e,
         \/ e = <<d[1] - 1, d[2]>> \/ e = <<d[1] + 1, d[2]>>
         \/ e = <<d[1], d[2] - 1>> \/ e = <<d[1], d[2] + 1>>
  PROVE  e \in Whole(n0, n0, beta)
<1> DEFINE n == Grown(n0, beta)
           a == Axis(n0, beta)
           b == a - 20 * depth
           x == Off(n, d[1])
           y == Off(n, d[2])
           u == Off(n, e[1])
           v == Off(n, e[2])
<1>1. n \in Nat \ {0} /\ n \in Nat /\ a \in Int /\ b \in Int /\ a <= 10 * n
  <2>1. n \in Nat \ {0} /\ n \in Nat /\ a \in Int /\ a <= 10 * n
    BY GrownIs
  <2> HIDE DEF n, a
  <2> QED
    BY <2>1
<1>2. d \in Grid(n, n) /\ depth > 0 /\ InEllipse(n, n, b, b, d)
  BY DEF Within, Whole
<1>3. d[1] \in 0..n - 1 /\ d[2] \in 0..n - 1 /\ d[1] \in Int /\ d[2] \in Int
  BY <1>1, <1>2, GridIs
<1>4. x \in Int /\ y \in Int /\ e[1] \in Int /\ e[2] \in Int
  BY <1>1, <1>3 DEF Off
<1> HIDE DEF n, a, b
<1>5. b > 0 /\ x * x + y * y <= b * b
  BY <1>1, <1>2, <1>3, InDisc
<1>6. \/ u \in {x - 20, x + 20} /\ v = y
      \/ v \in {y - 20, y + 20} /\ u = x
  BY <1>1, <1>3 DEF Off
<1>7. u \in Int /\ v \in Int
  BY <1>1, <1>4 DEF Off
<1> HIDE DEF x, y, u, v
<1>8. u * u + v * v <= (b + 20) * (b + 20)
  <2>1. CASE u \in {x - 20, x + 20} /\ v = y
    BY <1>1, <1>4, <1>5, <2>1, WiderDisc
  <2>2. CASE v \in {y - 20, y + 20} /\ u = x
    <3>1. y * y + x * x <= b * b /\ b \in Nat
      BY <1>1, <1>4, <1>5
    <3>2. v * v + u * u <= (b + 20) * (b + 20)
      BY <1>4, <2>2, <3>1, WiderDisc
    <3>3. v * v \in Int /\ u * u \in Int
      BY <1>7
    <3> QED
      BY <3>2, <3>3
  <2> QED
    BY <1>6, <2>1, <2>2
<1>9. b + 20 <= a /\ a > 0
  BY <1>1, <1>2, <1>5 DEF b
<1>10. (b + 20) * (b + 20) <= a * a
  BY <1>1, <1>5, <1>9
<1>11. u * u + v * v <= a * a /\ u * u \in Nat /\ v * v \in Nat /\ a * a \in Int
       /\ (b + 20) * (b + 20) \in Int
  <2>1. u * u \in Nat /\ v * v \in Nat
    BY <1>7, Squares
  <2>2. a * a \in Int /\ (b + 20) * (b + 20) \in Int
    BY <1>1
  <2> HIDE DEF Off
  <2> QED
    BY <1>8, <1>10, <2>1, <2>2
<1>12. InEllipse(n, n, a, a, e)
  BY <1>1, <1>4, <1>9, <1>11, InDisc DEF u, v
<1>13. u * u <= a * a /\ v * v <= a * a /\ a \in Nat
  BY <1>1, <1>9, <1>11
<1>14. e[1] \in 0..n - 1 /\ e[2] \in 0..n - 1
  BY <1>1, <1>4, <1>13, DiscInGrid DEF u, v
<1>15. e = <<e[1], e[2]>>
  BY <1>4
<1>16. e \in Grid(n, n)
  BY <1>1, <1>14, <1>15, GridIs
<1> QED
  BY <1>12, <1>16 DEF Whole, n, a

LEMMA CircleHole ==
  ASSUME NEW n0 \in Nat \ {0}, NEW beta \in -20..20, NEW depth \in Nat, NEW keep
  PROVE  LET r == Ellipse(n0, n0, beta, depth, keep) IN HoleIsInside(r.mask, r.solid)
<1> DEFINE box == Box(n0, n0, beta, keep)
           r == Ellipse(n0, n0, beta, depth, keep)
           n == Grown(n0, beta)
           To(c) == <<c[1] + box.x0, c[2] + box.y0>>
<1>1. n \in Nat \ {0} /\ n \in Nat
  BY GrownIs
<1>2. /\ box.x0 \in 0..box.x1 /\ box.x1 \in 0..n - 1 /\ box.y0 \in 0..box.y1 /\ box.y1 \in 0..n - 1
      /\ box.x0 \in Int /\ box.x1 \in Int /\ box.y0 \in Int /\ box.y1 \in Int
  BY <1>1, BoxIs DEF Box
<1>3. ASSUME NEW c \in r.solid \ r.mask.cells
      PROVE  /\ c = <<c[1], c[2]>> /\ c[1] \in 0..box.x1 - box.x0 /\ c[2] \in 0..box.y1 - box.y0
             /\ To(c) \in Within(n0, n0, beta, depth)
             /\ box.y0 > 0 => c[2] >= depth
             /\ box.y1 < n - 1 => c[2] < (box.y1 - box.y0 + 1) - depth
             /\ box.x0 > 0 => c[1] >= depth
             /\ box.x1 < n - 1 => c[1] < (box.x1 - box.x0 + 1) - depth
  <2>1. /\ c = <<c[1], c[2]>> /\ c[1] \in 0..box.x1 - box.x0 /\ c[2] \in 0..box.y1 - box.y0
        /\ To(c) \in Within(n0, n0, beta, depth)
        /\ ~(\/ box.y0 > 0 /\ c[2] < depth
             \/ box.y1 < n - 1 /\ c[2] >= (box.y1 - box.y0 + 1) - depth
             \/ box.x0 > 0 /\ c[1] < depth
             \/ box.x1 < n - 1 /\ c[1] >= (box.x1 - box.x0 + 1) - depth)
    BY HoleOf
  <2> HIDE DEF box, n, r, To
  <2> QED
    BY <1>2, <2>1
<1>4. ASSUME NEW e, e = <<e[1], e[2]>>, e[1] \in 0..box.x1 - box.x0, e[2] \in 0..box.y1 - box.y0,
             To(e) \in Whole(n0, n0, beta)
      PROVE  e \in r.solid
  BY <1>4, HoleOf
<1>5. ASSUME NEW d \in Whole(n0, n0, beta) PROVE d[1] \in 0..n - 1 /\ d[2] \in 0..n - 1
  BY <1>1, GridIs DEF Whole
<1>6. ASSUME NEW d \in Within(n0, n0, beta, depth) PROVE depth > 0
  BY DEF Within
<1> HIDE DEF box, n, r
<1>7. ASSUME NEW c \in r.solid \ r.mask.cells, NEW i \in {-1, 1}
      PROVE  <<c[1] + i, c[2]>> \in r.solid
  <2> DEFINE e == <<c[1] + i, c[2]>>
             d == To(c)
  <2>0. /\ c[1] \in 0..box.x1 - box.x0 /\ c[2] \in 0..box.y1 - box.y0
        /\ d \in Within(n0, n0, beta, depth)
        /\ box.y0 > 0 => c[2] >= depth
        /\ box.y1 < n - 1 => c[2] < (box.y1 - box.y0 + 1) - depth
        /\ box.x0 > 0 => c[1] >= depth
        /\ box.x1 < n - 1 => c[1] < (box.x1 - box.x0 + 1) - depth
    BY <1>3
  <2>1. c[1] \in Int /\ c[2] \in Int /\ depth >= 1
    <3>1. depth > 0
      BY <1>6, <2>0
    <3> HIDE DEF e, d
    <3> QED
      BY <1>2, <2>0, <3>1
  <2>2. d[1] = c[1] + box.x0 /\ d[2] = c[2] + box.y0
    OBVIOUS
  <2>3. To(e) = <<d[1] + i, d[2]>>
    BY <1>2, <2>1
  <2>4. To(e) = <<d[1] - 1, d[2]>> \/ To(e) = <<d[1] + 1, d[2]>>
    BY <1>2, <2>1, <2>2, <2>3
  <2>5. To(e) \in Whole(n0, n0, beta)
    BY <2>0, <2>4, DiscBeside
  <2>6. d[1] + i \in 0..n - 1
    BY <1>5, <2>3, <2>5
  <2>7. c[1] + i \in 0..box.x1 - box.x0
    <3> HIDE DEF e, d, To
    <3> QED
      BY <1>1, <1>2, <2>0, <2>1, <2>2, <2>6
  <2> QED
    BY <1>3, <1>4, <2>5, <2>7
<1>8. ASSUME NEW c \in r.solid \ r.mask.cells, NEW j \in {-1, 1}
      PROVE  <<c[1], c[2] + j>> \in r.solid
  <2> DEFINE e == <<c[1], c[2] + j>>
             d == To(c)
  <2>0. /\ c[1] \in 0..box.x1 - box.x0 /\ c[2] \in 0..box.y1 - box.y0
        /\ d \in Within(n0, n0, beta, depth)
        /\ box.y0 > 0 => c[2] >= depth
        /\ box.y1 < n - 1 => c[2] < (box.y1 - box.y0 + 1) - depth
        /\ box.x0 > 0 => c[1] >= depth
        /\ box.x1 < n - 1 => c[1] < (box.x1 - box.x0 + 1) - depth
    BY <1>3
  <2>1. c[1] \in Int /\ c[2] \in Int /\ depth >= 1
    <3>1. depth > 0
      BY <1>6, <2>0
    <3> HIDE DEF e, d
    <3> QED
      BY <1>2, <2>0, <3>1
  <2>2. d[1] = c[1] + box.x0 /\ d[2] = c[2] + box.y0
    OBVIOUS
  <2>3. To(e) = <<d[1], d[2] + j>>
    BY <1>2, <2>1
  <2>4. To(e) = <<d[1], d[2] - 1>> \/ To(e) = <<d[1], d[2] + 1>>
    BY <1>2, <2>1, <2>2, <2>3
  <2>5. To(e) \in Whole(n0, n0, beta)
    BY <2>0, <2>4, DiscBeside
  <2>6. d[2] + j \in 0..n - 1
    BY <1>5, <2>3, <2>5
  <2>7. c[2] + j \in 0..box.y1 - box.y0
    <3> HIDE DEF e, d, To
    <3> QED
      BY <1>1, <1>2, <2>0, <2>1, <2>2, <2>6
  <2> QED
    BY <1>3, <1>4, <2>5, <2>7
<1>9. HoleIsInside(r.mask, r.solid)
  BY <1>7, <1>8 DEF HoleIsInside
<1> QED
  BY <1>9 DEF r

\* A wall that reaches the middle leaves no hole.
LEMMA DeepestEllipse ==
  ASSUME NEW w0 \in Nat \ {0}, NEW h0 \in Nat \ {0}, NEW beta \in -20..20, NEW depth \in Nat,
         NEW keep, 20 * depth >= Axis(w0, beta) \/ 20 * depth >= Axis(h0, beta)
  PROVE  LET r == Ellipse(w0, h0, beta, depth, keep) IN
         \A c : c \in r.mask.cells <=> c \in r.solid
<1> DEFINE r == Ellipse(w0, h0, beta, depth, keep)
<1>1. Within(w0, h0, beta, depth) = {}
  <2>1. Axis(w0, beta) \in Int /\ Axis(h0, beta) \in Int
    BY GrownIs
  <2>2. ~(Axis(w0, beta) - 20 * depth > 0 /\ Axis(h0, beta) - 20 * depth > 0)
    BY <2>1
  <2>3. ASSUME NEW c \in Within(w0, h0, beta, depth) PROVE FALSE
    BY <2>2 DEF Within, InEllipse
  <2> QED
    BY <2>3
<1>2. \A c : c \notin r.solid \ r.mask.cells
  BY <1>1, HoleOf
<1>3. r.mask.cells \subseteq r.solid
  BY EllipseIsRaster DEF IsRaster
<1> HIDE DEF r
<1>4. \A c : c \in r.mask.cells <=> c \in r.solid
  BY <1>2, <1>3
<1> QED
  BY <1>4 DEF r

(* Mirror images.  sx and sy say which way a raster of w by h is mirrored.  *)

Mirror(w, h, sx, sy, c) ==
  <<IF sx = 1 THEN w - 1 - c[1] ELSE c[1], IF sy = 1 THEN h - 1 - c[2] ELSE c[2]>>
Mirrored(w, h, sx, sy, S) == \A c \in S : Mirror(w, h, sx, sy, c) \in S
MirroredMask(m, solid) ==
  \A sx, sy \in {0, 1} :
    Mirrored(m.w, m.h, sx, sy, m.cells) /\ Mirrored(m.w, m.h, sx, sy, solid)

LEMMA MirrorTwice ==
  ASSUME NEW w \in Int, NEW h \in Int, NEW sx \in {0, 1}, NEW sy \in {0, 1},
         NEW x \in Int, NEW y \in Int
  PROVE  Mirror(w, h, sx, sy, Mirror(w, h, sx, sy, <<x, y>>)) = <<x, y>>
BY DEF Mirror

\* No two cells of the hole meet at a corner across a gap: that is where closing
\* would have to choose between two solid cells.
NoSaddle(m, solid) ==
  \A c \in solid, i \in {-1, 1}, j \in {-1, 1} : Gap(m, c, i, j) => <<c[1] + i, c[2] + j>> \notin solid

LEMMA ClosedMirrored ==
  ASSUME NEW m, NEW solid, IsRaster(m, solid), NoSaddle(m, solid),
         NEW sx \in {0, 1}, NEW sy \in {0, 1},
         Mirrored(m.w, m.h, sx, sy, m.cells), Mirrored(m.w, m.h, sx, sy, solid)
  PROVE  Mirrored(m.w, m.h, sx, sy, CloseDiagonals(m, solid).cells)
<1> DEFINE closed == CloseDiagonals(m, solid).cells
           M(c) == Mirror(m.w, m.h, sx, sy, c)
<1>1. m.w \in Int /\ m.h \in Int /\ m.w \in Nat /\ m.h \in Nat
  BY DEF IsRaster
<1>2. m.cells \subseteq closed
  BY DrawnIsSolid
<1>3. ASSUME NEW c \in closed, c \notin m.cells PROVE M(c) \in closed
  <2>1. c \in solid
    BY <1>3, ClosingAdds
  <2>2. PICK i \in {-1, 1}, j \in {-1, 1} : Gap(m, c, i, j)
    BY <1>3, ClosingAdds
  <2>3. PICK x \in Int, y \in Int : c = <<x, y>>
    <3>1. c = <<c[1], c[2]>> /\ c[1] \in Int /\ c[2] \in Int
      BY <1>1, <2>1, GridIs DEF IsRaster
    <3> QED
      BY <3>1
  <2> DEFINE k == IF sx = 1 THEN -i ELSE i
             l == IF sy = 1 THEN -j ELSE j
             d == M(c)
  <2>4. k \in {-1, 1} /\ l \in {-1, 1}
    OBVIOUS
  <2>5. /\ M(<<x + i, y>>) = <<d[1] + k, d[2]>> /\ M(<<x, y + j>>) = <<d[1], d[2] + l>>
        /\ M(<<x + i, y + j>>) = <<d[1] + k, d[2] + l>>
    <3>1. i \in Int /\ j \in Int
      OBVIOUS
    <3>2. CASE sx = 1
      BY <1>1, <2>3, <3>1, <3>2 DEF Mirror
    <3>3. CASE sx # 1
      BY <1>1, <2>3, <3>1, <3>3 DEF Mirror
    <3> QED
      BY <3>2, <3>3
  <2>6. x + i \in Int /\ y + j \in Int
    OBVIOUS
  <2> HIDE DEF k, l
  <2>7. Gap(m, d, k, l)
    <3>0. ASSUME NEW u \in Int, NEW v \in Int
          PROVE  M(<<u, v>>) \in m.cells <=> <<u, v>> \in m.cells
      <4>1. M(M(<<u, v>>)) = <<u, v>>
        BY <1>1, MirrorTwice
      <4>2. \A e \in m.cells : M(e) \in m.cells
        BY DEF Mirrored
      <4> HIDE DEF M
      <4> QED
        BY <4>1, <4>2
    <3>1. <<d[1] + k, d[2]>> \in m.cells /\ <<d[1], d[2] + l>> \in m.cells
      BY <2>2, <2>3, <2>5 DEF Gap, Mirrored
    <3>2. d \notin m.cells
      BY <1>3, <2>3, <3>0
    <3>3. <<x + i, y + j>> \notin m.cells
      BY <2>2, <2>3 DEF Gap
    <3>4. M(<<x + i, y + j>>) \notin m.cells
      BY <2>6, <3>0, <3>3
    <3> QED
      BY <2>5, <3>1, <3>2, <3>4 DEF Gap
  <2>8. d \in solid
    BY <2>1 DEF Mirrored
  <2>9. <<d[1] + k, d[2] + l>> \notin solid
    BY <2>4, <2>7, <2>8 DEF NoSaddle
  <2> HIDE DEF d
  <2>10. d \in closed
    BY <2>4, <2>7, <2>8, <2>9, ClosingFills
  <2> QED
    BY <2>10 DEF d
<1>4. ASSUME NEW c \in m.cells PROVE M(c) \in closed
  BY <1>2 DEF Mirrored
<1> HIDE DEF closed
<1>5. \A c \in closed : M(c) \in closed
  BY <1>3, <1>4
<1> QED
  BY <1>5 DEF Mirrored, closed

(* Trimming. *)

LEMMA TrimIs ==
  ASSUME NEW m, m.w \in Nat, m.h \in Nat, m.cells \subseteq Grid(m.w, m.h), m.cells # {}
  PROVE  \E x0, x1, y0, y1 \in Int :
           /\ 0 <= x0 /\ x0 <= x1 /\ x1 <= m.w - 1 /\ 0 <= y0 /\ y0 <= y1 /\ y1 <= m.h - 1
           /\ \A c \in m.cells : c[1] \in x0..x1 /\ c[2] \in y0..y1
           /\ \E c \in m.cells : c[1] = x0
           /\ \E c \in m.cells : c[1] = x1
           /\ \E c \in m.cells : c[2] = y0
           /\ \E c \in m.cells : c[2] = y1
           /\ Trim(m).w = x1 - x0 + 1 /\ Trim(m).h = y1 - y0 + 1
           /\ \A c : c \in Trim(m).cells <=>
                /\ c = <<c[1], c[2]>> /\ c[1] \in 0..x1 - x0 /\ c[2] \in 0..y1 - y0
                /\ <<c[1] + x0, c[2] + y0>> \in m.cells
<1> DEFINE xs == {c[1] : c \in m.cells}
           ys == {c[2] : c \in m.cells}
           x0 == Min(xs)  x1 == Max(xs)  y0 == Min(ys)  y1 == Max(ys)
           box == [x0 |-> x0, x1 |-> x1, y0 |-> y0, y1 |-> y1]
<1>1. \A c \in m.cells : /\ c[1] \in 0..m.w - 1 /\ c[2] \in 0..m.h - 1
                         /\ c[1] \in Int /\ c[2] \in Int /\ c[1] \in Nat /\ c[2] \in Nat
                         /\ c[1] \in 0..m.w /\ c[2] \in 0..m.h /\ c = <<c[1], c[2]>>
  BY GridIs
<1>2. xs \in SUBSET Nat /\ xs # {} /\ xs \in SUBSET (0..m.w)
  BY <1>1
<1>3. ys \in SUBSET Nat /\ ys # {} /\ ys \in SUBSET (0..m.h)
  BY <1>1
<1>4. Trim(m) = [w |-> x1 - x0 + 1, h |-> y1 - y0 + 1, cells |-> Cut(m.cells, x0, y0, x1, y1)]
  BY DEF Trim
<1> HIDE DEF xs, ys
<1>5. x0 \in xs /\ x1 \in xs /\ (\A k \in xs : x0 <= k) /\ \A k \in xs : x1 >= k
  BY <1>2, MinOf, MaxOf
<1>6. y0 \in ys /\ y1 \in ys /\ (\A k \in ys : y0 <= k) /\ \A k \in ys : y1 >= k
  BY <1>3, MinOf, MaxOf
<1> HIDE DEF x0, x1, y0, y1
<1>7. /\ \E c \in m.cells : c[1] = x0
      /\ \E c \in m.cells : c[1] = x1
      /\ \E c \in m.cells : c[2] = y0
      /\ \E c \in m.cells : c[2] = y1
  BY <1>5, <1>6 DEF xs, ys
<1>8. x0 \in Nat /\ x1 \in Nat /\ y0 \in Nat /\ y1 \in Nat /\ x1 <= m.w - 1 /\ y1 <= m.h - 1
  BY <1>1, <1>7
<1>9. \A c \in m.cells : x0 <= c[1] /\ c[1] <= x1 /\ y0 <= c[2] /\ c[2] <= y1
  BY <1>1, <1>5, <1>6, <1>8 DEF xs, ys
<1>10. \A c \in m.cells : c[1] \in x0..x1 /\ c[2] \in y0..y1
  BY <1>1, <1>8, <1>9
<1>11. x0 <= x1 /\ y0 <= y1
  BY <1>1, <1>7, <1>8, <1>9
<1>12. m.cells \in SUBSET (Int \X Int)
  BY <1>1
<1>13. Trim(m).cells = Kept(m.cells, box)
  BY <1>4 DEF Kept
<1>14. ASSUME NEW c
       PROVE  c \in Trim(m).cells <=>
                /\ c = <<c[1], c[2]>> /\ c[1] \in 0..x1 - x0 /\ c[2] \in 0..y1 - y0
                /\ <<c[1] + x0, c[2] + y0>> \in m.cells
  <2>1. box.x0 = x0 /\ box.x1 = x1 /\ box.y0 = y0 /\ box.y1 = y1
    OBVIOUS
  <2> HIDE DEF box
  <2>2. box.x0 \in Int /\ box.x1 \in Int /\ box.y0 \in Int /\ box.y1 \in Int
    BY <1>8, <2>1
  <2> QED
    BY <1>12, <1>13, <2>1, <2>2, KeptIs
<1>15. Trim(m).w = x1 - x0 + 1 /\ Trim(m).h = y1 - y0 + 1
  BY <1>4
<1> WITNESS x0 \in Int, x1 \in Int, y0 \in Int, y1 \in Int
<1> QED
  BY <1>7, <1>8, <1>10, <1>11, <1>14, <1>15

LEMMA TrimMirrored ==
  ASSUME NEW m, m.w \in Nat, m.h \in Nat, m.cells \subseteq Grid(m.w, m.h),
         NEW sx \in {0, 1}, NEW sy \in {0, 1}, Mirrored(m.w, m.h, sx, sy, m.cells)
  PROVE  Mirrored(Trim(m).w, Trim(m).h, sx, sy, Trim(m).cells)
<1> DEFINE t == Trim(m)
           M(c) == Mirror(m.w, m.h, sx, sy, c)
<1>1. CASE m.cells = {}
  BY <1>1 DEF Trim
<1>2. CASE m.cells # {}
  <2>1. PICK x0, x1, y0, y1 \in Int :
          /\ 0 <= x0 /\ x0 <= x1 /\ x1 <= m.w - 1 /\ 0 <= y0 /\ y0 <= y1 /\ y1 <= m.h - 1
          /\ \A c \in m.cells : c[1] \in x0..x1 /\ c[2] \in y0..y1
          /\ \E c \in m.cells : c[1] = x0
          /\ \E c \in m.cells : c[1] = x1
          /\ \E c \in m.cells : c[2] = y0
          /\ \E c \in m.cells : c[2] = y1
          /\ t.w = x1 - x0 + 1 /\ t.h = y1 - y0 + 1
          /\ \A c : c \in t.cells <=>
               /\ c = <<c[1], c[2]>> /\ c[1] \in 0..x1 - x0 /\ c[2] \in 0..y1 - y0
               /\ <<c[1] + x0, c[2] + y0>> \in m.cells
    BY <1>2, TrimIs
  <2> HIDE DEF t
  <2>2. \A c \in m.cells : M(c) \in m.cells
    BY DEF Mirrored
  <2>3. sx = 1 => x0 + x1 = m.w - 1
    <3> SUFFICES ASSUME sx = 1 PROVE x0 + x1 = m.w - 1
      OBVIOUS
    <3>1. \A c \in m.cells : M(c)[1] = m.w - 1 - c[1]
      BY DEF Mirror
    <3> HIDE DEF M
    <3>2. m.w - 1 - x0 \in x0..x1 /\ m.w - 1 - x1 \in x0..x1
      BY <2>1, <2>2, <3>1
    <3> QED
      BY <3>2
  <2>4. sy = 1 => y0 + y1 = m.h - 1
    <3> SUFFICES ASSUME sy = 1 PROVE y0 + y1 = m.h - 1
      OBVIOUS
    <3>1. \A c \in m.cells : M(c)[2] = m.h - 1 - c[2]
      BY DEF Mirror
    <3> HIDE DEF M
    <3>2. m.h - 1 - y0 \in y0..y1 /\ m.h - 1 - y1 \in y0..y1
      BY <2>1, <2>2, <3>1
    <3> QED
      BY <3>2
  <2>5. ASSUME NEW c \in t.cells PROVE Mirror(t.w, t.h, sx, sy, c) \in t.cells
    <3> DEFINE d == Mirror(t.w, t.h, sx, sy, c)
               e == <<c[1] + x0, c[2] + y0>>
    <3>1. /\ c = <<c[1], c[2]>> /\ c[1] \in 0..x1 - x0 /\ c[2] \in 0..y1 - y0
          /\ e \in m.cells
      BY <2>1
    <3>2. c[1] \in Int /\ c[2] \in Int
      BY <3>1
    <3>3. d[1] = IF sx = 1 THEN t.w - 1 - c[1] ELSE c[1]
      BY DEF Mirror
    <3>4. d[2] = IF sy = 1 THEN t.h - 1 - c[2] ELSE c[2]
      BY DEF Mirror
    <3>5. d = <<d[1], d[2]>>
      BY DEF Mirror
    <3> HIDE DEF d
    <3>6. d[1] \in 0..x1 - x0 /\ d[1] + x0 = IF sx = 1 THEN m.w - 1 - (c[1] + x0) ELSE c[1] + x0
      <4>1. CASE sx = 1
        BY <2>1, <2>3, <3>1, <3>2, <3>3, <4>1
      <4>2. CASE sx # 1
        BY <2>1, <3>1, <3>2, <3>3, <4>2
      <4> QED
        BY <4>1, <4>2
    <3>7. d[2] \in 0..y1 - y0 /\ d[2] + y0 = IF sy = 1 THEN m.h - 1 - (c[2] + y0) ELSE c[2] + y0
      <4>1. CASE sy = 1
        BY <2>1, <2>4, <3>1, <3>2, <3>4, <4>1
      <4>2. CASE sy # 1
        BY <2>1, <3>1, <3>2, <3>4, <4>2
      <4> QED
        BY <4>1, <4>2
    <3>8. M(e) = <<d[1] + x0, d[2] + y0>>
      BY <3>6, <3>7 DEF Mirror
    <3>9. <<d[1] + x0, d[2] + y0>> \in m.cells
      BY <2>2, <3>1, <3>8
    <3>10. d \in t.cells
      BY <2>1, <3>5, <3>6, <3>7, <3>9
    <3> QED
      BY <3>10 DEF d
  <2> QED
    BY <2>5 DEF Mirrored, t
<1> QED
  BY <1>1, <1>2

LEMMA MirrorImages ==
  ASSUME NEW w \in Int, NEW h \in Int, NEW S \in SUBSET (Int \X Int),
         Mirrored(w, h, 1, 0, S), Mirrored(w, h, 0, 1, S)
  PROVE  /\ {<<w - 1 - c[1], c[2]>> : c \in S} = S
         /\ {<<c[1], h - 1 - c[2]>> : c \in S} = S
<1>1. \A c \in S : <<w - 1 - c[1], c[2]>> \in S
  BY DEF Mirrored, Mirror
<1>2. \A c \in S : <<c[1], h - 1 - c[2]>> \in S
  BY DEF Mirrored, Mirror
<1>3. ASSUME NEW c \in S PROVE c \in {<<w - 1 - d[1], d[2]>> : d \in S}
  <2> DEFINE d == <<w - 1 - c[1], c[2]>>
  <2>1. d \in S
    BY <1>1
  <2>2. c = <<w - 1 - d[1], d[2]>>
    OBVIOUS
  <2> QED
    BY <2>1, <2>2
<1>4. ASSUME NEW c \in S PROVE c \in {<<d[1], h - 1 - d[2]>> : d \in S}
  <2> DEFINE d == <<c[1], h - 1 - c[2]>>
  <2>1. d \in S
    BY <1>2
  <2>2. c = <<d[1], h - 1 - d[2]>>
    OBVIOUS
  <2> QED
    BY <2>1, <2>2
<1> QED
  BY <1>1, <1>2, <1>3, <1>4

(* The whole ellipse and the square are mirrored, and have no saddle.  *)

LEMMA WholeGrid ==
  ASSUME NEW w0 \in Nat \ {0}, NEW h0 \in Nat \ {0}, NEW beta \in -20..20, NEW depth \in Nat
  PROVE  LET r == Ellipse(w0, h0, beta, depth, "all") IN
         r.mask.w = Grown(w0, beta) /\ r.mask.h = Grown(h0, beta)
<1> DEFINE w == Grown(w0, beta)
           h == Grown(h0, beta)
           box == Box(w0, h0, beta, "all")
           r == Ellipse(w0, h0, beta, depth, "all")
<1>1. w \in Nat \ {0} /\ h \in Nat \ {0}
  BY GrownIs
<1>2. box = [x0 |-> 0, x1 |-> w - 1, y0 |-> 0, y1 |-> h - 1]
  BY DEF Box, CropBox
<1>3. r.mask.w = box.x1 - box.x0 + 1 /\ r.mask.h = box.y1 - box.y0 + 1
  BY EllipseIs
<1> HIDE DEF w, h, r, box
<1>4. r.mask.w = w /\ r.mask.h = h
  BY <1>1, <1>2, <1>3
<1> QED
  BY <1>4 DEF w, h, r

LEMMA WholeEllipse ==
  ASSUME NEW w0 \in Nat \ {0}, NEW h0 \in Nat \ {0}, NEW beta \in -20..20, NEW depth \in Nat
  PROVE  LET r == Ellipse(w0, h0, beta, depth, "all") IN
         /\ r.solid = Whole(w0, h0, beta)
         /\ \A c : c \in r.mask.cells <=>
              c \in Whole(w0, h0, beta) /\ c \notin Within(w0, h0, beta, depth)
<1> DEFINE w == Grown(w0, beta)
           h == Grown(h0, beta)
           S == Whole(w0, h0, beta)
           H == Within(w0, h0, beta, depth)
           box == Box(w0, h0, beta, "all")
           r == Ellipse(w0, h0, beta, depth, "all")
<1>1. w \in Nat \ {0} /\ h \in Nat \ {0} /\ w \in Nat /\ h \in Nat
  BY GrownIs
<1>2. box = [x0 |-> 0, x1 |-> w - 1, y0 |-> 0, y1 |-> h - 1]
  BY DEF Box, CropBox
<1>4. \A c : c \in S => /\ c = <<c[1], c[2]>> /\ c[1] \in 0..w - 1 /\ c[2] \in 0..h - 1
  BY <1>1, GridIs DEF Whole
<1>5. \A c : /\ c \in r.solid <=>
                  /\ c = <<c[1], c[2]>> /\ c[1] \in 0..box.x1 - box.x0 /\ c[2] \in 0..box.y1 - box.y0
                  /\ <<c[1] + box.x0, c[2] + box.y0>> \in S
             /\ c \in r.solid \ r.mask.cells <=>
                  /\ c \in r.solid
                  /\ <<c[1] + box.x0, c[2] + box.y0>> \in H
                  /\ ~(\/ box.y0 > 0 /\ c[2] < depth
                       \/ box.y1 < h - 1 /\ c[2] >= (box.y1 - box.y0 + 1) - depth
                       \/ box.x0 > 0 /\ c[1] < depth
                       \/ box.x1 < w - 1 /\ c[1] >= (box.x1 - box.x0 + 1) - depth)
  BY HoleOf
<1>6. r.mask.cells \subseteq r.solid
  BY EllipseIsRaster DEF IsRaster
<1>7. H \subseteq S
  BY DEF Within
<1> HIDE DEF w, h, S, H, r, box
<1>8. box.x0 = 0 /\ box.x1 = w - 1 /\ box.y0 = 0 /\ box.y1 = h - 1
  BY <1>2
<1>9. ASSUME NEW c PROVE c \in r.solid <=> c \in S
  <2>1. c = <<c[1], c[2]>> /\ c[1] \in 0..w - 1 /\ c[2] \in 0..h - 1
          => <<c[1] + box.x0, c[2] + box.y0>> = c
    BY <1>1, <1>8
  <2>2. box.x1 - box.x0 = w - 1 /\ box.y1 - box.y0 = h - 1
    BY <1>1, <1>8
  <2> QED
    BY <1>4, <1>5, <2>1, <2>2
<1>10. ASSUME NEW c \in S PROVE c \in r.solid \ r.mask.cells <=> c \in H
  <2>1. <<c[1] + box.x0, c[2] + box.y0>> = c
    BY <1>1, <1>4, <1>8
  <2>2. ~(box.y0 > 0) /\ ~(box.y1 < h - 1) /\ ~(box.x0 > 0) /\ ~(box.x1 < w - 1)
    BY <1>1, <1>8
  <2>3. c \in r.solid
    BY <1>9
  <2> QED
    BY <1>5, <2>1, <2>2, <2>3
<1>11. r.solid = S
  BY <1>9
<1>12. \A c : c \in r.mask.cells <=> c \in S /\ c \notin H
  BY <1>6, <1>10, <1>11
<1> QED
  BY <1>11, <1>12 DEF S, H, r

\* How far a cell is from the middle, squared, is the same in a mirror.
LEMMA OffMirrored ==
  ASSUME NEW n \in Int, NEW k \in Int
  PROVE  Off(n, k) \in Int /\ Off(n, n - 1 - k) * Off(n, n - 1 - k) = Off(n, k) * Off(n, k)
<1>1. Off(n, k) \in Int /\ Off(n, n - 1 - k) = -Off(n, k)
  BY DEF Off
<1> QED
  BY <1>1, Squares

LEMMA EllipseMirrored ==
  ASSUME NEW w \in Int, NEW h \in Int, NEW a \in Int, NEW b \in Int,
         NEW sx \in {0, 1}, NEW sy \in {0, 1},
         NEW c, c[1] \in Int, c[2] \in Int, InEllipse(w, h, a, b, c)
  PROVE  InEllipse(w, h, a, b, Mirror(w, h, sx, sy, c))
<1> DEFINE d == Mirror(w, h, sx, sy, c)
<1>1. d[1] \in {c[1], w - 1 - c[1]} /\ d[2] \in {c[2], h - 1 - c[2]}
  BY DEF Mirror
<1> HIDE DEF d
<1>2. d[1] \in Int /\ d[2] \in Int
  BY <1>1
<1>3. Off(w, d[1]) * Off(w, d[1]) = Off(w, c[1]) * Off(w, c[1])
  BY <1>1, OffMirrored
<1>4. Off(h, d[2]) * Off(h, d[2]) = Off(h, c[2]) * Off(h, c[2])
  BY <1>1, OffMirrored
<1>5. Off(w, c[1]) \in Int /\ Off(h, c[2]) \in Int
  BY OffMirrored
<1>6. Off(w, c[1]) * Off(w, c[1]) \in Int /\ Off(h, c[2]) * Off(h, c[2]) \in Int
  BY <1>5, Squares
<1>7. /\ Off(w, d[1]) * Off(w, d[1]) <= Off(w, c[1]) * Off(w, c[1])
      /\ Off(h, d[2]) * Off(h, d[2]) <= Off(h, c[2]) * Off(h, c[2])
  BY <1>3, <1>4, <1>6
<1>8. InEllipse(w, h, a, b, d)
  BY <1>2, <1>7, InEllipseToo
<1> QED
  BY <1>8 DEF d

LEMMA MirroredInGrid ==
  ASSUME NEW w \in Nat, NEW h \in Nat, NEW sx \in {0, 1}, NEW sy \in {0, 1}
  PROVE  Mirrored(w, h, sx, sy, Grid(w, h))
<1>1. ASSUME NEW c \in Grid(w, h) PROVE Mirror(w, h, sx, sy, c) \in Grid(w, h)
  <2> DEFINE d == Mirror(w, h, sx, sy, c)
  <2>1. c[1] \in 0..w - 1 /\ c[2] \in 0..h - 1
    BY GridIs
  <2>2. d = <<d[1], d[2]>> /\ d[1] \in {c[1], w - 1 - c[1]} /\ d[2] \in {c[2], h - 1 - c[2]}
    BY DEF Mirror
  <2> HIDE DEF d
  <2>3. d[1] \in 0..w - 1 /\ d[2] \in 0..h - 1
    BY <2>1, <2>2
  <2>4. d \in Grid(w, h)
    BY <2>2, <2>3, GridIs
  <2> QED
    BY <2>4 DEF d
<1> QED
  BY <1>1 DEF Mirrored

\* What is left of a mirrored set without a mirrored part of it is mirrored.
LEMMA MirroredWithout ==
  ASSUME NEW w \in Int, NEW h \in Int, NEW sx \in {0, 1}, NEW sy \in {0, 1},
         NEW S \in SUBSET (Int \X Int), NEW H \in SUBSET S,
         Mirrored(w, h, sx, sy, S), Mirrored(w, h, sx, sy, H)
  PROVE  Mirrored(w, h, sx, sy, S \ H)
<1> DEFINE M(c) == Mirror(w, h, sx, sy, c)
<1>1. ASSUME NEW c \in S \ H, M(c) \in H PROVE FALSE
  <2>1. PICK x \in Int, y \in Int : c = <<x, y>>
    OBVIOUS
  <2>2. M(M(c)) = c
    BY <2>1, MirrorTwice
  <2>3. \A e \in H : M(e) \in H
    BY DEF Mirrored
  <2> HIDE DEF M
  <2> QED
    BY <1>1, <2>2, <2>3
<1>2. \A c \in S : M(c) \in S
  BY DEF Mirrored
<1> HIDE DEF M
<1>3. \A c \in S \ H : M(c) \in S \ H
  BY <1>1, <1>2
<1> QED
  BY <1>3 DEF Mirrored, M

LEMMA WholeMirrored ==
  ASSUME NEW w0 \in Nat \ {0}, NEW h0 \in Nat \ {0}, NEW beta \in -20..20, NEW depth \in Nat
  PROVE  LET r == Ellipse(w0, h0, beta, depth, "all") IN MirroredMask(r.mask, r.solid)
<1> DEFINE w == Grown(w0, beta)
           h == Grown(h0, beta)
           a == Axis(w0, beta)
           b == Axis(h0, beta)
           a1 == a - 20 * depth
           b1 == b - 20 * depth
           S == Whole(w0, h0, beta)
           H == Within(w0, h0, beta, depth)
           r == Ellipse(w0, h0, beta, depth, "all")
<1> SUFFICES ASSUME NEW sx \in {0, 1}, NEW sy \in {0, 1}
             PROVE  /\ Mirrored(r.mask.w, r.mask.h, sx, sy, r.mask.cells)
                    /\ Mirrored(r.mask.w, r.mask.h, sx, sy, r.solid)
  BY DEF MirroredMask
<1>1. w \in Nat \ {0} /\ h \in Nat \ {0} /\ w \in Nat /\ h \in Nat /\ w \in Int /\ h \in Int
      /\ a \in Int /\ b \in Int
  <2>1. w \in Nat \ {0} /\ h \in Nat \ {0} /\ a \in Int /\ b \in Int
    BY GrownIs
  <2> HIDE DEF w, h, a, b
  <2> QED
    BY <2>1
<1>2. r.mask.w = w /\ r.mask.h = h /\ r.solid = S /\ r.mask.cells = S \ H
  <2>1. r.solid = S /\ \A c : c \in r.mask.cells <=> c \in S /\ c \notin H
    BY WholeEllipse
  <2>2. r.mask.w = w /\ r.mask.h = h
    BY WholeGrid
  <2> HIDE DEF w, h, S, H, r
  <2> QED
    BY <2>1, <2>2
<1>3. S = {c \in Grid(w, h) : InEllipse(w, h, a, b, c)}
  BY DEF Whole
<1>4. H = {c \in S : depth > 0 /\ InEllipse(w, h, a1, b1, c)}
  BY DEF Within
<1> HIDE DEF w, h, a, b, S, H, r
<1>5. a1 \in Int /\ b1 \in Int
  BY <1>1
<1> HIDE DEF a1, b1
<1>6. \A c \in Grid(w, h) : c[1] \in Int /\ c[2] \in Int /\ c \in Int \X Int
  BY <1>1 DEF Grid
<1>7. ASSUME NEW c \in S PROVE Mirror(w, h, sx, sy, c) \in S
  <2>1. Mirror(w, h, sx, sy, c) \in Grid(w, h)
    BY <1>1, <1>3, MirroredInGrid DEF Mirrored
  <2>2. InEllipse(w, h, a, b, Mirror(w, h, sx, sy, c))
    BY <1>1, <1>3, <1>6, EllipseMirrored
  <2> QED
    BY <1>3, <2>1, <2>2
<1>8. ASSUME NEW c \in H PROVE Mirror(w, h, sx, sy, c) \in H
  <2>1. c \in S
    BY <1>4
  <2>2. InEllipse(w, h, a1, b1, Mirror(w, h, sx, sy, c))
    BY <1>1, <1>3, <1>4, <1>5, <1>6, EllipseMirrored
  <2> QED
    BY <1>4, <1>7, <2>1, <2>2
<1>9. Mirrored(w, h, sx, sy, S) /\ Mirrored(w, h, sx, sy, H)
  BY <1>7, <1>8 DEF Mirrored
<1>10. S \in SUBSET (Int \X Int) /\ H \in SUBSET S
  BY <1>3, <1>4, <1>6
<1>11. Mirrored(w, h, sx, sy, S \ H)
  BY <1>1, <1>9, <1>10, MirroredWithout
<1> QED
  BY <1>2, <1>9, <1>11 DEF r

\* Of two cells of an ellipse that meet at a corner one of those between is in it
\* too: the one that is on the nearer column and the nearer row.
LEMMA WholeNoSaddle ==
  ASSUME NEW w0 \in Nat \ {0}, NEW h0 \in Nat \ {0}, NEW beta \in -20..20, NEW depth \in Nat
  PROVE  LET r == Ellipse(w0, h0, beta, depth, "all") IN NoSaddle(r.mask, r.solid)
<1> DEFINE w == Grown(w0, beta)
           h == Grown(h0, beta)
           a1 == Axis(w0, beta) - 20 * depth
           b1 == Axis(h0, beta) - 20 * depth
           S == Whole(w0, h0, beta)
           H == Within(w0, h0, beta, depth)
           r == Ellipse(w0, h0, beta, depth, "all")
           m == r.mask
           X(e) == Off(w, e[1]) * Off(w, e[1])
           Y(e) == Off(h, e[2]) * Off(h, e[2])
<1>1. w \in Nat /\ h \in Nat /\ w \in Int /\ h \in Int /\ Axis(w0, beta) \in Int /\ Axis(h0, beta) \in Int
  <2>1. w \in Nat \ {0} /\ h \in Nat \ {0} /\ Axis(w0, beta) \in Int /\ Axis(h0, beta) \in Int
    BY GrownIs
  <2> HIDE DEF w, h
  <2> QED
    BY <2>1
<1>2. m.cells = S \ H /\ r.solid = S
  <2>1. r.solid = S /\ \A c : c \in m.cells <=> c \in S /\ c \notin H
    BY WholeEllipse
  <2> HIDE DEF S, H, r, m
  <2> QED
    BY <2>1
<1>3. \A c \in S : c[1] \in Int /\ c[2] \in Int
  BY <1>1 DEF Whole, Grid
<1>4. \A c \in S : c \in H <=> depth > 0 /\ InEllipse(w, h, a1, b1, c)
  BY DEF Within
<1> HIDE DEF w, h
<1>5. a1 \in Int /\ b1 \in Int
  BY <1>1
<1> HIDE DEF a1, b1, S, H, r, m
<1>6. ASSUME NEW c \in S, NEW d \in S, c \in H, X(d) <= X(c), Y(d) <= Y(c) PROVE d \in H
  <2>1. InEllipse(w, h, a1, b1, c) /\ depth > 0
    BY <1>4, <1>6
  <2>2. c[1] \in Int /\ c[2] \in Int /\ d[1] \in Int /\ d[2] \in Int
    BY <1>3
  <2>3. InEllipse(w, h, a1, b1, d)
    BY <1>1, <1>5, <1>6, <2>1, <2>2, InEllipseToo
  <2> QED
    BY <1>4, <2>1, <2>3
<1>7. ASSUME NEW c \in S PROVE X(c) \in Int /\ Y(c) \in Int
  <2>1. Off(w, c[1]) \in Int /\ Off(h, c[2]) \in Int
    BY <1>1, <1>3, OffMirrored
  <2> QED
    BY <2>1, Squares
<1>8. ASSUME NEW c \in S, NEW i \in {-1, 1}, NEW j \in {-1, 1}, Gap(m, c, i, j),
             <<c[1] + i, c[2] + j>> \in S
      PROVE  FALSE
  <2> DEFINE d == <<c[1] + i, c[2] + j>>
             p == <<c[1] + i, c[2]>>
             q == <<c[1], c[2] + j>>
  <2>1. c \in H /\ d \in H /\ p \in S \ H /\ q \in S \ H
    BY <1>2, <1>8 DEF Gap
  <2>2. X(p) = X(d) /\ Y(p) = Y(c) /\ X(q) = X(c) /\ Y(q) = Y(d)
    OBVIOUS
  <2> HIDE DEF d, p, q
  <2>3. d \in S /\ p \in S /\ q \in S
    BY <1>8, <2>1 DEF d
  <2>4. X(c) \in Int /\ Y(c) \in Int /\ X(d) \in Int /\ Y(d) \in Int
    BY <1>7, <2>3
  <2> HIDE DEF X, Y
  <2>5. CASE X(d) <= X(c)
    <3>1. X(p) <= X(c) /\ Y(p) <= Y(c)
      BY <2>2, <2>4, <2>5
    <3> QED
      BY <1>6, <2>1, <2>3, <3>1
  <2>6. CASE ~(X(d) <= X(c))
    <3>1. X(q) <= X(d) /\ Y(q) <= Y(d)
      BY <2>2, <2>4, <2>6
    <3> QED
      BY <1>6, <2>1, <2>3, <3>1
  <2> QED
    BY <2>5, <2>6
<1>9. NoSaddle(m, S)
  BY <1>8 DEF NoSaddle
<1> QED
  BY <1>2, <1>9 DEF r, m

LEMMA SquareMirrored ==
  ASSUME NEW n \in Nat \ {0}, NEW depth \in Nat
  PROVE  LET r == Square(n, depth) IN
         MirroredMask(r.mask, r.solid) /\ NoSaddle(r.mask, r.solid)
<1> DEFINE r == Square(n, depth)
           m == r.mask
           H == r.solid \ m.cells
<1>1. /\ IsRaster(m, r.solid) /\ m.w = n /\ m.h = n /\ r.solid = Grid(n, n)
      /\ \A c : c \in H <=>
           /\ c \in Grid(n, n) /\ depth # 0
           /\ c[1] \in depth..n - depth - 1 /\ c[2] \in depth..n - depth - 1
  BY SquareIs
<1> HIDE DEF r, H
<1>2. n \in Nat /\ n \in Int
  OBVIOUS
<1>3. ASSUME NEW sx \in {0, 1}, NEW sy \in {0, 1}, NEW c \in H
      PROVE  Mirror(n, n, sx, sy, c) \in H
  <2> DEFINE d == Mirror(n, n, sx, sy, c)
  <2>1. d \in Grid(n, n)
    BY <1>1, <1>2, MirroredInGrid DEF Mirrored
  <2>2. d[1] \in {c[1], n - 1 - c[1]} /\ d[2] \in {c[2], n - 1 - c[2]}
    BY DEF Mirror
  <2>3. c[1] \in depth..n - depth - 1 /\ c[2] \in depth..n - depth - 1 /\ depth # 0
    BY <1>1
  <2> HIDE DEF d
  <2>4. d[1] \in depth..n - depth - 1 /\ d[2] \in depth..n - depth - 1
    BY <2>2, <2>3
  <2>5. d \in H
    BY <1>1, <2>1, <2>3, <2>4
  <2> QED
    BY <2>5 DEF d
<1>5. Grid(n, n) \in SUBSET (Int \X Int) /\ H \in SUBSET Grid(n, n)
  BY <1>1 DEF Grid
<1>6. ASSUME NEW sx \in {0, 1}, NEW sy \in {0, 1}
      PROVE  Mirrored(n, n, sx, sy, Grid(n, n)) /\ Mirrored(n, n, sx, sy, Grid(n, n) \ H)
  <2>1. Mirrored(n, n, sx, sy, Grid(n, n)) /\ Mirrored(n, n, sx, sy, H)
    BY <1>2, <1>3, MirroredInGrid DEF Mirrored
  <2> QED
    BY <1>2, <1>5, <2>1, MirroredWithout
<1>7. m.cells = Grid(n, n) \ H
  BY <1>1 DEF IsRaster, H
<1>8. ASSUME NEW c \in Grid(n, n), NEW i \in {-1, 1}, NEW j \in {-1, 1}, Gap(m, c, i, j),
             <<c[1] + i, c[2] + j>> \in Grid(n, n)
      PROVE  FALSE
  <2> DEFINE d == <<c[1] + i, c[2] + j>>
             p == <<c[1] + i, c[2]>>
  <2>1. c \in H /\ d \in H /\ p \in Grid(n, n) \ H
    BY <1>7, <1>8 DEF Gap
  <2>2. p[1] = d[1] /\ p[2] = c[2]
    OBVIOUS
  <2> HIDE DEF d, p
  <2> QED
    BY <1>1, <2>1, <2>2
<1>9. NoSaddle(m, Grid(n, n))
  BY <1>8 DEF NoSaddle
<1>10. MirroredMask(m, Grid(n, n))
  BY <1>1, <1>6, <1>7 DEF MirroredMask
<1> QED
  BY <1>1, <1>9, <1>10 DEF r

(* The rows, the size of a pixel, the ruled grid.  *)

LEMMA RunsOfRow ==
  ASSUME NEW m, m.w \in Nat, m.h \in Nat, m.cells \subseteq Grid(m.w, m.h),
         NEW x \in 0..m.w - 1, NEW y, <<x, y>> \in m.cells
  PROVE  Cardinality({s \in Runs(m, y) : x \in s[1]..s[2]}) = 1
<1> DEFINE on(k) == <<k, y>> \in m.cells
           Lows == {k \in 0..x : \A j \in k..x : on(j)}
           Highs == {k \in x..m.w - 1 : \A j \in x..k : on(j)}
<1>1. \A k \in Int : on(k) => k \in 0..m.w - 1
  <2>1. ASSUME NEW k \in Int, on(k) PROVE k \in 0..m.w - 1
    <3>1. <<k, y>> \in Grid(m.w, m.h)
      BY <2>1
    <3> QED
      BY <3>1, GridIs
  <2> QED
    BY <2>1
<1>2. on(x)
  OBVIOUS
<1>3. \A s : s \in Runs(m, y) <=>
        /\ s \in Grid(m.w, m.w) /\ s[1] <= s[2]
        /\ \A k \in s[1]..s[2] : on(k)
        /\ ~on(s[1] - 1) /\ ~on(s[2] + 1)
  BY DEF Runs
<1> HIDE DEF on
<1>4. x \in Lows /\ x \in Highs /\ Lows \in SUBSET Nat /\ Highs \in SUBSET (0..m.w) /\ Highs # {}
  <2>1. \A j \in x..x : on(j)
    BY <1>2
  <2> QED
    BY <2>1
<1>5. PICK lo \in Lows : \A k \in Lows : lo <= k
  <2> HIDE DEF Lows
  <2> QED
    BY <1>4, LeastOf
<1>6. PICK hi \in Highs : \A k \in Highs : hi >= k
  <2> HIDE DEF Highs
  <2> QED
    BY <1>4, MaxOf
<1>7. lo \in 0..x /\ hi \in x..m.w - 1 /\ \A j \in lo..hi : on(j)
  BY <1>5, <1>6
<1>8. ~on(lo - 1)
  <2> SUFFICES ASSUME on(lo - 1) PROVE FALSE
    OBVIOUS
  <2>1. lo - 1 \in 0..x
    BY <1>1, <1>7
  <2>2. \A j \in lo - 1..x : on(j)
    BY <1>7
  <2>3. lo - 1 \in Lows
    BY <2>1, <2>2
  <2> QED
    BY <1>5, <1>7, <2>3
<1>9. ~on(hi + 1)
  <2> SUFFICES ASSUME on(hi + 1) PROVE FALSE
    OBVIOUS
  <2>1. hi + 1 \in x..m.w - 1
    BY <1>1, <1>7
  <2>2. \A j \in x..hi + 1 : on(j)
    BY <1>7
  <2>3. hi + 1 \in Highs
    BY <2>1, <2>2
  <2> QED
    BY <1>6, <1>7, <2>3
<1> HIDE DEF Lows, Highs
<1> DEFINE r == <<lo, hi>>
<1>10. r \in Runs(m, y) /\ x \in r[1]..r[2]
  <2>1. r \in Grid(m.w, m.w)
    BY <1>7 DEF Grid
  <2> QED
    BY <1>3, <1>7, <1>8, <1>9, <2>1
<1>11. ASSUME NEW s \in Runs(m, y), x \in s[1]..s[2] PROVE s = r
  <2>1. /\ s = <<s[1], s[2]>> /\ s[1] \in 0..m.w - 1 /\ s[2] \in 0..m.w - 1
        /\ \A k \in s[1]..s[2] : on(k)
        /\ ~on(s[1] - 1) /\ ~on(s[2] + 1)
    BY <1>3, GridIs
  <2> DEFINE a == s[1]
             b == s[2]
  <2>2. a \in Int /\ b \in Int /\ a <= x /\ x <= b
    BY <1>11, <2>1
  <2> HIDE DEF a, b
  <2>3. ~(a < lo)
    <3> SUFFICES ASSUME a < lo PROVE FALSE
      OBVIOUS
    <3>1. lo - 1 \in a..b
      BY <1>7, <2>2
    <3> QED
      BY <1>8, <2>1, <3>1 DEF a, b
  <2>4. ~(lo < a)
    <3> SUFFICES ASSUME lo < a PROVE FALSE
      OBVIOUS
    <3>1. a - 1 \in lo..hi
      BY <1>7, <2>2
    <3> QED
      BY <1>7, <2>1, <3>1 DEF a, b
  <2>5. ~(hi < b)
    <3> SUFFICES ASSUME hi < b PROVE FALSE
      OBVIOUS
    <3>1. hi + 1 \in a..b
      BY <1>7, <2>2
    <3> QED
      BY <1>9, <2>1, <3>1 DEF a, b
  <2>6. ~(b < hi)
    <3> SUFFICES ASSUME b < hi PROVE FALSE
      OBVIOUS
    <3>1. b + 1 \in lo..hi
      BY <1>7, <2>2
    <3> QED
      BY <1>7, <2>1, <3>1 DEF a, b
  <2>7. a = lo /\ b = hi
    BY <1>7, <2>2, <2>3, <2>4, <2>5, <2>6
  <2> QED
    BY <2>1, <2>7 DEF a, b
<1> HIDE DEF r
<1>12. {s \in Runs(m, y) : x \in s[1]..s[2]} = {r}
  BY <1>10, <1>11
<1>13. Cardinality({r}) = 1
  BY FS_Singleton
<1> QED
  BY <1>12, <1>13

LEMMA RowsOf ==
  ASSUME NEW m, m.w \in Nat, m.h \in Nat, m.cells \subseteq Grid(m.w, m.h),
         NEW c \in Grid(m.w, m.h)
  PROVE  Cardinality({r \in Runs(m, c[2]) : c[1] \in r[1]..r[2]})
           = (IF c \in m.cells THEN 1 ELSE 0)
<1> DEFINE Q == {r \in Runs(m, c[2]) : c[1] \in r[1]..r[2]}
<1>1. c = <<c[1], c[2]>> /\ c[1] \in 0..m.w - 1
  BY GridIs
<1>2. CASE c \in m.cells
  <2>1. <<c[1], c[2]>> \in m.cells
    BY <1>1, <1>2
  <2>2. Cardinality(Q) = 1
    BY <1>1, <2>1, RunsOfRow
  <2> QED
    BY <1>2, <2>2
<1>3. CASE c \notin m.cells
  <2>1. ASSUME NEW r \in Q PROVE FALSE
    <3>1. <<c[1], c[2]>> \in m.cells
      BY DEF Runs
    <3> QED
      BY <1>1, <1>3, <3>1
  <2>2. Q = {}
    BY <2>1
  <2> HIDE DEF Q
  <2>3. Cardinality(Q) = 0
    BY <2>2, FS_EmptySet
  <2> QED
    BY <1>3, <2>3 DEF Q
<1> QED
  BY <1>2, <1>3

LEMMA MinOfTwo ==
  ASSUME NEW a \in Int, NEW b \in Int
  PROVE  Min({a, b}) \in {a, b} /\ Min({a, b}) <= a /\ Min({a, b}) <= b
<1>1. \E x \in {a, b} : \A y \in {a, b} : x <= y
  OBVIOUS
<1> QED
  BY <1>1 DEF Min

LEMMA CellSizeIs ==
  ASSUME NEW scale \in Nat \ {0}, NEW p \in 1..20
  PROVE  LET size == CellSize(scale, p) IN
         /\ size \in 1..scale /\ (scale - size) % 2 = 0
         /\ \A s \in {t \in 1..scale : (scale - t) % 2 = 0} :
              Distance(20 * size, scale * p) <= Distance(20 * s, scale * p)
<1> DEFINE v == scale * p
           q == (v + 10) \div 20
           near == Min({scale, Max({1, q})})
           size == CellSize(scale, p)
<1>1. v \in Int /\ 1 <= v /\ v <= 20 * scale
  <2>1. p * scale <= 20 * scale /\ 1 * scale <= p * scale
    BY Scaled1
  <2> QED
    BY <2>1
<1>2. size = IF (scale - near) % 2 = 0 THEN near
             ELSE IF near = 1 \/ Distance(v, 20 * (near - 1)) > Distance(v, 20 * (near + 1))
             THEN near + 1 ELSE near - 1
  BY DEF CellSize
<1> HIDE DEF v, size
<1>3. q \in Int /\ 20 * q <= v + 10 /\ v + 10 < 20 * q + 20
  BY <1>1
<1> HIDE DEF q
<1>4. q <= scale /\ 0 <= q
  BY <1>1, <1>3
<1>5. near = IF q = 0 THEN 1 ELSE q
  <2> DEFINE top == Max({1, q})
  <2>1. 1 \in Int /\ q \in Int /\ scale \in Int
    BY <1>3
  <2>2. top \in {1, q} /\ top >= 1 /\ top >= q
    BY <2>1, MaxOfTwo
  <2> HIDE DEF top
  <2>3. top \in Int /\ top = IF q = 0 THEN 1 ELSE q
    BY <1>3, <1>4, <2>2
  <2> DEFINE least == Min({scale, top})
  <2>4. least \in {scale, top} /\ least <= scale /\ least <= top
    BY <2>1, <2>3, MinOfTwo
  <2>5. near = least
    BY DEF top
  <2> HIDE DEF near, least
  <2> QED
    BY <1>3, <1>4, <2>3, <2>4, <2>5
<1> HIDE DEF near
<1>6. near \in 1..scale /\ 20 * near <= v + 19 /\ v <= 20 * near + 10
      /\ (near # 1 => 20 * near <= v + 10)
  BY <1>1, <1>3, <1>4, <1>5
<1>7. CASE (scale - near) % 2 = 0
  <2>1. size = near
    BY <1>2, <1>7
  <2>2. ASSUME NEW s \in 1..scale, (scale - s) % 2 = 0
        PROVE  Distance(20 * size, v) <= Distance(20 * s, v)
    <3>1. s = near \/ s >= near + 2 \/ s <= near - 2
      BY <1>6, <1>7, <2>2
    <3> QED
      BY <1>1, <1>6, <2>1, <3>1 DEF Distance
  <2> QED
    BY <1>6, <1>7, <2>1, <2>2 DEF size, v
<1>8. CASE (scale - near) % 2 # 0
  <2>1. near + 1 \in 1..scale /\ (scale - (near + 1)) % 2 = 0 /\ (scale - (near - 1)) % 2 = 0
    BY <1>6, <1>8
  <2>2. ASSUME NEW s \in 1..scale, (scale - s) % 2 = 0
        PROVE  s >= near + 1 \/ s <= near - 1
    BY <1>6, <1>8, <2>2
  <2>3. CASE near = 1 \/ Distance(v, 20 * (near - 1)) > Distance(v, 20 * (near + 1))
    <3>1. size = near + 1
      BY <1>2, <1>8, <2>3
    <3>2. ASSUME NEW s \in 1..scale, (scale - s) % 2 = 0
          PROVE  Distance(20 * size, v) <= Distance(20 * s, v)
      BY <1>1, <1>6, <2>2, <2>3, <3>1, <3>2 DEF Distance
    <3> QED
      BY <2>1, <3>1, <3>2 DEF size, v
  <2>4. CASE ~(near = 1 \/ Distance(v, 20 * (near - 1)) > Distance(v, 20 * (near + 1)))
    <3>1. size = near - 1 /\ near # 1
      BY <1>2, <1>8, <2>4
    <3>2. ASSUME NEW s \in 1..scale, (scale - s) % 2 = 0
          PROVE  Distance(20 * size, v) <= Distance(20 * s, v)
      BY <1>1, <1>6, <2>2, <2>4, <3>1, <3>2 DEF Distance
    <3>3. size \in 1..scale
      BY <1>6, <3>1
    <3> QED
      BY <2>1, <3>1, <3>2, <3>3 DEF size, v
  <2> QED
    BY <2>3, <2>4
<1> QED
  BY <1>7, <1>8

LEMMA BackingIs ==
  ASSUME NEW side \in Nat \ {0}, NEW p
  PROVE  BackingScale(side, p) \in Nat \ {0}
<1> DEFINE a == 1200 \div side
           b == Min({16, a})
           c == Max({3, b})
<1>1. a \in Int
  OBVIOUS
<1> HIDE DEF a
<1>2. b \in Int
  BY <1>1, MinOfTwo
<1> HIDE DEF b
<1>3. c \in Int /\ c >= 3
  BY <1>2, MaxOfTwo
<1>4. BackingScale(side, p) = IF p = 20 THEN 1 ELSE c
  BY DEF BackingScale, a, b
<1> HIDE DEF c
<1> QED
  BY <1>3, <1>4

LEMMA GridRuled ==
  ASSUME NEW m, m.w \in Nat \ {0}, m.h \in Nat \ {0}, NEW n \in {m.w, m.h}, NEW st \in Nat \ {0}
  PROVE  LET step == GridStep(m, st)
             lines == {x \in -step..n : x % step = GridOffset(n, step)} IN
         IF n % 2 = 0 THEN n \div 2 \in lines
         ELSE \E x \in lines : Distance(2 * x + step, n) <= 1
<1> DEFINE step == GridStep(m, st)
           lines == {x \in -step..n : x % step = GridOffset(n, step)}
           big == Max({m.w, m.h})
<1>1. big \in Nat \ {0}
  <2>1. m.w \in Int /\ m.h \in Int
    OBVIOUS
  <2>2. big \in {m.w, m.h}
    BY <2>1, MaxOfTwo
  <2> HIDE DEF big
  <2> QED
    BY <2>2
<1>2. step \in Nat \ {0}
  <2> HIDE DEF big
  <2>1. Min({st, big}) \in {st, big}
    BY <1>1, MinOfTwo
  <2> QED
    BY <1>1, <2>1 DEF GridStep, big
<1> HIDE DEF step, big
<1>3. n \in Nat \ {0}
  OBVIOUS
<1>4. CASE n % 2 = 0
  <2> DEFINE k == n \div 2
  <2>1. k \in -step..n
    BY <1>2, <1>3
  <2>2. GridOffset(n, step) = k % step
    BY <1>4 DEF GridOffset
  <2> HIDE DEF k
  <2>3. k \in lines
    BY <2>1, <2>2
  <2> QED
    BY <1>4, <2>3 DEF step, k
<1>5. CASE n % 2 # 0
  <2> DEFINE k == (n - step + 1) \div 2
  <2>1. k \in -step..n /\ Distance(2 * k + step, n) <= 1
    BY <1>2, <1>3 DEF Distance
  <2>2. GridOffset(n, step) = k % step
    BY <1>5 DEF GridOffset
  <2> HIDE DEF k
  <2>3. k \in lines
    BY <2>1, <2>2
  <2> QED
    BY <1>5, <2>1, <2>3 DEF step
<1> QED
  BY <1>4, <1>5

LEMMA TrimGrid ==
  ASSUME NEW m, m.w \in Nat \ {0}, m.h \in Nat \ {0}, m.cells \subseteq Grid(m.w, m.h)
  PROVE  LET t == Trim(m) IN
         t.w \in Nat \ {0} /\ t.h \in Nat \ {0} /\ t.cells \subseteq Grid(t.w, t.h)
<1> DEFINE t == Trim(m)
<1>1. CASE m.cells = {}
  BY <1>1 DEF Trim
<1>2. CASE m.cells # {}
  <2>1. m.w \in Nat /\ m.h \in Nat
    OBVIOUS
  <2>2. PICK x0, x1, y0, y1 \in Int :
          /\ 0 <= x0 /\ x0 <= x1 /\ x1 <= m.w - 1 /\ 0 <= y0 /\ y0 <= y1 /\ y1 <= m.h - 1
          /\ \A c \in m.cells : c[1] \in x0..x1 /\ c[2] \in y0..y1
          /\ \E c \in m.cells : c[1] = x0
          /\ \E c \in m.cells : c[1] = x1
          /\ \E c \in m.cells : c[2] = y0
          /\ \E c \in m.cells : c[2] = y1
          /\ t.w = x1 - x0 + 1 /\ t.h = y1 - y0 + 1
          /\ \A c : c \in t.cells <=>
               /\ c = <<c[1], c[2]>> /\ c[1] \in 0..x1 - x0 /\ c[2] \in 0..y1 - y0
               /\ <<c[1] + x0, c[2] + y0>> \in m.cells
    BY <1>2, <2>1, TrimIs
  <2> HIDE DEF t
  <2>3. t.w \in Nat \ {0} /\ t.h \in Nat \ {0} /\ t.w \in Nat /\ t.h \in Nat
    BY <2>2
  <2>4. ASSUME NEW c \in t.cells PROVE c \in Grid(t.w, t.h)
    <3>1. c = <<c[1], c[2]>> /\ c[1] \in 0..x1 - x0 /\ c[2] \in 0..y1 - y0
      BY <2>2
    <3>2. t.w - 1 = x1 - x0 /\ t.h - 1 = y1 - y0
      BY <2>2
    <3> QED
      BY <2>3, <3>1, <3>2, GridIs
  <2> QED
    BY <2>3, <2>4 DEF t
<1> QED
  BY <1>1, <1>2

(* The shapes.  *)

\* What the inputs of a shape are set to.
ValuesOf(s, v) ==
  v = [k \in Inputs(s) |-> v[k]] /\ \A k \in Inputs(s) : v[k] \in SettingsOf(k)

LEMMA SidesOf ==
  ASSUME NEW s \in Shapes, NEW v, ValuesOf(s, v)
  PROVE  /\ s # "square" => /\ v.h \in Nat \ {0} /\ Width(v) \in Nat \ {0}
                            /\ v.circle => Width(v) = v.h
         /\ s = "square" => v.size \in Nat \ {0}
<1>1. /\ s # "square" => "w" \in Inputs(s) /\ "h" \in Inputs(s)
      /\ s = "square" => "size" \in Inputs(s)
  BY DEF Shapes, Inputs
<1>2. SettingsOf("w") = Sides /\ SettingsOf("h") = Sides /\ SettingsOf("size") = Sides
  BY DEF SettingsOf
<1>3. Sides \subseteq Nat \ {0}
  BY PixelConstants
<1>4. /\ s # "square" => v["w"] \in Nat \ {0} /\ v["h"] \in Nat \ {0}
      /\ s = "square" => v["size"] \in Nat \ {0}
  BY <1>1, <1>2, <1>3 DEF ValuesOf
<1>5. Width(v) = IF v.circle THEN v.h ELSE v.w
  BY DEF Width
<1> QED
  BY <1>4, <1>5

LEMMA DepthIs ==
  ASSUME NEW m \in Modes, NEW t \in Nat \ {0}
  PROVE  WallDepth(m, t) \in Nat /\ (m = "thick" => WallDepth(m, t) = t)
BY DEF Modes, WallDepth

LEMMA RasterIs ==
  ASSUME NEW s \in Shapes, NEW v, ValuesOf(s, v), NEW m \in Modes, NEW t \in Nat \ {0},
         NEW beta \in -20..20
  PROVE  LET r == Raster(s, v, m, t, beta) IN
         /\ IsRaster(r.mask, r.solid)
         /\ s = "square" \/ v.circle => HoleIsInside(r.mask, r.solid)
<1> DEFINE depth == WallDepth(m, t)
           r == Raster(s, v, m, t, beta)
<1>1. depth \in Nat
  BY DepthIs
<1> HIDE DEF depth
<1>2. CASE s = "square"
  <2>1. r = Square(v.size, depth)
    BY <1>2 DEF Raster, depth
  <2>2. v.size \in Nat \ {0}
    BY <1>2, SidesOf
  <2> HIDE DEF r
  <2>3. IsRaster(r.mask, r.solid) /\ HoleIsInside(r.mask, r.solid)
    BY <1>1, <2>1, <2>2, SquareIs
  <2> QED
    BY <2>3 DEF r
<1>3. CASE s # "square"
  <2>1. r = Ellipse(Width(v), v.h, beta, depth, Keep(s, v))
    BY <1>3 DEF Raster, depth
  <2>2. v.h \in Nat \ {0} /\ Width(v) \in Nat \ {0} /\ (v.circle => Width(v) = v.h)
    BY <1>3, SidesOf
  <2> HIDE DEF r
  <2>3. IsRaster(r.mask, r.solid)
    BY <1>1, <2>1, <2>2, EllipseIsRaster
  <2>4. ASSUME v.circle PROVE HoleIsInside(r.mask, r.solid)
    <3>1. r = Ellipse(v.h, v.h, beta, depth, Keep(s, v))
      BY <2>1, <2>2, <2>4
    <3> QED
      BY <1>1, <2>2, <3>1, CircleHole
  <2> QED
    BY <1>3, <2>3, <2>4 DEF r
<1> QED
  BY <1>2, <1>3

LEMMA RasterMirrored ==
  ASSUME NEW s \in {"ellipse", "square"}, NEW v, ValuesOf(s, v), NEW m \in Modes,
         NEW t \in Nat \ {0}, NEW beta \in -20..20
  PROVE  LET r == Raster(s, v, m, t, beta) IN
         MirroredMask(r.mask, r.solid) /\ NoSaddle(r.mask, r.solid)
<1> DEFINE depth == WallDepth(m, t)
           r == Raster(s, v, m, t, beta)
<1>1. depth \in Nat
  BY DepthIs
<1>2. s \in Shapes
  BY DEF Shapes
<1> HIDE DEF depth
<1>3. CASE s = "square"
  <2>1. r = Square(v.size, depth)
    BY <1>3 DEF Raster, depth
  <2>2. v.size \in Nat \ {0}
    BY <1>2, <1>3, SidesOf
  <2> HIDE DEF r
  <2>3. MirroredMask(r.mask, r.solid) /\ NoSaddle(r.mask, r.solid)
    BY <1>1, <2>1, <2>2, SquareMirrored
  <2> QED
    BY <2>3 DEF r
<1>4. CASE s = "ellipse"
  <2>1. r = Ellipse(Width(v), v.h, beta, depth, "all")
    BY <1>4 DEF Raster, depth, Keep
  <2>2. v.h \in Nat \ {0} /\ Width(v) \in Nat \ {0}
    BY <1>2, <1>4, SidesOf
  <2> HIDE DEF r
  <2>3. MirroredMask(r.mask, r.solid) /\ NoSaddle(r.mask, r.solid)
    BY <1>1, <2>1, <2>2, WholeMirrored, WholeNoSaddle
  <2> QED
    BY <2>3 DEF r
<1> QED
  BY <1>3, <1>4

\* The deepest wall.
LEMMA DeepestIs ==
  ASSUME NEW s \in Shapes, NEW v, ValuesOf(s, v), NEW b \in -20..20, NEW t \in Nat \ {0},
         t = Max({2, MaxThicknessFor(s, v, b)})
  PROVE  LET r == Raster(s, v, "thick", t, IF s = "square" THEN 0 ELSE b) IN
         r.mask.cells = r.solid
<1> DEFINE r == Raster(s, v, "thick", t, IF s = "square" THEN 0 ELSE b)
<1>1. WallDepth("thick", t) = t
  BY DEF WallDepth
<1>2. CASE s = "square"
  <2> DEFINE n == v.size
             cap == SquareCap(n)
  <2>1. r = Square(n, t)
    BY <1>1, <1>2 DEF Raster
  <2>2. n \in Nat \ {0}
    BY <1>2, SidesOf
  <2>3. MaxThicknessFor(s, v, b) = cap
    BY <1>2 DEF MaxThicknessFor
  <2> HIDE DEF r, n
  <2>4. cap \in Int /\ 2 * cap >= n
    BY <2>2 DEF SquareCap
  <2> HIDE DEF cap
  <2>5. t >= cap
    <3>1. 2 \in Int
      OBVIOUS
    <3>2. Max({2, cap}) >= cap
      BY <2>4, <3>1, MaxOfTwo
    <3> QED
      BY <2>3, <3>2
  <2> DEFINE e == Square(n, t)
             H == e.solid \ e.mask.cells
  <2>6. IsRaster(e.mask, e.solid) /\ \A c \in H : c[1] \in t..n - t - 1
    <3>1. IsRaster(e.mask, e.solid)
      BY <2>2, SquareIs
    <3>2. ASSUME NEW c \in H PROVE c[1] \in t..n - t - 1
      BY <2>2, SquareIs
    <3> QED
      BY <3>1, <3>2
  <2> HIDE DEF e, H
  <2>7. ASSUME NEW c \in H PROVE FALSE
    <3>1. c[1] \in t..n - t - 1
      BY <2>6
    <3> QED
      BY <2>2, <2>4, <2>5, <3>1
  <2>8. e.mask.cells = e.solid
    BY <2>6, <2>7 DEF IsRaster, H
  <2> QED
    BY <2>1, <2>8 DEF r, e
<1>3. CASE s # "square"
  <2> DEFINE w == Width(v)
             h == v.h
             least == Min({w, h})
             need == (10 * least + b + 19) \div 20
             cap == Max({1, need})
  <2>1. r = Ellipse(w, h, b, t, Keep(s, v))
    BY <1>1, <1>3 DEF Raster
  <2>2. h \in Nat \ {0} /\ w \in Nat \ {0}
    BY <1>3, SidesOf
  <2>3. MaxThicknessFor(s, v, b) = cap
    BY <1>3 DEF MaxThicknessFor, EllipseCap
  <2> HIDE DEF r, w, h
  <2>4. least \in {w, h}
    <3>1. w \in Int /\ h \in Int
      BY <2>2
    <3> QED
      BY <3>1, MinOfTwo
  <2> HIDE DEF least
  <2>5. need \in Int /\ 20 * need >= 10 * least + b
    BY <2>2, <2>4
  <2> HIDE DEF need
  <2>6. cap \in Int /\ cap >= need
    <3>1. 1 \in Int /\ need \in Int
      BY <2>5
    <3>2. cap \in {1, need} /\ cap >= need
      BY <3>1, MaxOfTwo
    <3> HIDE DEF cap
    <3> QED
      BY <3>1, <3>2
  <2> HIDE DEF cap
  <2>7. t >= cap
    <3>1. 2 \in Int
      OBVIOUS
    <3>2. Max({2, cap}) >= cap
      BY <2>6, <3>1, MaxOfTwo
    <3> QED
      BY <2>3, <3>2
  <2>8. 20 * t >= 10 * w + b \/ 20 * t >= 10 * h + b
    BY <2>2, <2>4, <2>5, <2>6, <2>7
  <2>9. 20 * t >= Axis(w, b) \/ 20 * t >= Axis(h, b)
    BY <2>8 DEF Axis
  <2> DEFINE e == Ellipse(w, h, b, t, Keep(s, v))
  <2>10. \A c : c \in e.mask.cells <=> c \in e.solid
    BY <2>2, <2>9, DeepestEllipse
  <2> HIDE DEF e
  <2>11. e.mask.cells = e.solid
    BY <2>10
  <2> QED
    BY <2>1, <2>11 DEF r, e
<1> QED
  BY <1>2, <1>3

(* What is generated.  *)

Walled(r, m) == IF m = "diagonal" THEN CloseDiagonals(r.mask, r.solid) ELSE r.mask

LEMMA DrawnOf ==
  ASSUME NEW r, IsRaster(r.mask, r.solid), NEW m
  PROVE  LET d == Walled(r, m) IN
         /\ d.w = r.mask.w /\ d.h = r.mask.h /\ d.w \in Nat \ {0} /\ d.h \in Nat \ {0}
         /\ d.cells \subseteq r.solid /\ d.cells \subseteq Grid(d.w, d.h)
<1>1. r.mask.w \in Nat \ {0} /\ r.mask.h \in Nat \ {0} /\ r.solid \subseteq Grid(r.mask.w, r.mask.h)
      /\ r.mask.cells \subseteq r.solid
  BY DEF IsRaster
<1>2. CASE m = "diagonal"
  <2> DEFINE d == CloseDiagonals(r.mask, r.solid)
  <2>1. d.w = r.mask.w /\ d.h = r.mask.h
    BY ClosedIs
  <2>2. d.cells \subseteq r.solid
    BY DrawnIsSolid
  <2> HIDE DEF d
  <2>3. Walled(r, m) = d
    BY <1>2 DEF Walled, d
  <2> QED
    BY <1>1, <2>1, <2>2, <2>3
<1>3. CASE m # "diagonal"
  BY <1>1, <1>3 DEF Walled
<1> QED
  BY <1>2, <1>3

LEMMA GeneratedIs ==
  ASSUME NEW s, NEW v, NEW m, NEW t, NEW beta
  PROVE  LET r == Raster(s, v, m, t, beta)
             g == Generate(s, v, m, t, beta) IN
         g.mask = Trim(Walled(r, m)) /\ g.drawn = Walled(r, m).cells /\ g.solid = r.solid
BY DEF Generate, Walled

\* The page: what is shown when no frame is due is what the settings make.
PixelInv ==
  /\ shape \in Shapes /\ mode \in Modes /\ thickness \in Nat \ {0} /\ bias \in -20..20
  /\ frame \in BOOLEAN /\ ValuesOf(shape, values)
  /\ ~frame => current = Generate(shape, values, mode, thickness,
                                  IF shape = "square" THEN 0 ELSE bias)

Beta == IF shape = "square" THEN 0 ELSE bias
Made == Raster(shape, values, mode, thickness, Beta)

LEMMA ShownIs ==
  ASSUME PixelInv, ~frame
  PROVE  /\ IsRaster(Made.mask, Made.solid)
         /\ shape = "square" \/ values.circle => HoleIsInside(Made.mask, Made.solid)
         /\ current.mask = Trim(Walled(Made, mode))
         /\ current.drawn = Walled(Made, mode).cells
         /\ current.solid = Made.solid
<1>1. /\ shape \in Shapes /\ mode \in Modes /\ thickness \in Nat \ {0} /\ Beta \in -20..20
      /\ ValuesOf(shape, values)
  BY DEF PixelInv, Beta
<1>2. current = Generate(shape, values, mode, thickness, Beta)
  BY DEF PixelInv, Beta
<1>3. IsRaster(Made.mask, Made.solid)
  BY <1>1, RasterIs DEF Made
<1>4. shape = "square" \/ values.circle => HoleIsInside(Made.mask, Made.solid)
  BY <1>1, RasterIs DEF Made
<1>5. /\ current.mask = Trim(Walled(Made, mode))
      /\ current.drawn = Walled(Made, mode).cells
      /\ current.solid = Made.solid
  BY <1>2, GeneratedIs DEF Made
<1> QED
  BY <1>3, <1>4, <1>5

LEMMA PixelClosed == ASSUME PixelInv PROVE OutlineIsClosed
<1> DEFINE all == {<<c[1] + i, c[2] + j>> : c \in current.solid, i \in -1..1, j \in -1..1}
<1> SUFFICES ASSUME ~frame, shape = "square" \/ values.circle
             PROVE  Reached((all \ current.solid) \cap (all \ current.drawn),
                            all \ current.drawn, mode = "diagonal") \cap current.solid
                      \subseteq current.drawn
  BY DEF OutlineIsClosed
<1> DEFINE m == Made.mask
           solid == Made.solid
           drawn == current.drawn
<1>1. IsRaster(m, solid) /\ HoleIsInside(m, solid) /\ current.solid = solid
      /\ drawn = Walled(Made, mode).cells
  BY ShownIs
<1> HIDE DEF m, solid, drawn
<1>2. solid \subseteq all
  <2>1. ASSUME NEW c \in solid PROVE c \in all
    <3>1. c = <<c[1], c[2]>> /\ c[1] \in Int /\ c[2] \in Int
      BY <1>1, GridIs DEF IsRaster
    <3>2. c = <<c[1] + 0, c[2] + 0>> /\ 0 \in -1..1
      BY <3>1
    <3> QED
      BY <1>1, <3>2
  <2> QED
    BY <2>1
<1> HIDE DEF all
<1> DEFINE diagonal == mode = "diagonal"
<1>3. drawn = IF diagonal THEN CloseDiagonals(m, solid).cells ELSE m.cells
  BY <1>1 DEF Walled, m, solid
<1>4. diagonal \in BOOLEAN
  BY Zenon
<1> HIDE DEF diagonal
<1>5. Reached((all \ solid) \cap (all \ drawn), all \ drawn, diagonal) \cap solid \subseteq drawn
  <2>1. IsRaster(m, solid) /\ HoleIsInside(m, solid)
    BY <1>1
  <2> QED
    BY <1>2, <1>3, <1>4, <2>1, OutlineOf, Zenon
<1> QED
  BY <1>1, <1>5 DEF drawn, diagonal

LEMMA PixelDeepest == ASSUME PixelInv PROVE DeepestWallIsSolid
<1> SUFFICES ASSUME ~frame, mode = "thick", thickness = Cap PROVE current.drawn = current.solid
  BY DEF DeepestWallIsSolid
<1>1. /\ shape \in Shapes /\ thickness \in Nat \ {0} /\ bias \in -20..20 /\ ValuesOf(shape, values)
  BY DEF PixelInv
<1>2. thickness = Max({2, MaxThicknessFor(shape, values, bias)})
  BY DEF Cap
<1>3. Made.mask.cells = Made.solid
  BY <1>1, <1>2, DeepestIs DEF Made, Beta
<1>4. Walled(Made, mode) = Made.mask
  BY DEF Walled
<1> QED
  BY <1>3, <1>4, ShownIs

LEMMA PixelMask ==
  ASSUME PixelInv, ~frame
  PROVE  LET m == current.mask IN
         m.w \in Nat \ {0} /\ m.h \in Nat \ {0} /\ m.cells \subseteq Grid(m.w, m.h)
<1> DEFINE d == Walled(Made, mode)
<1>1. d.w \in Nat \ {0} /\ d.h \in Nat \ {0} /\ d.cells \subseteq Grid(d.w, d.h)
  BY ShownIs, DrawnOf
<1>2. current.mask = Trim(d)
  BY ShownIs
<1> HIDE DEF d
<1> QED
  BY <1>1, <1>2, TrimGrid

LEMMA PixelMirrored == ASSUME PixelInv PROVE ShapesAreSymmetric
<1> DEFINE d == Walled(Made, mode)
           m == current.mask
<1> SUFFICES ASSUME ~frame, shape \in {"ellipse", "square"}
             PROVE  /\ {<<m.w - 1 - c[1], c[2]>> : c \in m.cells} = m.cells
                    /\ {<<c[1], m.h - 1 - c[2]>> : c \in m.cells} = m.cells
  BY DEF ShapesAreSymmetric
<1>1. /\ mode \in Modes /\ thickness \in Nat \ {0} /\ Beta \in -20..20 /\ ValuesOf(shape, values)
  BY DEF PixelInv, Beta
<1>2. IsRaster(Made.mask, Made.solid)
  BY ShownIs
<1>3. MirroredMask(Made.mask, Made.solid) /\ NoSaddle(Made.mask, Made.solid)
  BY <1>1, RasterMirrored DEF Made
<1>4. ASSUME NEW sx \in {0, 1}, NEW sy \in {0, 1} PROVE Mirrored(d.w, d.h, sx, sy, d.cells)
  <2>1. /\ Mirrored(Made.mask.w, Made.mask.h, sx, sy, Made.mask.cells)
        /\ Mirrored(Made.mask.w, Made.mask.h, sx, sy, Made.solid)
    BY <1>3 DEF MirroredMask
  <2>2. d.w = Made.mask.w /\ d.h = Made.mask.h
    BY <1>2, DrawnOf
  <2>3. CASE mode = "diagonal"
    <3>1. Mirrored(Made.mask.w, Made.mask.h, sx, sy, CloseDiagonals(Made.mask, Made.solid).cells)
      BY <1>2, <1>3, <2>1, ClosedMirrored
    <3>2. d = CloseDiagonals(Made.mask, Made.solid)
      BY <2>3 DEF Walled
    <3> HIDE DEF d
    <3> QED
      BY <2>2, <3>1, <3>2
  <2>4. CASE mode # "diagonal"
    <3>1. d = Made.mask
      BY <2>4 DEF Walled
    <3> HIDE DEF d
    <3> QED
      BY <2>1, <3>1
  <2> QED
    BY <2>3, <2>4
<1>5. d.w \in Nat \ {0} /\ d.h \in Nat \ {0} /\ d.cells \subseteq Grid(d.w, d.h)
  BY <1>2, DrawnOf
<1>6. m = Trim(d)
  BY ShownIs
<1> HIDE DEF d
<1>7. ASSUME NEW sx \in {0, 1}, NEW sy \in {0, 1} PROVE Mirrored(m.w, m.h, sx, sy, m.cells)
  <2>1. d.w \in Nat /\ d.h \in Nat
    BY <1>5
  <2>2. Mirrored(Trim(d).w, Trim(d).h, sx, sy, Trim(d).cells)
    BY <1>4, <1>5, <2>1, TrimMirrored
  <2> QED
    BY <1>6, <2>2
<1>8. m.w \in Nat \ {0} /\ m.h \in Nat \ {0} /\ m.cells \subseteq Grid(m.w, m.h)
  BY PixelMask
<1> HIDE DEF m
<1>9. m.w \in Int /\ m.h \in Int /\ m.cells \in SUBSET (Int \X Int)
  BY <1>8 DEF Grid
<1>10. Mirrored(m.w, m.h, 1, 0, m.cells) /\ Mirrored(m.w, m.h, 0, 1, m.cells)
  BY <1>7
<1> QED
  BY <1>9, <1>10, MirrorImages

LEMMA PixelRows == ASSUME PixelInv PROVE RowsAreTheMask
<1> DEFINE m == current.mask
<1> SUFFICES ASSUME ~frame, NEW c \in Grid(m.w, m.h)
             PROVE  Cardinality({r \in Runs(m, c[2]) : c[1] \in r[1]..r[2]})
                      = (IF c \in m.cells THEN 1 ELSE 0)
  BY DEF RowsAreTheMask
<1>1. m.w \in Nat \ {0} /\ m.h \in Nat \ {0} /\ m.cells \subseteq Grid(m.w, m.h)
  BY PixelMask
<1> HIDE DEF m
<1>2. m.w \in Nat /\ m.h \in Nat
  BY <1>1
<1> QED
  BY <1>1, <1>2, RowsOf

LEMMA PixelCentred == ASSUME PixelInv PROVE PixelsAreCentred
<1> DEFINE side == Max({current.mask.w, current.mask.h})
<1> SUFFICES ASSUME ~frame, NEW p \in Pixels, NEW cell \in 1..8,
                    NEW scale \in {BackingScale(side, p), cell}
             PROVE  LET size == CellSize(scale, p) IN
                    /\ size \in 1..scale /\ (scale - size) % 2 = 0
                    /\ \A s \in {t \in 1..scale : (scale - t) % 2 = 0} :
                         Distance(20 * size, scale * p) <= Distance(20 * s, scale * p)
  BY DEF PixelsAreCentred
<1>1. p \in 1..20
  BY PixelConstants
<1>2. side \in Nat \ {0}
  <2>1. current.mask.w \in Nat \ {0} /\ current.mask.h \in Nat \ {0}
    BY PixelMask
  <2>2. current.mask.w \in Int /\ current.mask.h \in Int
    BY <2>1
  <2>3. side \in {current.mask.w, current.mask.h}
    BY <2>2, MaxOfTwo
  <2> HIDE DEF side
  <2> QED
    BY <2>1, <2>3
<1> HIDE DEF side
<1>3. scale \in Nat \ {0}
  BY <1>2, BackingIs
<1> QED
  BY <1>1, <1>3, CellSizeIs

LEMMA PixelGrid == ASSUME PixelInv PROVE GridIsCentred
<1> DEFINE m == current.mask
<1> SUFFICES ASSUME ~frame, NEW n \in {m.w, m.h}, NEW st \in Steps
             PROVE  LET step == GridStep(m, st)
                        lines == {x \in -step..n : x % step = GridOffset(n, step)} IN
                    IF n % 2 = 0 THEN n \div 2 \in lines
                    ELSE \E x \in lines : Distance(2 * x + step, n) <= 1
  BY DEF GridIsCentred
<1>1. m.w \in Nat \ {0} /\ m.h \in Nat \ {0}
  BY PixelMask
<1>2. st \in Nat \ {0}
  BY PixelConstants
<1> HIDE DEF m
<1> QED
  BY <1>1, <1>2, GridRuled

LEMMA PixelRight ==
  ASSUME PixelInv PROVE OutlineIsClosed /\ DeepestWallIsSolid /\ PictureIsTheShape
BY PixelClosed, PixelDeepest, PixelMirrored, PixelRows, PixelCentred, PixelGrid
   DEF PictureIsTheShape

LEMMA MostIs ==
  ASSUME NEW s \in Shapes, NEW v, ValuesOf(s, v), NEW b \in -20..20
  PROVE  MaxThicknessFor(s, v, b) \in Int
<1>1. CASE s = "square"
  <2>1. v.size \in Nat \ {0}
    BY <1>1, SidesOf
  <2> QED
    BY <1>1, <2>1 DEF MaxThicknessFor, SquareCap
<1>2. CASE s # "square"
  <2> DEFINE least == Min({Width(v), v.h})
             need == (10 * least + b + 19) \div 20
  <2>1. Width(v) \in Int /\ v.h \in Int
    BY <1>2, SidesOf
  <2>2. least \in Int
    BY <2>1, MinOfTwo
  <2> HIDE DEF least
  <2>3. need \in Int /\ 1 \in Int
    BY <2>2
  <2> HIDE DEF need
  <2>4. Max({1, need}) \in Int
    BY <2>3, MaxOfTwo
  <2> QED
    BY <1>2, <2>4 DEF MaxThicknessFor, EllipseCap, need, least
<1> QED
  BY <1>1, <1>2

LEMMA DefaultIs ==
  ASSUME NEW s \in Shapes, NEW k \in Inputs(s)
  PROVE  k \in DOMAIN Default /\ Default[k] \in SettingsOf(k)
<1> DEFINE largest == Max(Sides)
<1>1. largest \in Sides
  <2>1. 512 \in Nat /\ Sides \in SUBSET (0..512) /\ Sides # {}
    BY PixelConstants
  <2> QED
    BY <2>1, MaxOf
<1>2. Default = [circle |-> TRUE, w |-> largest, h |-> largest,
                 facing |-> "Up", corner |-> "TL", size |-> largest]
  BY DEF Default
<1> HIDE DEF largest
<1>3. k \in {"circle", "w", "h", "facing", "corner", "size"}
  BY DEF Shapes, Inputs
<1>4. k \in DOMAIN Default
  BY <1>2, <1>3
<1>5. CASE k = "circle"
  <2>1. SettingsOf(k) = BOOLEAN /\ Default[k] = TRUE
    BY <1>2, <1>5 DEF SettingsOf
  <2> QED
    BY <1>4, <2>1
<1>6. CASE k = "facing"
  BY <1>2, <1>4, <1>6 DEF SettingsOf, Facings
<1>7. CASE k = "corner"
  BY <1>2, <1>4, <1>7 DEF SettingsOf, Corners
<1>8. CASE k \in {"w", "h", "size"}
  BY <1>1, <1>2, <1>4, <1>8 DEF SettingsOf
<1> QED
  BY <1>3, <1>5, <1>6, <1>7, <1>8

LEMMA DefaultsAre ==
  ASSUME NEW s \in Shapes, NEW v, \A k \in DOMAIN v : v[k] \in SettingsOf(k)
  PROVE  ValuesOf(s, DefaultsFor(s, v))
<1> DEFINE new == DefaultsFor(s, v)
<1>1. new = [k \in Inputs(s) |-> IF k \in DOMAIN v THEN v[k] ELSE Default[k]]
  BY DEF DefaultsFor
<1> HIDE DEF new
<1>2. new = [k \in Inputs(s) |-> new[k]]
  BY <1>1
<1>3. ASSUME NEW k \in Inputs(s) PROVE new[k] \in SettingsOf(k)
  BY <1>1, DefaultIs
<1> QED
  BY <1>2, <1>3 DEF ValuesOf, new

LEMMA PixelStarts == ASSUME PixelInit PROVE PixelInv
<1>1. /\ shape = "ellipse" /\ values = DefaultsFor("ellipse", Default)
      /\ mode = "outline" /\ thickness = 2 /\ bias = 0 /\ frame = TRUE
  BY DEF PixelInit
<1>2. \A k \in DOMAIN Default : Default[k] \in SettingsOf(k)
  <2>1. ASSUME NEW k \in DOMAIN Default PROVE Default[k] \in SettingsOf(k)
    <3>1. k \in {"circle", "w", "h", "facing", "corner", "size"}
      BY DEF Default
    <3>2. \E s \in Shapes : k \in Inputs(s)
      <4>1. "circle" \in Inputs("ellipse") /\ "w" \in Inputs("ellipse") /\ "h" \in Inputs("ellipse")
            /\ "facing" \in Inputs("semi") /\ "corner" \in Inputs("quarter")
            /\ "size" \in Inputs("square")
        BY DEF Inputs
      <4> QED
        BY <3>1, <4>1 DEF Shapes
    <3> QED
      BY <3>2, DefaultIs
  <2> QED
    BY <2>1
<1>3. "ellipse" \in Shapes /\ "outline" \in Modes
  BY DEF Shapes, Modes
<1>4. ValuesOf(shape, values)
  BY <1>1, <1>2, <1>3, DefaultsAre
<1> QED
  BY <1>1, <1>3, <1>4 DEF PixelInv

LEMMA PixelGoesOn == ASSUME PixelInv, PixelNext PROVE PixelInv'
<1>1. /\ shape \in Shapes /\ mode \in Modes /\ thickness \in Nat \ {0} /\ bias \in -20..20
      /\ frame \in BOOLEAN /\ ValuesOf(shape, values)
  BY DEF PixelInv
<1>2. ASSUME NEW s \in Shapes, ChooseShape(s) PROVE PixelInv'
  <2>1. shape' = s /\ values' = DefaultsFor(s, values) /\ frame' = TRUE
        /\ mode' = mode /\ thickness' = thickness /\ bias' = bias
    BY <1>2 DEF ChooseShape, Redraw
  <2>2. \A k \in DOMAIN values : values[k] \in SettingsOf(k)
    BY <1>1 DEF ValuesOf
  <2>3. ValuesOf(s, DefaultsFor(s, values))
    BY <2>2, DefaultsAre
  <2> QED
    BY <1>1, <2>1, <2>3 DEF PixelInv
<1>3. ASSUME NEW k \in DOMAIN values, SetInput(k) PROVE PixelInv'
  <2>1. PICK x \in SettingsOf(k) : values' = [values EXCEPT ![k] = x]
    BY <1>3 DEF SetInput
  <2>2. shape' = shape /\ frame' = TRUE /\ mode' = mode /\ thickness' = thickness /\ bias' = bias
    BY <1>3 DEF SetInput, Redraw
  <2>3. ValuesOf(shape, values')
    <3>1. values = [i \in Inputs(shape) |-> values[i]] /\ \A i \in Inputs(shape) : values[i] \in SettingsOf(i)
      BY <1>1 DEF ValuesOf
    <3>2. values' = [i \in Inputs(shape) |-> IF i = k THEN x ELSE values[i]]
      BY <2>1, <3>1
    <3>3. \A i \in Inputs(shape) : values'[i] \in SettingsOf(i)
      BY <3>1, <3>2
    <3>4. values' = [i \in Inputs(shape) |-> values'[i]]
      BY <3>2
    <3> QED
      BY <3>3, <3>4 DEF ValuesOf
  <2> QED
    BY <1>1, <2>2, <2>3 DEF PixelInv
<1>4. ASSUME NEW m \in Modes, ChooseMode(m) PROVE PixelInv'
  <2>1. mode' = m /\ shape' = shape /\ values' = values /\ frame' = TRUE
        /\ thickness' = thickness /\ bias' = bias
    BY <1>4 DEF ChooseMode, Redraw
  <2> QED
    BY <1>1, <2>1 DEF PixelInv
<1>5. ASSUME NEW t \in Depths, SlideDepth(t) PROVE PixelInv'
  <2>1. mode' = mode /\ shape' = shape /\ values' = values /\ frame' = TRUE
        /\ thickness' = t /\ bias' = bias
    BY <1>5 DEF SlideDepth, Redraw
  <2>2. t \in Nat \ {0}
    BY PixelConstants
  <2> QED
    BY <1>1, <2>1, <2>2 DEF PixelInv
<1>6. ASSUME NEW b \in Biases, SlideBias(b) PROVE PixelInv'
  <2>1. mode' = mode /\ shape' = shape /\ values' = values /\ frame' = TRUE
        /\ thickness' = thickness /\ bias' = b
    BY <1>6 DEF SlideBias, Redraw
  <2>2. b \in -20..20
    BY PixelConstants
  <2> QED
    BY <1>1, <2>1, <2>2 DEF PixelInv
<1>7. CASE Frame2D
  <2>1. /\ mode' = mode /\ shape' = shape /\ values' = values /\ bias' = bias /\ frame' = FALSE
        /\ thickness' = Min({thickness, Cap})
        /\ current' = Generate(shape, values, mode, thickness', IF shape = "square" THEN 0 ELSE bias)
    BY <1>7 DEF Frame2D
  <2>2. Cap \in Nat \ {0}
    <3> DEFINE most == MaxThicknessFor(shape, values, bias)
    <3>1. most \in Int
      BY <1>1, MostIs
    <3>2. 2 \in Int
      OBVIOUS
    <3> HIDE DEF most
    <3>3. Max({2, most}) \in {2, most} /\ Max({2, most}) >= 2
      BY <3>1, <3>2, MaxOfTwo
    <3>4. Cap = Max({2, most})
      BY DEF Cap, most
    <3> HIDE DEF Cap
    <3> QED
      BY <3>1, <3>3, <3>4
  <2>3. thickness' \in Nat \ {0}
    <3>1. thickness \in Int /\ Cap \in Int
      BY <1>1, <2>2
    <3>2. Min({thickness, Cap}) \in {thickness, Cap}
      BY <3>1, MinOfTwo
    <3> QED
      BY <1>1, <2>1, <2>2, <3>2
  <2> QED
    BY <1>1, <2>1, <2>3 DEF PixelInv
<1> QED
  BY <1>2, <1>3, <1>4, <1>5, <1>6, <1>7 DEF PixelNext

LEMMA PixelsStand == ASSUME PixelInv, UNCHANGED pixelVars PROVE PixelInv'
BY DEF PixelInv, pixelVars

-----------------------------------------------------------------------------
(* Division. *)

LEMMA DivMod ==
  ASSUME NEW t \in Nat, NEW b \in Nat \ {0}
  PROVE  /\ t \div b \in Nat /\ t % b \in 0..b - 1
         /\ t = b * (t \div b) + (t % b)
OBVIOUS

LEMMA Factor ==
  ASSUME NEW b \in Nat \ {0}, NEW q \in Int, NEW p \in Int, NEW r \in 0..b - 1, NEW s \in 0..b - 1,
         b * q + r = b * p + s
  PROVE  q = p /\ r = s
<1>1. CASE q < p
  <2>1. b * (q + 1) <= b * p
    BY <1>1
  <2>2. b * (q + 1) = b * q + b
    OBVIOUS
  <2> QED
    BY <2>1, <2>2
<1>2. CASE q > p
  <2>1. b * (p + 1) <= b * q
    BY <1>2
  <2>2. b * (p + 1) = b * p + b
    OBVIOUS
  <2> QED
    BY <2>1, <2>2
<1>3. CASE q = p
  BY <1>3
<1> QED
  BY <1>1, <1>2, <1>3

LEMMA DivIs ==
  ASSUME NEW b \in Nat \ {0}, NEW q \in Nat, NEW r \in 0..b - 1
  PROVE  (b * q + r) \div b = q /\ (b * q + r) % b = r
<1> DEFINE t == b * q + r
<1>1. t \in Nat
  OBVIOUS
<1> HIDE DEF t
<1>2. t \div b \in Nat /\ t % b \in 0..b - 1 /\ t = b * (t \div b) + (t % b)
  BY <1>1, DivMod
<1> DEFINE x == t \div b
           y == t % b
<1>3. x \in Nat /\ y \in 0..b - 1 /\ b * x + y = b * q + r
  BY <1>2 DEF t
<1> HIDE DEF x, y
<1>4. x = q /\ y = r
  BY <1>3, Factor
<1> QED
  BY <1>4 DEF t, x, y

\* Until the next multiple the quotient stays.
LEMMA SameDiv ==
  ASSUME NEW b \in Nat \ {0}, NEW t \in Nat, NEW u \in Nat, t <= u,
         u < ((t \div b) + 1) * b
  PROVE  u \div b = t \div b
<1> DEFINE q == t \div b
           r == u - b * q
<1>1. q \in Nat /\ t % b \in 0..b - 1 /\ t = b * q + (t % b)
  BY DivMod
<1> HIDE DEF q
<1>2. b * q \in Int /\ (q + 1) * b = b * q + b
  BY <1>1
<1>3. r \in 0..b - 1 /\ u = b * q + r
  BY <1>1, <1>2 DEF q
<1> HIDE DEF r
<1> QED
  BY <1>1, <1>3, DivIs DEF q

LEMMA NextMultipleIs ==
  ASSUME NEW b \in Nat \ {0}, NEW t \in Nat
  PROVE  /\ NextMultiple(t, b) \in Nat /\ NextMultiple(t, b) > t
         /\ NextMultiple(t, b) = ((t \div b) + 1) * b
<1> DEFINE q == t \div b
<1>1. q \in Nat /\ t % b \in 0..b - 1 /\ t = b * q + (t % b)
  BY DivMod
<1>2. NextMultiple(t, b) = (q + 1) * b
  BY DEF NextMultiple
<1> HIDE DEF q
<1>3. (q + 1) * b = b * q + b /\ b * q \in Int
  BY <1>1
<1> QED
  BY <1>1, <1>2, <1>3 DEF q

LEMMA Regrouped ==
  ASSUME NEW a \in Int, NEW b \in Int, NEW x \in Int
  PROVE  b * (a * x) = (a * b) * x
OBVIOUS

\* Dividing twice.
LEMMA DivDiv ==
  ASSUME NEW a \in Nat \ {0}, NEW b \in Nat \ {0}, NEW t \in Nat
  PROVE  /\ a * b \in Nat \ {0}
         /\ (t \div b) \div a = t \div (a * b)
         /\ (t % (a * b)) \div b = (t \div b) % a
<1> DEFINE n == a * b
           q == t \div b
           r == t % b
           x == q \div a
           y == q % a
<1>1. q \in Nat /\ r \in 0..b - 1 /\ t = b * q + r
  BY DivMod
<1> HIDE DEF q, r
<1>2. x \in Nat /\ y \in 0..a - 1 /\ q = a * x + y
  BY <1>1, DivMod
<1> HIDE DEF x, y
<1>3. n \in Nat \ {0} /\ n = b * a
  OBVIOUS
<1>4. b * y \in Int /\ b * y >= 0 /\ b * y + b <= n
  <2>1. b * y \in Int /\ b * (y + 1) = b * y + b
    BY <1>2
  <2>2. b * (y + 1) <= b * a /\ b * y >= 0
    BY <1>2
  <2> QED
    BY <2>1, <2>2, <1>3
<1>5. t = n * x + (b * y + r)
  <2>1. b * q = b * (a * x) + b * y
    BY <1>2
  <2>2. b * (a * x) = n * x
    <3>1. a \in Int /\ b \in Int /\ x \in Int
      BY <1>2
    <3> QED
      BY <3>1, Regrouped, Zenon
  <2>3. b * q = n * x + b * y
    BY <2>1, <2>2, Zenon
  <2>4. n * x \in Int /\ b * q \in Int
    BY <1>1, <1>2, <1>3
  <2>5. b * y \in Int /\ r \in Int /\ t \in Int /\ t = b * q + r
    BY <1>1, <1>4
  <2> DEFINE nx == n * x
             bq == b * q
             by == b * y
  <2>6. bq = nx + by /\ nx \in Int /\ by \in Int /\ r \in Int /\ t = bq + r
    BY <2>3, <2>4, <2>5, Zenon
  <2> HIDE DEF nx, bq, by
  <2>7. t = nx + (by + r)
    BY <2>6
  <2> QED
    BY <2>7 DEF nx, by
<1>6. b * y + r \in 0..n - 1
  BY <1>1, <1>3, <1>4
<1> HIDE DEF n
<1>7. t \div n = x /\ t % n = b * y + r
  BY <1>2, <1>3, <1>5, <1>6, DivIs
<1>8. (b * y + r) \div b = y
  BY <1>1, <1>2, DivIs
<1>9. x = (t \div b) \div a /\ y = (t \div b) % a
  BY DEF x, y, q
<1> QED
  BY <1>3, <1>7, <1>8, <1>9 DEF n

(* A function defined by what it is at 0 and by how it goes on.  *)

Chained(g, n, base, step) == g[0] = base /\ \A i \in 1..n : g[i] = step[<<g[i - 1], i>>]

LEMMA SomeChain ==
  ASSUME NEW n \in Nat, NEW S, NEW base \in S, NEW step \in [S \X (1..n) -> S]
  PROVE  \E g \in [0..n -> S] : Chained(g, n, base, step)
<1> DEFINE P == {k \in 0..n : \E g \in [0..k -> S] : Chained(g, k, base, step)}
<1>1. 0 \in P
  <2>1. [i \in 0..0 |-> base] \in [0..0 -> S]
    OBVIOUS
  <2>2. Chained([i \in 0..0 |-> base], 0, base, step)
    BY DEF Chained
  <2> QED
    BY <2>1, <2>2
<1>2. ASSUME NEW k \in 0..n - 1, k \in P PROVE k + 1 \in P
  <2>1. PICK g \in [0..k -> S] : Chained(g, k, base, step)
    BY <1>2
  <2> DEFINE h == [i \in 0..k + 1 |-> IF i = k + 1 THEN step[<<g[k], k + 1>>] ELSE g[i]]
  <2>2. h \in [0..k + 1 -> S]
    OBVIOUS
  <2>3. h[0] = base
    BY <2>1 DEF Chained
  <2>4. ASSUME NEW i \in 1..k + 1 PROVE h[i] = step[<<h[i - 1], i>>]
    <3>1. CASE i = k + 1
      <4>1. h[k + 1] = step[<<g[k], k + 1>>] /\ h[k] = g[k] /\ k + 1 - 1 = k
        OBVIOUS
      <4> HIDE DEF h
      <4> QED
        BY <3>1, <4>1
    <3>2. CASE i # k + 1
      <4>1. i \in 1..k /\ h[i] = g[i] /\ h[i - 1] = g[i - 1]
        BY <3>2
      <4> QED
        BY <2>1, <4>1 DEF Chained
    <3> QED
      BY <3>1, <3>2
  <2> HIDE DEF h
  <2>5. Chained(h, k + 1, base, step)
    BY <2>3, <2>4 DEF Chained
  <2> QED
    BY <2>2, <2>5
<1> HIDE DEF P
<1>3. \A k \in 0..n : k \in P
  BY <1>1, <1>2, ByInduction
<1>4. n \in P
  BY <1>3
<1> QED
  BY <1>4 DEF P

(* The calendar.  *)

Months == Len(CronMonths)

LEMMA MonthsAre ==
  /\ Months \in Nat \ {0} /\ DOMAIN CronMonths = 1..Months
  /\ \A m \in 1..Months : CronMonths[m] \in Nat \ {0}
BY CronConstants, InSeq DEF Months

MonthsStart(g) == g = [m \in 1..Len(CronMonths) + 1 |->
                         IF m = 1 THEN 0 ELSE g[m - 1] + CronMonths[m - 1]]

LEMMA SomeMonthStart == \E g : MonthsStart(g)
<1> DEFINE step == [p \in Int \X (1..Months) |-> p[1] + CronMonths[p[2]]]
<1>1. step \in [Int \X (1..Months) -> Int]
  BY MonthsAre
<1> HIDE DEF step
<1>2. PICK g \in [0..Months -> Int] : Chained(g, Months, 0, step)
  <2>1. Months \in Nat /\ 0 \in Int
    BY MonthsAre
  <2> QED
    BY <1>1, <2>1, SomeChain, Zenon
<1> DEFINE h == [m \in 1..Months + 1 |-> g[m - 1]]
<1>3. ASSUME NEW m \in 1..Months + 1
      PROVE  h[m] = IF m = 1 THEN 0 ELSE h[m - 1] + CronMonths[m - 1]
  <2>1. CASE m = 1
    BY <1>2, <2>1, MonthsAre DEF Chained
  <2>2. CASE m # 1
    <3>1. m - 1 \in 1..Months /\ h[m] = g[m - 1] /\ h[m - 1] = g[m - 1 - 1]
      BY <2>2, MonthsAre
    <3>2. g[m - 1] = step[<<g[m - 1 - 1], m - 1>>]
      BY <1>2, <3>1 DEF Chained
    <3>3. g[m - 1 - 1] \in Int
      BY <3>1, MonthsAre
    <3>4. step[<<g[m - 1 - 1], m - 1>>] = g[m - 1 - 1] + CronMonths[m - 1]
      BY <3>1, <3>3 DEF step
    <3> HIDE DEF h
    <3> QED
      BY <2>2, <3>1, <3>2, <3>4
  <2> QED
    BY <2>1, <2>2
<1>4. h = [m \in 1..Months + 1 |-> h[m]]
  OBVIOUS
<1> HIDE DEF h
<1>5. MonthsStart(h)
  BY <1>3, <1>4 DEF MonthsStart, Months
<1> QED
  BY <1>5

LEMMA MonthStartIs ==
  /\ MonthStart[1] = 0
  /\ \A m \in 1..Months : MonthStart[m + 1] = MonthStart[m] + CronMonths[m]
<1>1. MonthStart = CHOOSE g : MonthsStart(g)
  BY DEF MonthStart, MonthsStart
<1>2. MonthsStart(MonthStart)
  BY <1>1, SomeMonthStart
<1>3. MonthStart = [m \in 1..Months + 1 |->
                      IF m = 1 THEN 0 ELSE MonthStart[m - 1] + CronMonths[m - 1]]
  BY <1>2 DEF MonthsStart, Months
<1>4. \A m \in 1..Months + 1 :
        MonthStart[m] = IF m = 1 THEN 0 ELSE MonthStart[m - 1] + CronMonths[m - 1]
  BY <1>3
<1>5. ASSUME NEW m \in 1..Months PROVE MonthStart[m + 1] = MonthStart[m] + CronMonths[m]
  <2>1. m + 1 \in 1..Months + 1 /\ m + 1 # 1 /\ m + 1 - 1 = m
    BY MonthsAre
  <2> QED
    BY <1>4, <2>1
<1>6. 1 \in 1..Months + 1
  BY MonthsAre
<1> QED
  BY <1>4, <1>5, <1>6

LEMMA MonthsFollow ==
  ASSUME NEW n \in 1..Months + 1
  PROVE  MonthStart[n] \in Nat /\ \A m \in 1..n - 1 : MonthStart[m + 1] <= MonthStart[n]
<1> DEFINE Right(k) == /\ MonthStart[k] \in Nat
                       /\ \A m \in 1..k - 1 : /\ MonthStart[m + 1] \in Nat
                                              /\ MonthStart[m + 1] <= MonthStart[k]
           P == {i \in 0..Months : Right(i + 1)}
<1>1. 0 \in P
  BY MonthStartIs, MonthsAre
<1>2. ASSUME NEW i \in 0..Months - 1, i \in P PROVE i + 1 \in P
  <2>1. i + 1 \in 1..Months /\ (i + 1) + 1 - 1 = i + 1 /\ i + 1 \in 0..Months
    BY MonthsAre
  <2>2. /\ MonthStart[(i + 1) + 1] = MonthStart[i + 1] + CronMonths[i + 1]
        /\ CronMonths[i + 1] \in Nat \ {0}
    BY <2>1, MonthStartIs, MonthsAre
  <2>3. Right(i + 1)
    BY <1>2
  <2>4. ASSUME NEW m \in 1..i + 1 
        PROVE  MonthStart[m + 1] \in Nat /\ MonthStart[m + 1] <= MonthStart[(i + 1) + 1]
    <3>1. CASE m = i + 1
      <4>1. MonthStart[(i + 1) + 1] \in Nat
        BY <2>2, <2>3
      <4>2. MonthStart[m + 1] = MonthStart[(i + 1) + 1]
        BY <3>1
      <4> QED
        BY <4>1, <4>2
    <3>2. CASE m # i + 1
      <4>1. m \in 1..(i + 1) - 1 /\ m \in 1..Months /\ m \in 1..Months + 1
        BY <2>1, <3>2, MonthsAre
      <4>2. /\ MonthStart[m + 1] <= MonthStart[i + 1] /\ MonthStart[i + 1] \in Nat
            /\ MonthStart[m + 1] \in Nat
        BY <2>3, <4>1
      <4> QED
        BY <2>2, <4>2
    <3> QED
      BY <3>1, <3>2
  <2>5. Right((i + 1) + 1)
    BY <2>1, <2>2, <2>3, <2>4
  <2> HIDE DEF Right
  <2> QED
    BY <2>1, <2>5
<1> HIDE DEF P
<1>3. \A i \in 0..Months : i \in P
  BY <1>1, <1>2, ByInduction, MonthsAre
<1>4. n - 1 \in 0..Months /\ n - 1 + 1 = n
  BY MonthsAre
<1> QED
  BY <1>3, <1>4 DEF P

LEMMA MonthOnIs ==
  ASSUME NEW d \in 0..YearDays - 1
  PROVE  /\ MonthOn[d] \in 1..Months
         /\ MonthStart[MonthOn[d]] <= d /\ d < MonthStart[MonthOn[d] + 1]
         /\ \A m \in 1..Months : MonthStart[m] <= d /\ d < MonthStart[m + 1] => m = MonthOn[d]
<1> DEFINE S == {m \in 1..Months : d < MonthStart[m + 1]}
           In(m) == m \in DOMAIN CronMonths /\ MonthStart[m] <= d /\ d < MonthStart[m + 1]
<1>0. YearDays = MonthStart[Months + 1] /\ YearDays \in Nat /\ d \in Nat
  BY MonthsFollow, MonthsAre DEF YearDays, Months
<1>1. Months \in S /\ S \in SUBSET Nat
  BY <1>0, MonthsAre
<1>2. PICK m \in S : \A k \in S : m <= k
  <2> HIDE DEF S
  <2> QED
    BY <1>1, LeastOf
<1>3. In(m)
  <2>1. CASE m = 1
    <3>1. m \in 1..Months /\ d < MonthStart[m + 1]
      BY <1>2
    <3>2. MonthStart[m] <= d
      BY <2>1, <1>0, MonthStartIs
    <3>3. m \in DOMAIN CronMonths
      BY <3>1, MonthsAre
    <3> QED
      BY <3>1, <3>2, <3>3, Zenon
  <2>2. CASE m # 1
    <3>0. m \in 1..Months /\ m - 1 \in 1..Months /\ m - 1 + 1 = m /\ m \in 1..Months + 1
      BY <2>2, MonthsAre
    <3>1. ~(d < MonthStart[m - 1 + 1])
      <4> SUFFICES ASSUME m - 1 \in S PROVE FALSE
        BY <3>0
      <4>1. m <= m - 1
        BY <1>2
      <4> QED
        BY <3>0, <4>1
    <3>2. ~(d < MonthStart[m]) /\ MonthStart[m] \in Nat
      BY <3>0, <3>1, MonthsFollow
    <3> QED
      BY <1>0, <3>0, <3>2, MonthsAre
  <2> QED
    BY <2>1, <2>2
<1>4. ASSUME NEW x, NEW y, In(x), In(y), x < y PROVE FALSE
  <2>1. x \in 1..Months /\ y \in 1..Months /\ x \in 1..y - 1 /\ y \in 1..Months + 1
        /\ x + 1 \in 1..Months + 1
    BY <1>4, MonthsAre
  <2>2. /\ MonthStart[x + 1] <= MonthStart[y] /\ MonthStart[y] \in Nat
        /\ MonthStart[x + 1] \in Nat
    BY <2>1, MonthsFollow
  <2> QED
    BY <1>0, <1>4, <2>2
<1>5. ASSUME NEW x, NEW y, In(x), In(y) PROVE x = y
  <2>1. x \in Int /\ y \in Int
    BY <1>5, MonthsAre
  <2> HIDE DEF In
  <2>2. ~(x < y) /\ ~(y < x)
    BY <1>4, <1>5
  <2> QED
    BY <2>1, <2>2
<1>6. MonthOn[d] = CHOOSE k : In(k)
  <2>1. MonthOn[d] = CHOOSE k \in DOMAIN CronMonths : MonthStart[k] <= d /\ d < MonthStart[k + 1]
    BY DEF MonthOn
  <2> QED
    BY <2>1
<1> HIDE DEF In
<1>7. In(MonthOn[d])
  BY <1>3, <1>6
<1> QED
  BY <1>5, <1>7, MonthsAre DEF In


LEMMA DivKeepsOrder ==
  ASSUME NEW b \in Nat \ {0}, NEW t \in Nat, NEW u \in Nat
  PROVE  /\ t <= u => t \div b <= u \div b
         /\ \A x \in Int : u < x * b => u \div b < x
<1> DEFINE p == t \div b
           q == u \div b
           r == t % b
           s == u % b
<1>1. /\ p \in Nat /\ r \in 0..b - 1 /\ t = b * p + r
      /\ q \in Nat /\ s \in 0..b - 1 /\ u = b * q + s
  BY DivMod
<1> HIDE DEF p, q, r, s
<1>2. ASSUME t <= u, p > q PROVE FALSE
  <2>1. b * (q + 1) <= b * p /\ b * (q + 1) = b * q + b
    BY <1>1, <1>2
  <2>2. b * q \in Int /\ b * p \in Int
    BY <1>1
  <2> QED
    BY <1>1, <1>2, <2>1, <2>2
<1>3. ASSUME NEW x \in Int, u < x * b, q >= x PROVE FALSE
  <2>1. x * b <= b * q
    BY <1>1, <1>3
  <2>2. b * q \in Int /\ x * b \in Int
    BY <1>1
  <2> QED
    BY <1>1, <1>3, <2>1, <2>2
<1>4. t <= u => p <= q
  BY <1>1, <1>2
<1>5. \A x \in Int : u < x * b => q < x
  BY <1>1, <1>3
<1> QED
  BY <1>4, <1>5 DEF p, q

LEMMA Product ==
  ASSUME NEW a \in Nat \ {0}, NEW b \in Nat \ {0} PROVE a * b \in Nat \ {0}
OBVIOUS

LEMMA LensAre ==
  /\ HourLen \in Nat \ {0} /\ DayLen \in Nat \ {0} /\ YearDays \in Nat \ {0} /\ CronEnd \in Nat
  /\ CronHours \in Nat \ {0} /\ CronMinutes \in Nat \ {0} /\ CronSeconds \in Nat \ {0}
  /\ CronWeek \in Nat \ {0} /\ CronCount \in Nat \ {0}
<1>1. /\ CronHours \in Nat \ {0} /\ CronMinutes \in Nat \ {0} /\ CronSeconds \in Nat \ {0}
      /\ CronWeek \in Nat \ {0} /\ CronCount \in Nat \ {0} /\ CronYears \in Nat \ {0}
  BY CronConstants
<1>2. HourLen \in Nat \ {0}
  BY <1>1, Product DEF HourLen
<1>3. DayLen \in Nat \ {0}
  BY <1>1, <1>2, Product DEF DayLen
<1>4. YearDays \in Nat \ {0}
  <2>1. /\ MonthStart[Months + 1] = MonthStart[Months] + CronMonths[Months]
        /\ MonthStart[Months] \in Nat /\ CronMonths[Months] \in Nat \ {0}
    BY MonthsAre, MonthStartIs, MonthsFollow
  <2> QED
    BY <2>1 DEF YearDays, Months
<1>5. CronEnd \in Nat
  <2>1. CronYears * YearDays \in Nat \ {0}
    BY <1>1, <1>4, Product
  <2> QED
    BY <1>3, <2>1, Product DEF CronEnd
<1> QED
  BY <1>1, <1>2, <1>3, <1>4, <1>5

LEMMA ClockIs ==
  ASSUME NEW t \in Nat
  PROVE  /\ t \div HourLen = (t \div CronSeconds) \div CronMinutes
         /\ t \div DayLen = (t \div HourLen) \div CronHours
         /\ MinuteOf(t) = (t \div CronSeconds) % CronMinutes
         /\ HourOf(t) = (t \div HourLen) % CronHours
<1>1. /\ (t \div CronSeconds) \div CronMinutes = t \div (CronMinutes * CronSeconds)
      /\ (t % (CronMinutes * CronSeconds)) \div CronSeconds = (t \div CronSeconds) % CronMinutes
  BY LensAre, DivDiv
<1>2. /\ (t \div HourLen) \div CronHours = t \div (CronHours * HourLen)
      /\ (t % (CronHours * HourLen)) \div HourLen = (t \div HourLen) % CronHours
  BY LensAre, DivDiv
<1> QED
  BY <1>1, <1>2 DEF HourLen, DayLen, MinuteOf, HourOf

LEMMA DayIs ==
  ASSUME NEW t \in Nat
  PROVE  /\ DayOfYear(t) \in 0..YearDays - 1
         /\ MonthOf(t) \in 1..Months /\ WeekdayOf(t) \in 0..CronWeek - 1
         /\ MonthStart[MonthOf(t)] \in Nat
         /\ MonthStart[MonthOf(t)] <= DayOfYear(t) /\ DayOfYear(t) < MonthStart[MonthOf(t) + 1]
         /\ MonthStart[MonthOf(t) + 1] = MonthStart[MonthOf(t)] + CronMonths[MonthOf(t)]
         /\ DateOf(t) \in 1..CronMonths[MonthOf(t)]
<1> DEFINE d == t \div DayLen
<1>1. d \in Nat
  BY DivMod, LensAre
<1>2. d % YearDays \in 0..YearDays - 1 /\ d % CronWeek \in 0..CronWeek - 1
  <2> HIDE DEF d
  <2> QED
    BY <1>1, DivMod, LensAre
<1>3. DayOfYear(t) \in 0..YearDays - 1 /\ WeekdayOf(t) \in 0..CronWeek - 1
  BY <1>2 DEF DayOfYear, WeekdayOf
<1>4. /\ MonthOf(t) \in 1..Months /\ MonthStart[MonthOf(t)] <= DayOfYear(t)
      /\ DayOfYear(t) < MonthStart[MonthOf(t) + 1]
  BY <1>3, MonthOnIs DEF MonthOf
<1> DEFINE m == MonthOf(t)
<1>5. /\ m \in 1..Months + 1 /\ MonthStart[m] \in Nat /\ CronMonths[m] \in Nat \ {0}
      /\ MonthStart[m + 1] = MonthStart[m] + CronMonths[m]
  BY <1>4, MonthsFollow, MonthStartIs, MonthsAre
<1>6. DateOf(t) \in 1..CronMonths[m]
  BY <1>3, <1>4, <1>5, LensAre DEF DateOf
<1> QED
  BY <1>3, <1>4, <1>5, <1>6

LEMMA SameDay ==
  ASSUME NEW t, NEW u, t \div DayLen = u \div DayLen
  PROVE  MonthOf(t) = MonthOf(u) /\ DateOf(t) = DateOf(u) /\ WeekdayOf(t) = WeekdayOf(u)
BY DEF MonthOf, DateOf, WeekdayOf, DayOfYear

LEMMA SameHour ==
  ASSUME NEW t \in Nat, NEW u \in Nat, t \div HourLen = u \div HourLen
  PROVE  t \div DayLen = u \div DayLen /\ HourOf(t) = HourOf(u)
BY ClockIs

LEMMA SameMinute ==
  ASSUME NEW t \in Nat, NEW u \in Nat, t \div CronSeconds = u \div CronSeconds
  PROVE  t \div HourLen = u \div HourLen /\ MinuteOf(t) = MinuteOf(u)
BY ClockIs

\* The rest of the month is skipped, and no more.
LEMMA MonthLeft ==
  ASSUME NEW t \in Nat
  PROVE  /\ \E x \in Nat : NextMonth(t) = x * DayLen
         /\ NextMonth(t) \in Nat /\ NextMonth(t) > t
         /\ \A u \in Nat : t <= u /\ u < NextMonth(t) => MonthOf(u) = MonthOf(t)
<1> DEFINE d == t \div DayLen
           m == MonthOf(t)
           y == d \div YearDays
           k == d % YearDays
           x == d - DateOf(t) + 1 + CronMonths[m]
<1>1. d \in Nat /\ t % DayLen \in 0..DayLen - 1 /\ t = DayLen * d + (t % DayLen)
  BY DivMod, LensAre
<1>2. y \in Nat /\ k \in 0..YearDays - 1 /\ d = YearDays * y + k
  <2> HIDE DEF d
  <2> QED
    BY <1>1, DivMod, LensAre
<1>3. /\ m \in 1..Months /\ MonthStart[m] \in Nat /\ CronMonths[m] \in Nat \ {0}
      /\ MonthStart[m] <= k /\ k < MonthStart[m + 1]
      /\ MonthStart[m + 1] = MonthStart[m] + CronMonths[m]
      /\ DateOf(t) = k - MonthStart[m] + 1
      /\ MonthStart[m + 1] <= YearDays
  <2>1. DayOfYear(t) = k /\ DateOf(t) = DayOfYear(t) - MonthStart[m] + 1
    BY DEF DayOfYear, DateOf
  <2>2. m \in 1..Months
    BY DayIs
  <2> HIDE DEF m, k
  <2>3. (m \in 1..(Months + 1) - 1 /\ Months + 1 \in 1..Months + 1) \/ m = Months + 1
    BY <2>2, MonthsAre
  <2>4. MonthStart[m + 1] <= YearDays
    BY <2>2, <2>3, MonthsFollow, MonthsAre DEF YearDays, Months
  <2> QED
    BY <2>1, <2>2, <2>4, DayIs, MonthsAre DEF m
<1>4. NextMonth(t) = x * DayLen
  BY DEF NextMonth
<1> HIDE DEF k, m, y
<1>5. x = d - k + MonthStart[m + 1] /\ x \in Nat /\ x > d
  <2> HIDE DEF d
  <2> QED
    BY <1>1, <1>2, <1>3
<1> HIDE DEF x
<1>6. x * DayLen \in Nat /\ x * DayLen > t
  <2> HIDE DEF d
  <2>1. DayLen * (d + 1) <= x * DayLen /\ DayLen * (d + 1) = DayLen * d + DayLen
    BY <1>1, <1>5, LensAre
  <2>2. x * DayLen \in Int /\ DayLen * d \in Int
    BY <1>1, <1>5, LensAre
  <2> QED
    BY <1>1, <2>1, <2>2, LensAre
<1>7. ASSUME NEW u \in Nat, t <= u, u < x * DayLen PROVE MonthOf(u) = m
  <2> DEFINE e == u \div DayLen
             l == k + (e - d)
  <2>1. e \in Nat /\ d <= e /\ e < x
    <3>1. u \div DayLen \in Nat
      BY DivMod, LensAre
    <3>2. t \div DayLen <= u \div DayLen
      BY <1>7, DivKeepsOrder, LensAre
    <3>3. x \in Int
      BY <1>5
    <3>4. u \div DayLen < x
      BY <1>7, <3>3, DivKeepsOrder, LensAre
    <3> QED
      BY <3>1, <3>2, <3>4
  <2> HIDE DEF e, d
  <2>2. l \in 0..YearDays - 1 /\ MonthStart[m] <= l /\ l < MonthStart[m + 1]
    BY <1>1, <1>2, <1>3, <1>5, <2>1, LensAre
  <2>3. e = YearDays * y + l
    <3>1. YearDays * y \in Int
      BY <1>2, LensAre
    <3> QED
      BY <1>1, <1>2, <2>1, <3>1
  <2> HIDE DEF l
  <2>4. e % YearDays = l
    BY <1>2, <2>2, <2>3, DivIs, LensAre
  <2>5. MonthOf(u) = MonthOn[l]
    BY <2>4 DEF MonthOf, DayOfYear, e
  <2> QED
    BY <1>3, <2>2, <2>5, MonthOnIs
<1> QED
  BY <1>4, <1>5, <1>6, <1>7 DEF m

(* The search.  A time that is no run is left for one with no run between.  *)

IsSchedule(c) ==
  /\ c.dom.restricted \in BOOLEAN /\ c.dow.restricted \in BOOLEAN
  /\ \A t \in Nat : /\ ~c.dom.restricted => DateOf(t) \in c.dom.values
                    /\ ~c.dow.restricted => WeekdayOf(t) \in c.dow.values
Beat(secs, t) == secs \/ t % CronSeconds = 0

LEMMA Associated ==
  ASSUME NEW a \in Int, NEW b \in Int, NEW x \in Int
  PROVE  x * (a * b) = (x * a) * b
OBVIOUS

LEMMA MultipleOf ==
  ASSUME NEW b \in Nat \ {0}, NEW x \in Nat PROVE (x * b) % b = 0
<1>1. b * x + 0 = x * b /\ 0 \in 0..b - 1
  OBVIOUS
<1>2. (b * x + 0) % b = 0
  BY <1>1, DivIs
<1> QED
  BY <1>1, <1>2

LEMMA WholeMinutes ==
  ASSUME NEW x \in Nat
  PROVE  (x * DayLen) % CronSeconds = 0 /\ (x * HourLen) % CronSeconds = 0
         /\ (x * CronSeconds) % CronSeconds = 0
<1>1. ASSUME NEW a \in Nat \ {0}, NEW b \in Nat \ {0} PROVE x * (a * b) = (x * a) * b /\ x * a \in Nat
  <2>1. x \in Int /\ a \in Int /\ b \in Int
    OBVIOUS
  <2>2. x * (a * b) = (x * a) * b
    BY <2>1, Associated, Zenon
  <2> QED
    BY <2>2
<1>2. x * HourLen = (x * CronMinutes) * CronSeconds /\ x * CronMinutes \in Nat
  BY <1>1, LensAre DEF HourLen
<1>3. CronHours * CronMinutes \in Nat \ {0}
  BY Product, LensAre
<1>4. DayLen = (CronHours * CronMinutes) * CronSeconds
  <2>1. CronHours \in Int /\ CronMinutes \in Int /\ CronSeconds \in Int
    BY LensAre
  <2> QED
    BY <2>1, Associated, Zenon DEF DayLen, HourLen
<1>5. /\ x * DayLen = (x * (CronHours * CronMinutes)) * CronSeconds
      /\ x * (CronHours * CronMinutes) \in Nat
  BY <1>1, <1>3, <1>4, LensAre
<1>6. (x * DayLen) % CronSeconds = 0
  BY <1>5, MultipleOf, LensAre
<1>7. (x * HourLen) % CronSeconds = 0
  BY <1>2, MultipleOf, LensAre
<1> QED
  BY <1>6, <1>7, MultipleOf, LensAre

LEMMA DayDue ==
  ASSUME NEW c, IsSchedule(c), NEW t \in Nat
  PROVE  DayMatches(c, t) <=>
           LET domOk == DateOf(t) \in c.dom.values
               dowOk == WeekdayOf(t) \in c.dow.values
           IN IF c.dom.restricted /\ c.dow.restricted THEN domOk \/ dowOk ELSE domOk /\ dowOk
<1>1. /\ c.dom.restricted \in BOOLEAN /\ c.dow.restricted \in BOOLEAN
      /\ ~c.dom.restricted => DateOf(t) \in c.dom.values
      /\ ~c.dow.restricted => WeekdayOf(t) \in c.dow.values
  BY DEF IsSchedule
<1> QED
  BY <1>1, Zenon DEF DayMatches

LEMMA DueIs ==
  ASSUME NEW c, NEW secs \in BOOLEAN, IsSchedule(c), NEW t \in Nat
  PROVE  Due(c, secs, t) <=> /\ MonthOf(t) \in c.month.values
                             /\ DayMatches(c, t)
                             /\ HourOf(t) \in c.hour.values
                             /\ MinuteOf(t) \in c.minute.values
                             /\ IF secs THEN t % CronSeconds \in c["second"].values
                                ELSE t % CronSeconds = 0
<1>1. (t % CronSeconds) \in (IF secs THEN c["second"].values ELSE {0})
      <=> IF secs THEN t % CronSeconds \in c["second"].values ELSE t % CronSeconds = 0
  OBVIOUS
<1> QED
  BY <1>1, DayDue, Zenon DEF Due

\* Between a time and the next multiple nothing that is read off the quotient changes.
LEMMA NextOf ==
  ASSUME NEW t \in Nat, NEW b \in {DayLen, HourLen, CronSeconds}
  PROVE  /\ NextMultiple(t, b) \in Nat /\ NextMultiple(t, b) > t
         /\ NextMultiple(t, b) % CronSeconds = 0
         /\ \A u \in Nat : t <= u /\ u < NextMultiple(t, b) => u \div b = t \div b
<1>1. b \in Nat \ {0}
  BY LensAre
<1> DEFINE x == (t \div b) + 1
<1>2. x \in Nat
  <2>1. t \div b \in Nat
    BY <1>1, DivMod
  <2> DEFINE q == t \div b
  <2> HIDE DEF q
  <2>2. q \in Nat => q + 1 \in Nat
    OBVIOUS
  <2> QED
    BY <2>1, <2>2 DEF q
<1>3. /\ NextMultiple(t, b) \in Nat /\ NextMultiple(t, b) > t
      /\ NextMultiple(t, b) = x * b
  BY <1>1, NextMultipleIs
<1>4. \A u \in Nat : t <= u /\ u < NextMultiple(t, b) => u \div b = t \div b
  BY <1>1, <1>3, SameDiv
<1> HIDE DEF x
<1>5. (x * b) % CronSeconds = 0
  <2>1. b = DayLen \/ b = HourLen \/ b = CronSeconds
    OBVIOUS
  <2>2. /\ (x * DayLen) % CronSeconds = 0 /\ (x * HourLen) % CronSeconds = 0
        /\ (x * CronSeconds) % CronSeconds = 0
    BY <1>2, WholeMinutes
  <2> QED
    BY <2>1, <2>2, Zenon
<1> QED
  BY <1>3, <1>4, <1>5

LEMMA SkippedIs ==
  ASSUME NEW c, NEW secs \in BOOLEAN, IsSchedule(c), NEW t \in Nat, Beat(secs, t)
  PROVE  /\ Skipped(c, secs, t) \in Nat /\ Skipped(c, secs, t) >= t
         /\ Beat(secs, Skipped(c, secs, t))
         /\ Skipped(c, secs, t) = t <=> Due(c, secs, t)
         /\ \A u \in Nat : t <= u /\ u < Skipped(c, secs, t) => ~Due(c, secs, u)
<1> DEFINE to == Skipped(c, secs, t)
           Passed(n) == /\ n \in Nat /\ n > t /\ Beat(secs, n)
                        /\ \A u \in Nat : t <= u /\ u < n => ~Due(c, secs, u)
<1>0. ASSUME NEW n, to = n, Passed(n), ~Due(c, secs, t)
      PROVE  /\ to \in Nat /\ to >= t /\ Beat(secs, to) /\ (to = t <=> Due(c, secs, t))
             /\ \A u \in Nat : t <= u /\ u < to => ~Due(c, secs, u)
  <2> HIDE DEF to
  <2> QED
    BY <1>0
<1>1. CASE MonthOf(t) \notin c.month.values
  <2>1. to = NextMonth(t)
    BY <1>1 DEF Skipped
  <2>2. Beat(secs, NextMonth(t))
    BY MonthLeft, WholeMinutes DEF Beat
  <2>3. ASSUME NEW u \in Nat, t <= u, u < NextMonth(t) PROVE ~Due(c, secs, u)
    <3>1. MonthOf(u) \notin c.month.values
      BY <1>1, <2>3, MonthLeft
    <3> QED
      BY <3>1 DEF Due
  <2>4. Passed(NextMonth(t)) /\ ~Due(c, secs, t)
    BY <2>2, <2>3, MonthLeft, <1>1 DEF Due
  <2> HIDE DEF to, Passed
  <2> QED
    BY <1>0, <2>1, <2>4 DEF to
<1>2. CASE MonthOf(t) \in c.month.values /\ ~DayMatches(c, t)
  <2>1. to = NextMultiple(t, DayLen)
    BY <1>2 DEF Skipped
  <2>2. ASSUME NEW u \in Nat, t <= u, u < NextMultiple(t, DayLen) PROVE ~Due(c, secs, u)
    <3>1. u \div DayLen = t \div DayLen
      BY <2>2, NextOf
    <3>2. DayMatches(c, u) <=> DayMatches(c, t)
      BY <3>1, SameDay DEF DayMatches
    <3> QED
      BY <1>2, <3>2, DueIs
  <2>3. Passed(NextMultiple(t, DayLen)) /\ ~Due(c, secs, t)
    BY <1>2, <2>2, NextOf, DueIs DEF Beat
  <2> HIDE DEF to, Passed
  <2> QED
    BY <1>0, <2>1, <2>3 DEF to
<1>3. CASE MonthOf(t) \in c.month.values /\ DayMatches(c, t) /\ HourOf(t) \notin c.hour.values
  <2>1. to = NextMultiple(t, HourLen)
    BY <1>3 DEF Skipped
  <2>2. ASSUME NEW u \in Nat, t <= u, u < NextMultiple(t, HourLen) PROVE ~Due(c, secs, u)
    <3>1. u \div HourLen = t \div HourLen
      BY <2>2, NextOf
    <3>2. HourOf(u) = HourOf(t)
      BY <3>1, SameHour
    <3> QED
      BY <1>3, <3>2, DueIs
  <2>3. Passed(NextMultiple(t, HourLen)) /\ ~Due(c, secs, t)
    BY <1>3, <2>2, NextOf, DueIs DEF Beat
  <2> HIDE DEF to, Passed
  <2> QED
    BY <1>0, <2>1, <2>3 DEF to
<1>4. CASE /\ MonthOf(t) \in c.month.values /\ DayMatches(c, t) /\ HourOf(t) \in c.hour.values
           /\ MinuteOf(t) \notin c.minute.values
  <2>1. to = NextMultiple(t, CronSeconds)
    BY <1>4 DEF Skipped
  <2>2. ASSUME NEW u \in Nat, t <= u, u < NextMultiple(t, CronSeconds) PROVE ~Due(c, secs, u)
    <3>1. u \div CronSeconds = t \div CronSeconds
      BY <2>2, NextOf
    <3>2. MinuteOf(u) = MinuteOf(t)
      BY <3>1, SameMinute
    <3> QED
      BY <1>4, <3>2, DueIs
  <2>3. Passed(NextMultiple(t, CronSeconds)) /\ ~Due(c, secs, t)
    BY <1>4, <2>2, NextOf, DueIs DEF Beat
  <2> HIDE DEF to, Passed
  <2> QED
    BY <1>0, <2>1, <2>3 DEF to
<1>5. CASE /\ MonthOf(t) \in c.month.values /\ DayMatches(c, t) /\ HourOf(t) \in c.hour.values
           /\ MinuteOf(t) \in c.minute.values /\ secs /\ (t % CronSeconds) \notin c["second"].values
  <2>1. to = t + 1
    BY <1>5 DEF Skipped
  <2>2. ~Due(c, secs, t)
    BY <1>5, DueIs
  <2>3. \A u \in Nat : t <= u /\ u < t + 1 => u = t
    OBVIOUS
  <2>4. Passed(t + 1)
    <3>1. secs /\ t + 1 \in Nat /\ t + 1 > t
      BY <1>5
    <3>2. ASSUME NEW u \in Nat, t <= u, u < t + 1 PROVE ~Due(c, secs, u)
      <4>1. u = t
        BY <2>3, <3>2
      <4> QED
        BY <2>2, <4>1
    <3> QED
      BY <3>1, <3>2 DEF Beat
  <2> HIDE DEF to, Passed
  <2> QED
    BY <1>0, <2>1, <2>2, <2>4 DEF to
<1>6. CASE /\ MonthOf(t) \in c.month.values /\ DayMatches(c, t) /\ HourOf(t) \in c.hour.values
           /\ MinuteOf(t) \in c.minute.values
           /\ ~(secs /\ (t % CronSeconds) \notin c["second"].values)
  <2>1. to = t
    BY <1>6 DEF Skipped
  <2>2. Due(c, secs, t)
    BY <1>6, DueIs DEF Beat
  <2> HIDE DEF to
  <2>3. /\ to \in Nat /\ to >= t /\ Beat(secs, to) /\ (to = t <=> Due(c, secs, t))
        /\ \A u \in Nat : t <= u /\ u < to => ~Due(c, secs, u)
    BY <2>1, <2>2
  <2> QED
    BY <2>3 DEF to
<1> HIDE DEF to, Passed
<1> QED
  BY <1>1, <1>2, <1>3, <1>4, <1>5, <1>6 DEF to

(* The recursion of the search goes forward only, so there is a function it  *)
(* defines: one that is right from the end of the search back to any time.   *)

LEMMA SkippedForward ==
  ASSUME NEW c, NEW secs, NEW t \in Nat
  PROVE  Skipped(c, secs, t) \in Nat /\ Skipped(c, secs, t) >= t
<1>1. NextMonth(t) \in Nat /\ NextMonth(t) >= t
  BY MonthLeft
<1>2. /\ NextMultiple(t, DayLen) \in Nat /\ NextMultiple(t, DayLen) >= t
      /\ NextMultiple(t, HourLen) \in Nat /\ NextMultiple(t, HourLen) >= t
      /\ NextMultiple(t, CronSeconds) \in Nat /\ NextMultiple(t, CronSeconds) >= t
  <2>1. \A b \in Nat \ {0} : NextMultiple(t, b) \in Nat /\ NextMultiple(t, b) >= t
    BY NextMultipleIs
  <2> QED
    BY <2>1, LensAre
<1>3. t + 1 \in Nat /\ t + 1 >= t /\ t >= t
  OBVIOUS
<1> QED
  BY <1>1, <1>2, <1>3, Zenon DEF Skipped

Onward(secs, t) == IF secs THEN t + 1 ELSE NextMultiple(t, CronSeconds)

LEMMA OnwardIs ==
  ASSUME NEW secs \in BOOLEAN, NEW t \in Nat
  PROVE  /\ Onward(secs, t) \in Nat /\ Onward(secs, t) > t /\ Beat(secs, Onward(secs, t))
         /\ \A c : \A u \in Nat : t < u /\ u < Onward(secs, t) /\ Beat(secs, t) => ~Due(c, secs, u)
<1>1. CASE secs
  <2>1. Onward(secs, t) = t + 1
    BY <1>1 DEF Onward
  <2>2. \A u \in Nat : ~(t < u /\ u < t + 1)
    OBVIOUS
  <2>3. t + 1 \in Nat /\ t + 1 > t
    OBVIOUS
  <2> QED
    BY <1>1, <2>1, <2>2, <2>3, Zenon DEF Beat
<1>2. CASE ~secs
  <2>1. Onward(secs, t) = NextMultiple(t, CronSeconds)
    BY <1>2 DEF Onward
  <2>2. ASSUME NEW c, NEW u \in Nat, t < u, u < NextMultiple(t, CronSeconds), Beat(secs, t)
        PROVE  ~Due(c, secs, u)
    <3>1. u \div CronSeconds = t \div CronSeconds
      BY <2>2, NextOf
    <3>2. /\ t = CronSeconds * (t \div CronSeconds) + (t % CronSeconds)
          /\ u = CronSeconds * (u \div CronSeconds) + (u % CronSeconds)
          /\ t \div CronSeconds \in Nat /\ u % CronSeconds \in Nat
      BY DivMod, LensAre
    <3>3. t % CronSeconds = 0
      BY <1>2, <2>2 DEF Beat
    <3> DEFINE q == CronSeconds * (t \div CronSeconds)
               r == u % CronSeconds
    <3>4. t = q + 0 /\ u = q + r /\ q \in Int /\ r \in Nat
      BY <3>1, <3>2, <3>3, LensAre
    <3> HIDE DEF q, r
    <3>5. r # 0
      BY <2>2, <3>4
    <3> QED
      BY <1>2, <3>5 DEF Due, r
  <2> QED
    BY <2>1, <2>2, NextOf DEF Beat
<1> QED
  BY <1>1, <1>2

Moments == Nat \X (0..CronCount)
Went(g, c, secs, t, n) ==
  IF n = 0 \/ t >= CronEnd THEN <<>>
  ELSE IF Skipped(c, secs, t) # t THEN g[<<Skipped(c, secs, t), n>>]
       ELSE <<t>> \o g[<<Onward(secs, t), n - 1>>]
WentFrom(g, c, secs, a) ==
  \A t \in Nat, n \in 0..CronCount : t >= a => g[<<t, n>>] = Went(g, c, secs, t, n)

LEMMA WentOnly ==
  ASSUME NEW g, NEW h, NEW c, NEW secs \in BOOLEAN, NEW t \in Nat, NEW n \in 0..CronCount,
         \A u \in Nat, k \in 0..CronCount : u > t => g[<<u, k>>] = h[<<u, k>>]
  PROVE  Went(g, c, secs, t, n) = Went(h, c, secs, t, n)
<1>1. CASE n = 0 \/ t >= CronEnd
  BY <1>1 DEF Went
<1>2. CASE ~(n = 0 \/ t >= CronEnd) /\ Skipped(c, secs, t) # t
  <2>1. Skipped(c, secs, t) \in Nat /\ Skipped(c, secs, t) > t
    BY <1>2, SkippedForward
  <2>2. g[<<Skipped(c, secs, t), n>>] = h[<<Skipped(c, secs, t), n>>]
    BY <2>1
  <2> QED
    BY <1>2, <2>2, Zenon DEF Went
<1>3. CASE ~(n = 0 \/ t >= CronEnd) /\ Skipped(c, secs, t) = t
  <2>1. Onward(secs, t) \in Nat /\ Onward(secs, t) > t
    BY OnwardIs
  <2>3. n - 1 \in 0..CronCount
    BY <1>3, LensAre
  <2>2. g[<<Onward(secs, t), n - 1>>] = h[<<Onward(secs, t), n - 1>>]
    BY <2>1, <2>3
  <2> QED
    BY <1>3, <2>2 DEF Went
<1> QED
  BY <1>1, <1>2, <1>3

LEMMA WentType ==
  ASSUME NEW g \in [Moments -> Seq(Nat)], NEW c, NEW secs \in BOOLEAN,
         NEW t \in Nat, NEW n \in 0..CronCount
  PROVE  Went(g, c, secs, t, n) \in Seq(Nat)
<1>1. CASE n = 0 \/ t >= CronEnd
  BY <1>1 DEF Went
<1>2. CASE ~(n = 0 \/ t >= CronEnd) /\ Skipped(c, secs, t) # t
  <2>1. Skipped(c, secs, t) \in Nat
    BY SkippedForward
  <2>2. g[<<Skipped(c, secs, t), n>>] \in Seq(Nat)
    BY <2>1 DEF Moments
  <2> QED
    BY <1>2, <2>2, Zenon DEF Went
<1>3. CASE ~(n = 0 \/ t >= CronEnd) /\ Skipped(c, secs, t) = t
  <2>1. Onward(secs, t) \in Nat
    BY OnwardIs
  <2>4. n - 1 \in 0..CronCount
    BY <1>3, LensAre
  <2>2. g[<<Onward(secs, t), n - 1>>] \in Seq(Nat)
    BY <2>1, <2>4 DEF Moments
  <2>3. <<t>> \o g[<<Onward(secs, t), n - 1>>] \in Seq(Nat)
    BY <2>2
  <2> QED
    BY <1>3, <2>3 DEF Went
<1> QED
  BY <1>1, <1>2, <1>3

LEMMA SomeWent ==
  ASSUME NEW c, NEW secs \in BOOLEAN
  PROVE  \E g \in [Moments -> Seq(Nat)] : WentFrom(g, c, secs, 0)
<1> DEFINE P == {k \in 0..CronEnd : \E g \in [Moments -> Seq(Nat)] : WentFrom(g, c, secs, CronEnd - k)}
<1>1. 0 \in P
  <2> DEFINE g == [p \in Moments |-> <<>>]
  <2>1. g \in [Moments -> Seq(Nat)]
    OBVIOUS
  <2>2. ASSUME NEW t \in Nat, NEW n \in 0..CronCount, t >= CronEnd
        PROVE  g[<<t, n>>] = Went(g, c, secs, t, n)
    BY <2>2 DEF Went, Moments
  <2> HIDE DEF g
  <2>3. WentFrom(g, c, secs, CronEnd - 0)
    <3>1. CronEnd - 0 = CronEnd
      BY LensAre
    <3> QED
      BY <2>2, <3>1 DEF WentFrom
  <2>4. 0 \in 0..CronEnd
    BY LensAre
  <2> QED
    BY <2>1, <2>3, <2>4
<1>2. ASSUME NEW k \in 0..CronEnd - 1, k \in P PROVE k + 1 \in P
  <2> DEFINE b == CronEnd - (k + 1)
  <2>0. b \in Nat /\ CronEnd - k = b + 1 /\ k + 1 \in 0..CronEnd
    BY LensAre
  <2>1. PICK g \in [Moments -> Seq(Nat)] : WentFrom(g, c, secs, CronEnd - k)
    BY <1>2
  <2> HIDE DEF b
  <2> DEFINE h == [p \in Moments |-> IF p[1] = b THEN Went(g, c, secs, b, p[2]) ELSE g[p]]
  <2>2. h \in [Moments -> Seq(Nat)]
    <3>1. ASSUME NEW p \in Moments PROVE h[p] \in Seq(Nat)
      <4>1. p[1] \in Nat /\ p[2] \in 0..CronCount
        BY DEF Moments
      <4>2. Went(g, c, secs, b, p[2]) \in Seq(Nat)
        BY <2>0, <4>1, WentType
      <4>3. g[p] \in Seq(Nat)
        OBVIOUS
      <4> QED
        BY <4>2, <4>3
    <3>2. h = [p \in Moments |-> h[p]]
      OBVIOUS
    <3> HIDE DEF h
    <3> QED
      BY <3>1, <3>2
  <2>3. ASSUME NEW t \in Nat, NEW n \in 0..CronCount
        PROVE  h[<<t, n>>] = IF t = b THEN Went(g, c, secs, b, n) ELSE g[<<t, n>>]
    BY DEF Moments
  <2> HIDE DEF h
  <2>4. ASSUME NEW t \in Nat, NEW n \in 0..CronCount, t >= b
        PROVE  h[<<t, n>>] = Went(h, c, secs, t, n)
    <3>1. \A u \in Nat, m \in 0..CronCount : u > t => g[<<u, m>>] = h[<<u, m>>]
      BY <2>0, <2>3, <2>4
    <3>2. Went(g, c, secs, t, n) = Went(h, c, secs, t, n)
      BY <3>1, WentOnly
    <3>3. h[<<t, n>>] = Went(g, c, secs, t, n)
      <4>1. CASE t = b
        BY <2>3, <4>1
      <4>2. CASE t # b
        <5>1. t >= CronEnd - k
          BY <2>0, <2>4, <4>2
        <5> QED
          BY <2>1, <2>3, <4>2, <5>1 DEF WentFrom
      <4> QED
        BY <4>1, <4>2
    <3> QED
      BY <3>2, <3>3
  <2>5. WentFrom(h, c, secs, b)
    BY <2>4 DEF WentFrom
  <2> QED
    BY <2>0, <2>2, <2>5 DEF b
<1>3. CronEnd \in Nat /\ CronEnd \in 0..CronEnd /\ CronEnd - CronEnd = 0
  BY LensAre
<1>4. CronEnd \in P
  <2> HIDE DEF P
  <2>1. \A k \in 0..CronEnd : k \in P
    BY <1>1, <1>2, <1>3, ByInduction
  <2> QED
    BY <1>3, <2>1
<1> QED
  BY <1>3, <1>4

Running(g, c, secs) ==
  g = [p \in Moments |->
         IF p[2] = 0 \/ p[1] >= CronEnd THEN <<>>
         ELSE IF Skipped(c, secs, p[1]) # p[1] THEN g[<<Skipped(c, secs, p[1]), p[2]>>]
              ELSE <<p[1]>> \o g[<<IF secs THEN p[1] + 1 ELSE NextMultiple(p[1], CronSeconds),
                                   p[2] - 1>>]]

LEMMA RunningIs ==
  ASSUME NEW g, NEW c, NEW secs
  PROVE  Running(g, c, secs) <=> /\ g = [p \in Moments |-> g[p]]
                                 /\ WentFrom(g, c, secs, 0)
<1> DEFINE e(p) == Went(g, c, secs, p[1], p[2])
<1>1. Running(g, c, secs) <=> g = [p \in Moments |-> e(p)]
  BY DEF Running, Went, Onward
<1>2. (\A p \in Moments : g[p] = e(p)) <=> WentFrom(g, c, secs, 0)
  <2>1. ASSUME NEW p \in Moments
        PROVE  p[1] \in Nat /\ p[2] \in 0..CronCount /\ p = <<p[1], p[2]>>
    BY DEF Moments
  <2>2. ASSUME NEW t \in Nat, NEW n \in 0..CronCount
        PROVE  <<t, n>> \in Moments /\ <<t, n>>[1] = t /\ <<t, n>>[2] = n /\ t >= 0
    BY DEF Moments
  <2>3. ASSUME \A p \in Moments : g[p] = e(p) PROVE WentFrom(g, c, secs, 0)
    BY <2>2, <2>3 DEF WentFrom
  <2>4. ASSUME WentFrom(g, c, secs, 0), NEW p \in Moments PROVE g[p] = e(p)
    <3>1. g[<<p[1], p[2]>>] = Went(g, c, secs, p[1], p[2])
      BY <2>1, <2>2, <2>4 DEF WentFrom
    <3> QED
      BY <2>1, <3>1
  <2> QED
    BY <2>3, <2>4
<1> HIDE DEF e
<1>3. g = [p \in Moments |-> e(p)]
      <=> g = [p \in Moments |-> g[p]] /\ \A p \in Moments : g[p] = e(p)
  OBVIOUS
<1> QED
  BY <1>1, <1>2, <1>3

LEMMA NextRunsIs ==
  ASSUME NEW c, NEW secs \in BOOLEAN, NEW from
  PROVE  \E g :
           /\ WentFrom(g, c, secs, 0)
           /\ NextRuns(c, secs, from) = g[<<Onward(secs, from), CronCount>>]
<1>1. PICK g : g = CHOOSE h : Running(h, c, secs)
  OBVIOUS
<1>2. NextRuns(c, secs, from) = g[<<Onward(secs, from), CronCount>>]
  BY <1>1 DEF NextRuns, Running, Onward, Moments
<1>3. Running(g, c, secs)
  <2>1. PICK h \in [Moments -> Seq(Nat)] : WentFrom(h, c, secs, 0)
    BY SomeWent
  <2>2. h = [p \in Moments |-> h[p]]
    OBVIOUS
  <2>3. Running(h, c, secs)
    BY <2>1, <2>2, RunningIs
  <2> QED
    BY <1>1, <2>3
<1>4. WentFrom(g, c, secs, 0)
  BY <1>3, RunningIs
<1> QED
  BY <1>2, <1>4

(* What is listed are the first times that are due.  *)

DueFrom(c, secs, t) == {u \in t..CronEnd - 1 : Due(c, secs, u)}
Listed(r, D, n) ==
  /\ r \in Seq(Nat) /\ ToSet(r) \subseteq D
  /\ IsFiniteSet(ToSet(r)) /\ Cardinality(ToSet(r)) = Len(r)
  /\ \A i \in 2..Len(r) : r[i - 1] < r[i]
  /\ \A u \in D : u \notin ToSet(r) => \A v \in ToSet(r) : v < u
  /\ Len(r) = n \/ (Len(r) < n /\ D \subseteq ToSet(r))

LEMMA NoneListed ==
  ASSUME NEW D, NEW n \in Nat, n = 0 \/ D = {} PROVE Listed(<<>>, D, n)
<1>1. ToSet(<<>>) = {} /\ Len(<<>>) = 0 /\ <<>> \in Seq(Nat)
  BY DEF ToSet
<1>2. IsFiniteSet({}) /\ Cardinality({}) = 0
  BY FS_EmptySet
<1>3. \A i : i \notin 2..0
  OBVIOUS
<1> DEFINE r == <<>>
<1>4. /\ r \in Seq(Nat) /\ ToSet(r) = {} /\ Len(r) = 0 /\ IsFiniteSet(ToSet(r))
      /\ Cardinality(ToSet(r)) = Len(r)
  BY <1>1, <1>2
<1> HIDE DEF r
<1>5. \A i \in 2..Len(r) : r[i - 1] < r[i]
  BY <1>3, <1>4, Zenon
<1>6. Len(r) = n \/ (Len(r) < n /\ D \subseteq ToSet(r))
  BY <1>4
<1>7. Listed(r, D, n)
  BY <1>4, <1>5, <1>6 DEF Listed
<1> QED
  BY <1>7 DEF r

LEMMA Behind ==
  ASSUME NEW S, NEW x, x \in S, NEW s \in Seq(S)
  PROVE  /\ <<x>> \o s \in Seq(S) /\ Len(<<x>> \o s) = Len(s) + 1 /\ (<<x>> \o s)[1] = x
         /\ \A i \in 2..Len(<<x>> \o s) : (<<x>> \o s)[i] = s[i - 1]
<1>1. /\ <<x>> \o s \in Seq(S) /\ Len(<<x>> \o s) = Len(s) + 1 /\ (<<x>> \o s)[1] = x
  OBVIOUS
<1>2. ASSUME NEW i \in 2..Len(<<x>> \o s) PROVE (<<x>> \o s)[i] = s[i - 1]
  OBVIOUS
<1> QED
  BY <1>1, <1>2

LEMMA Prepended ==
  ASSUME NEW t \in Nat, NEW r \in Seq(Nat)
  PROVE  LET s == <<t>> \o r IN
         /\ s \in Seq(Nat) /\ Len(s) = Len(r) + 1 /\ s[1] = t
         /\ \A i \in 2..Len(s) : s[i] = r[i - 1]
         /\ ToSet(s) = {t} \cup ToSet(r)
<1> DEFINE s == <<t>> \o r
<1>1. s \in Seq(Nat) /\ Len(s) = Len(r) + 1 /\ s[1] = t /\ Len(r) \in Nat
  OBVIOUS
<1>2. ASSUME NEW i \in 2..Len(s) PROVE s[i] = r[i - 1]
  BY Behind
<1>3. ASSUME NEW x PROVE x \in ToSet(s) <=> x = t \/ x \in ToSet(r)
  <2>1. x \in ToSet(s) <=> \E i \in 1..Len(s) : s[i] = x
    <3> HIDE DEF s
    <3> QED
      BY <1>1 DEF ToSet
  <2>2. x \in ToSet(r) <=> \E i \in 1..Len(r) : r[i] = x
    BY DEF ToSet
  <2> HIDE DEF s
  <2>3. ASSUME NEW i \in 1..Len(r), r[i] = x PROVE \E j \in 1..Len(s) : s[j] = x
    <3>1. i + 1 \in 2..Len(s) /\ i + 1 \in 1..Len(s) /\ (i + 1) - 1 = i
      BY <1>1
    <3>2. s[i + 1] = r[(i + 1) - 1]
      BY <1>2, <3>1
    <3> QED
      BY <2>3, <3>1, <3>2
  <2>4. ASSUME NEW i \in 1..Len(s), s[i] = x, x # t PROVE \E j \in 1..Len(r) : r[j] = x
    <3>1. i \in 2..Len(s) /\ i - 1 \in 1..Len(r)
      BY <1>1, <2>4
    <3> QED
      BY <1>2, <2>4, <3>1
  <2>5. 1 \in 1..Len(s)
    BY <1>1
  <2> QED
    BY <1>1, <2>1, <2>2, <2>3, <2>4, <2>5
<1> HIDE DEF s
<1> QED
  BY <1>1, <1>2, <1>3 DEF s

LEMMA OneMoreListed ==
  ASSUME NEW t \in Nat, NEW r, NEW E \in SUBSET Nat, NEW n \in Nat, Listed(r, E, n),
         \A u \in E : t < u, NEW D, D = {t} \cup E
  PROVE  Listed(<<t>> \o r, D, n + 1)
<1> DEFINE s == <<t>> \o r
<1>0. r \in Seq(Nat) /\ ToSet(r) \subseteq E
  BY DEF Listed
<1>1. /\ s \in Seq(Nat) /\ Len(s) = Len(r) + 1 /\ s[1] = t
      /\ \A i \in 2..Len(s) : s[i] = r[i - 1]
      /\ ToSet(s) = {t} \cup ToSet(r)
  BY <1>0, Prepended
<1>2. Len(r) \in Nat /\ \A i \in 1..Len(r) : r[i] \in ToSet(r)
  BY <1>0 DEF ToSet
<1> HIDE DEF s
<1>3. ToSet(s) \subseteq D
  BY <1>0, <1>1
<1>4. t \notin ToSet(r)
  BY <1>0
<1>5. IsFiniteSet(ToSet(s)) /\ Cardinality(ToSet(s)) = Len(s)
  <2>1. IsFiniteSet(ToSet(r)) /\ Cardinality(ToSet(r)) = Len(r)
    BY DEF Listed
  <2>2. /\ IsFiniteSet(ToSet(r) \cup {t})
        /\ Cardinality(ToSet(r) \cup {t}) = Cardinality(ToSet(r)) + 1
    BY <1>4, <2>1, FS_AddElement
  <2>3. ToSet(s) = ToSet(r) \cup {t}
    BY <1>1
  <2> QED
    BY <1>1, <2>1, <2>2, <2>3
<1>6. ASSUME NEW i \in 2..Len(s) PROVE s[i - 1] < s[i]
  <2>1. s[i] = r[i - 1] /\ i - 1 \in 1..Len(r)
    BY <1>1, <1>2
  <2>2. CASE i = 2
    <3>1. s[i - 1] = t /\ r[i - 1] \in E
      BY <1>0, <1>1, <1>2, <2>1, <2>2
    <3> QED
      BY <2>1, <3>1
  <2>3. CASE i # 2
    <3>1. i - 1 \in 2..Len(s) /\ i - 1 \in 2..Len(r)
      BY <1>1, <1>2, <2>3
    <3>2. s[i - 1] = r[i - 1 - 1] /\ r[i - 1 - 1] < r[i - 1]
      BY <1>1, <3>1 DEF Listed
    <3> QED
      BY <2>1, <3>2
  <2> QED
    BY <2>2, <2>3
<1>7. ASSUME NEW u \in D, u \notin ToSet(s), NEW v \in ToSet(s) PROVE v < u
  <2>1. u \in E /\ u \notin ToSet(r)
    BY <1>1, <1>7
  <2>2. CASE v = t
    BY <2>1, <2>2
  <2>3. CASE v \in ToSet(r)
    BY <2>1, <2>3 DEF Listed
  <2> QED
    BY <1>1, <2>2, <2>3
<1>8. Len(s) = n + 1 \/ (Len(s) < n + 1 /\ D \subseteq ToSet(s))
  <2>1. CASE Len(r) = n
    BY <1>1, <2>1
  <2>2. CASE Len(r) < n /\ E \subseteq ToSet(r)
    BY <1>1, <1>2, <2>2
  <2> QED
    BY <2>1, <2>2 DEF Listed
<1>9. Listed(s, D, n + 1)
  BY <1>1, <1>3, <1>5, <1>6, <1>7, <1>8 DEF Listed
<1> QED
  BY <1>9 DEF s

LEMMA RunsAreListed ==
  ASSUME NEW c, NEW secs \in BOOLEAN, IsSchedule(c), NEW g, WentFrom(g, c, secs, 0),
         NEW t \in Nat, Beat(secs, t), NEW n \in 0..CronCount
  PROVE  Listed(g[<<t, n>>], DueFrom(c, secs, t), n)
<1> DEFINE R(u) == \A m \in 0..CronCount :
                     Beat(secs, u) => Listed(g[<<u, m>>], DueFrom(c, secs, u), m)
           P == {k \in 0..CronEnd : \A u \in Nat : u >= CronEnd - k => R(u)}
<1>0. \A u \in Nat, m \in 0..CronCount : g[<<u, m>>] = Went(g, c, secs, u, m)
  <2>1. \A u \in Nat : u >= 0
    OBVIOUS
  <2> QED
    BY <2>1, Zenon DEF WentFrom
<1>1. ASSUME NEW u \in Nat, u >= CronEnd PROVE R(u)
  <2>1. ASSUME NEW m \in 0..CronCount PROVE Listed(g[<<u, m>>], DueFrom(c, secs, u), m)
    <3>1. g[<<u, m>>] = <<>>
      BY <1>0, <1>1 DEF Went
    <3>2. DueFrom(c, secs, u) = {}
      BY <1>1, LensAre DEF DueFrom
    <3>3. m \in Nat
      BY LensAre
    <3> QED
      BY <3>1, <3>2, <3>3, NoneListed
  <2> QED
    BY <2>1
<1>2. ASSUME NEW b \in Nat, b < CronEnd, \A u \in Nat : u > b => R(u) PROVE R(b)
  <2>1. ASSUME NEW m \in 0..CronCount, Beat(secs, b)
        PROVE  Listed(g[<<b, m>>], DueFrom(c, secs, b), m)
    <3> DEFINE to == Skipped(c, secs, b)
               on == Onward(secs, b)
    <3>0. m \in Nat
      BY LensAre
    <3>1. /\ to \in Nat /\ to >= b /\ Beat(secs, to) /\ (to = b <=> Due(c, secs, b))
          /\ \A u \in Nat : b <= u /\ u < to => ~Due(c, secs, u)
      BY <2>1, SkippedIs
    <3>2. /\ on \in Nat /\ on > b /\ Beat(secs, on)
          /\ \A u \in Nat : b < u /\ u < on => ~Due(c, secs, u)
      BY <2>1, OnwardIs
    <3>3. g[<<b, m>>] = IF m = 0 THEN <<>>
                        ELSE IF to # b THEN g[<<to, m>>] ELSE <<b>> \o g[<<on, m - 1>>]
      BY <1>0, <1>2, LensAre DEF Went
    <3> HIDE DEF to, on, R
    <3>4. CASE m = 0
      BY <3>0, <3>3, <3>4, NoneListed
    <3>5. CASE m # 0 /\ to # b
      <4>1. Listed(g[<<to, m>>], DueFrom(c, secs, to), m)
        BY <1>2, <3>1, <3>5 DEF R
      <4>2. DueFrom(c, secs, to) = DueFrom(c, secs, b)
        BY <3>1, LensAre DEF DueFrom
      <4> QED
        BY <3>3, <3>5, <4>1, <4>2
    <3>6. CASE m # 0 /\ to = b
      <4>1. m - 1 \in 0..CronCount /\ m - 1 \in Nat /\ m - 1 + 1 = m
        BY <3>6, LensAre
      <4>2. Listed(g[<<on, m - 1>>], DueFrom(c, secs, on), m - 1)
        BY <1>2, <3>2, <4>1 DEF R
      <4>3. Due(c, secs, b)
        BY <3>1, <3>6
      <4>4. DueFrom(c, secs, b) = {b} \cup DueFrom(c, secs, on)
        BY <1>2, <3>2, <4>3, LensAre DEF DueFrom
      <4>5. DueFrom(c, secs, on) \in SUBSET Nat /\ \A u \in DueFrom(c, secs, on) : b < u
        BY <3>2, LensAre DEF DueFrom
      <4>6. Listed(<<b>> \o g[<<on, m - 1>>], DueFrom(c, secs, b), m - 1 + 1)
        BY <4>1, <4>2, <4>4, <4>5, OneMoreListed
      <4> QED
        BY <3>3, <3>6, <4>1, <4>6
    <3> QED
      BY <3>4, <3>5, <3>6
  <2> QED
    BY <2>1
<1> HIDE DEF R
<1>3. 0 \in P
  BY <1>1, LensAre
<1>4. ASSUME NEW k \in 0..CronEnd - 1, k \in P PROVE k + 1 \in P
  <2> DEFINE b == CronEnd - (k + 1)
  <2>1. b \in Nat /\ b < CronEnd /\ k + 1 \in 0..CronEnd /\ CronEnd - k = b + 1
    BY LensAre
  <2> HIDE DEF b
  <2>2. \A u \in Nat : u > b => R(u)
    BY <1>4, <2>1
  <2>3. R(b)
    BY <1>2, <2>1, <2>2
  <2>4. \A u \in Nat : u >= b => R(u)
    BY <2>1, <2>2, <2>3
  <2> QED
    BY <2>1, <2>4 DEF b
<1>5. CronEnd \in Nat /\ CronEnd \in 0..CronEnd /\ CronEnd - CronEnd = 0
  BY LensAre
<1>6. CronEnd \in P
  <2> HIDE DEF P
  <2>1. \A k \in 0..CronEnd : k \in P
    BY <1>3, <1>4, <1>5, ByInduction
  <2> QED
    BY <1>5, <2>1
<1>7. R(t)
  BY <1>5, <1>6
<1> QED
  BY <1>7 DEF R

LEMMA RunsAreDue ==
  ASSUME NEW c, NEW secs \in BOOLEAN, IsSchedule(c), NEW now \in Nat
  PROVE  LET due == {t \in now + 1..CronEnd - 1 : Due(c, secs, t)}
             r == NextRuns(c, secs, now)
         IN /\ ToSet(r) \subseteq due /\ Len(r) = Min({CronCount, Cardinality(due)})
            /\ \A i \in 2..Len(r) : r[i - 1] < r[i]
            /\ \A t \in due \ ToSet(r) : \A v \in ToSet(r) : v < t
<1> DEFINE due == {t \in now + 1..CronEnd - 1 : Due(c, secs, t)}
           r == NextRuns(c, secs, now)
           on == Onward(secs, now)
<1>1. PICK g : WentFrom(g, c, secs, 0) /\ r = g[<<on, CronCount>>]
  BY NextRunsIs
<1>2. on \in Nat /\ on > now /\ Beat(secs, on)
  BY OnwardIs
<1>3. Listed(r, DueFrom(c, secs, on), CronCount)
  BY <1>1, <1>2, RunsAreListed, LensAre
<1>4. DueFrom(c, secs, on) = due
  <2>1. ASSUME NEW u \in now + 1..on - 1 PROVE ~Due(c, secs, u)
    <3>1. CASE secs
      BY <3>1 DEF Onward
    <3>2. CASE ~secs
      <4>1. on = NextMultiple(now, CronSeconds)
        BY <3>2 DEF Onward
      <4>2. u \in Nat /\ now <= u /\ now < u /\ u < on
        BY <1>2
      <4> DEFINE q == now \div CronSeconds
                 s == u % CronSeconds
      <4>3. u \div CronSeconds = q
        BY <4>1, <4>2, NextOf
      <4> DEFINE z == now % CronSeconds
      <4>9. now = CronSeconds * q + z /\ q \in Nat /\ z \in 0..CronSeconds - 1
        BY DivMod, LensAre
      <4>7. now = CronSeconds * q + z /\ z \in Nat /\ q \in Nat
        <5> HIDE DEF q, z
        <5> QED
          BY <4>9
      <4>8. u = CronSeconds * (u \div CronSeconds) + s /\ s \in Nat
        BY <4>2, DivMod, LensAre
      <4>4. now = CronSeconds * q + z /\ u = CronSeconds * q + s
        BY <4>3, <4>7, <4>8
      <4> HIDE DEF q, s, z
      <4>5. CronSeconds * q \in Int
        BY <4>7, LensAre
      <4>6. s # 0
        BY <4>2, <4>4, <4>5, <4>7, <4>8
      <4> QED
        BY <3>2, <4>6 DEF Due, s
    <3> QED
      BY <3>1, <3>2
  <2> HIDE DEF on
  <2> QED
    BY <1>2, <2>1, LensAre DEF DueFrom
<1> HIDE DEF r, on
<1>5. Listed(r, due, CronCount)
  BY <1>3, <1>4
<1>6. IsFiniteSet(due)
  <2>1. IsFiniteSet(now + 1..CronEnd - 1)
    BY FS_Interval, LensAre
  <2> QED
    BY <2>1, FS_Subset
<1> HIDE DEF due
<1>7. Len(r) = Min({CronCount, Cardinality(due)})
  <2>1. /\ Cardinality(ToSet(r)) = Len(r) /\ ToSet(r) \subseteq due
        /\ Len(r) = CronCount \/ (Len(r) < CronCount /\ due \subseteq ToSet(r))
    BY <1>5 DEF Listed
  <2>0. Cardinality(due) \in Nat
    BY <1>6, FS_CardinalityType
  <2>2. Cardinality(ToSet(r)) <= Cardinality(due)
    BY <1>6, <2>1, FS_Subset
  <2> DEFINE d == Cardinality(due)
             x == Min({CronCount, d})
  <2>5. CronCount \in Int /\ d \in Int /\ Len(r) <= d
    BY <2>0, <2>1, <2>2, LensAre
  <2>6. x \in {CronCount, d} /\ x <= CronCount /\ x <= d
    BY <2>5, MinOfTwo
  <2> HIDE DEF d, x
  <2>3. CASE Len(r) = CronCount
    <3>1. Len(r) = x
      BY <2>3, <2>5, <2>6
    <3> QED
      BY <3>1 DEF x, d
  <2>4. CASE Len(r) < CronCount /\ due \subseteq ToSet(r)
    <3>1. due = ToSet(r)
      BY <2>1, <2>4
    <3>2. d = Len(r)
      BY <2>1, <3>1 DEF d
    <3>3. Len(r) = x
      BY <2>4, <2>5, <2>6, <3>2
    <3> QED
      BY <3>3 DEF x, d
  <2> QED
    BY <2>1, <2>3, <2>4
<1> QED
  BY <1>5, <1>7 DEF Listed, due, r

(* What an expression that parses is: its fields, their values.             *)

LEMMA FieldsAre ==
  ASSUME NEW secs \in BOOLEAN
  PROVE  LET ns == FieldsFor(secs) IN
         /\ secs => /\ Len(ns) = 6 /\ DOMAIN ns = 1..6
                    /\ ns[1] = "second" /\ ns[2] = "minute" /\ ns[3] = "hour" /\ ns[4] = "dom"
                    /\ ns[5] = "month" /\ ns[6] = "dow"
         /\ ~secs => /\ Len(ns) = 5 /\ DOMAIN ns = 1..5
                     /\ ns[1] = "minute" /\ ns[2] = "hour" /\ ns[3] = "dom"
                     /\ ns[4] = "month" /\ ns[5] = "dow"
<1>1. CASE secs
  <2> DEFINE five == <<"minute", "hour", "dom", "month", "dow">>
             one == <<"second">>
  <2>1. FieldsFor(secs) = one \o five
    BY <1>1 DEF FieldsFor
  <2>2. /\ one = [i \in 1..1 |-> one[i]] /\ Len(one) = 1 /\ five = [i \in 1..5 |-> five[i]]
        /\ Len(five) = 5 /\ one[1] = "second" /\ five[1] = "minute" /\ five[2] = "hour"
        /\ five[3] = "dom" /\ five[4] = "month" /\ five[5] = "dow"
    OBVIOUS
  <2> HIDE DEF one, five
  <2>3. one \in Seq(ToSet(one) \cup ToSet(five)) /\ five \in Seq(ToSet(one) \cup ToSet(five))
    BY <2>2 DEF ToSet
  <2>4. Len(one \o five) = 6 /\ DOMAIN (one \o five) = 1..6
    BY <2>2, <2>3
  <2>5. /\ (one \o five)[1] = one[1] /\ (one \o five)[2] = five[1] /\ (one \o five)[3] = five[2]
        /\ (one \o five)[4] = five[3] /\ (one \o five)[5] = five[4] /\ (one \o five)[6] = five[5]
    BY <2>2, <2>3
  <2> QED
    BY <1>1, <2>1, <2>2, <2>4, <2>5
<1>2. CASE ~secs
  <2>1. FieldsFor(secs) = <<"minute", "hour", "dom", "month", "dow">>
    BY <1>2 DEF FieldsFor
  <2> QED
    BY <1>2, <2>1
<1> QED
  BY <1>1, <1>2

LEMMA FieldsApart ==
  ASSUME NEW secs \in BOOLEAN, NEW i \in DOMAIN FieldsFor(secs), NEW j \in DOMAIN FieldsFor(secs),
         FieldsFor(secs)[i] = FieldsFor(secs)[j]
  PROVE  i = j
<1>1. CASE secs
  <2> DEFINE ns == FieldsFor(secs)
  <2>1. /\ i \in 1..6 /\ j \in 1..6 /\ ns[i] = ns[j]
        /\ ns[1] = "second" /\ ns[2] = "minute" /\ ns[3] = "hour" /\ ns[4] = "dom"
        /\ ns[5] = "month" /\ ns[6] = "dow"
    BY <1>1, FieldsAre
  <2> HIDE DEF ns
  <2> QED
    BY <2>1
<1>2. CASE ~secs
  <2> DEFINE ns == FieldsFor(secs)
  <2>1. /\ i \in 1..5 /\ j \in 1..5 /\ ns[i] = ns[j]
        /\ ns[1] = "minute" /\ ns[2] = "hour" /\ ns[3] = "dom"
        /\ ns[4] = "month" /\ ns[5] = "dow"
    BY <1>2, FieldsAre
  <2> HIDE DEF ns
  <2> QED
    BY <2>1
<1> QED
  BY <1>1, <1>2

LEMMA ParsedIs ==
  ASSUME NEW e, NEW secs \in BOOLEAN
  PROVE  LET c == Parsed(e, secs)  ns == FieldsFor(secs)  fs == Expanded(e, secs) IN
         /\ DOMAIN c = ToSet(ns)
         /\ \A i \in DOMAIN ns :
              /\ c[ns[i]].values = UNION {Stepped(p, ns[i]) : p \in fs[i]}
              /\ c[ns[i]].restricted = (fs[i] # AnyField)
              /\ c[ns[i]].restricted \in BOOLEAN
<1> DEFINE c == Parsed(e, secs)
           ns == FieldsFor(secs)
           fs == Expanded(e, secs)
           field(n) == fs[CHOOSE i \in DOMAIN ns : ns[i] = n]
<1>1. c = [n \in ToSet(ns) |-> [values |-> UNION {Stepped(p, n) : p \in field(n)},
                                restricted |-> field(n) # AnyField]]
  BY DEF Parsed
<1>2. ASSUME NEW i \in DOMAIN ns PROVE field(ns[i]) = fs[i] /\ ns[i] \in ToSet(ns)
  <2>1. \A j \in DOMAIN ns : ns[j] = ns[i] => j = i
    BY FieldsApart
  <2> HIDE DEF ns, fs
  <2>2. (CHOOSE j \in DOMAIN ns : ns[j] = ns[i]) = i
    BY <2>1
  <2>3. ns[i] \in ToSet(ns)
    BY DEF ToSet
  <2> QED
    BY <2>2, <2>3
<1> HIDE DEF c, ns, fs, field
<1>3. DOMAIN c = ToSet(ns)
  BY <1>1
<1>4. ASSUME NEW i \in DOMAIN ns
      PROVE  /\ c[ns[i]].values = UNION {Stepped(p, ns[i]) : p \in fs[i]}
             /\ c[ns[i]].restricted = (fs[i] # AnyField)
             /\ c[ns[i]].restricted \in BOOLEAN
  <2> DEFINE v == UNION {Stepped(p, ns[i]) : p \in fs[i]}
             b == fs[i] # AnyField
  <2>1. c[ns[i]] = [values |-> v, restricted |-> b]
    BY <1>1, <1>2
  <2>2. b \in BOOLEAN
    OBVIOUS
  <2> HIDE DEF v, b
  <2>3. c[ns[i]].values = v /\ c[ns[i]].restricted = b
    BY <2>1
  <2> QED
    BY <2>2, <2>3, Zenon DEF v, b
<1> QED
  BY <1>3, <1>4 DEF c, ns, fs

LEMMA RangesAre ==
  /\ FieldOf["second"] = [low |-> 0, high |-> CronSeconds - 1]
  /\ FieldOf.minute = [low |-> 0, high |-> CronMinutes - 1]
  /\ FieldOf.hour = [low |-> 0, high |-> CronHours - 1]
  /\ FieldOf.dom = [low |-> 1, high |-> Max(ToSet(CronMonths))]
  /\ FieldOf.month = [low |-> 1, high |-> Months]
  /\ FieldOf.dow = [low |-> 0, high |-> CronWeek - 1]
BY DEF FieldOf, Months

LEMMA MonthsFit ==
  /\ Max(ToSet(CronMonths)) \in Nat
  /\ \A m \in 1..Months : CronMonths[m] <= Max(ToSet(CronMonths))
<1> DEFINE L == ToSet(CronMonths)
<1>1. ASSUME NEW m \in 1..Months PROVE CronMonths[m] \in 0..YearDays /\ CronMonths[m] \in L
  <2>1. /\ MonthStart[m + 1] = MonthStart[m] + CronMonths[m] /\ MonthStart[m] \in Nat
        /\ CronMonths[m] \in Nat
    BY MonthsAre, MonthStartIs, MonthsFollow
  <2>2. MonthStart[m + 1] <= YearDays
    <3>1. /\ m + 1 \in 1..Months + 1 /\ Months + 1 \in 1..Months + 1
          /\ m + 1 < Months + 1 => m + 1 \in 1..(Months + 1) - 1
      BY MonthsAre
    <3>2. CASE m + 1 = Months + 1
      BY <3>2, LensAre DEF YearDays, Months
    <3>3. CASE m + 1 # Months + 1
      BY <3>1, <3>3, MonthsFollow, MonthsAre DEF YearDays, Months
    <3> QED
      BY <3>2, <3>3
  <2>3. m \in DOMAIN CronMonths
    BY MonthsAre
  <2> QED
    BY <2>1, <2>2, <2>3, LensAre DEF ToSet
<1>2. ASSUME NEW x \in L PROVE x \in 0..YearDays
  <2>1. PICK m \in DOMAIN CronMonths : CronMonths[m] = x
    BY DEF ToSet
  <2>2. m \in 1..Months
    BY MonthsAre
  <2> QED
    BY <1>1, <2>1, <2>2
<1>3. 1 \in 1..Months
  BY MonthsAre
<1> HIDE DEF L
<1>4. L \in SUBSET (0..YearDays) /\ L # {}
  BY <1>1, <1>2, <1>3
<1>5. Max(L) \in L /\ \A k \in L : Max(L) >= k
  BY <1>4, MaxOf, LensAre
<1>6. Max(L) \in 0..YearDays
  BY <1>2, <1>5
<1>7. Max(L) \in Nat
  BY <1>6, LensAre
<1>8. ASSUME NEW m \in 1..Months PROVE CronMonths[m] <= Max(L)
  <2>1. CronMonths[m] \in L /\ CronMonths[m] \in 0..YearDays
    BY <1>1
  <2>2. Max(L) >= CronMonths[m]
    BY <1>5, <2>1
  <2> QED
    BY <1>7, <2>1, <2>2, LensAre
<1> QED
  BY <1>7, <1>8 DEF L

LEMMA FieldsAreRanges ==
  ASSUME NEW secs \in BOOLEAN, NEW i \in DOMAIN FieldsFor(secs)
  PROVE  FieldOf[FieldsFor(secs)[i]].low \in Nat /\ FieldOf[FieldsFor(secs)[i]].high \in Int
<1>1. \A n \in {"second", "minute", "hour", "dom", "month", "dow"} :
        FieldOf[n].low \in Nat /\ FieldOf[n].high \in Int
  BY RangesAre, MonthsFit, MonthsAre, LensAre
<1>2. FieldsFor(secs)[i] \in {"second", "minute", "hour", "dom", "month", "dow"}
  <2> DEFINE ns == FieldsFor(secs)
  <2>1. CASE secs
    <3>1. i \in 1..6
      BY <2>1, FieldsAre
    <3>2. /\ ns[1] = "second" /\ ns[2] = "minute" /\ ns[3] = "hour" /\ ns[4] = "dom"
          /\ ns[5] = "month" /\ ns[6] = "dow"
      BY <2>1, FieldsAre
    <3> HIDE DEF ns
    <3>3. ns[i] \in {"second", "minute", "hour", "dom", "month", "dow"}
      BY <3>1, <3>2
    <3> QED
      BY <3>3 DEF ns
  <2>2. CASE ~secs
    <3>1. i \in 1..5
      BY <2>2, FieldsAre
    <3>2. /\ ns[1] = "minute" /\ ns[2] = "hour" /\ ns[3] = "dom"
          /\ ns[4] = "month" /\ ns[5] = "dow"
      BY <2>2, FieldsAre
    <3> HIDE DEF ns
    <3>3. ns[i] \in {"second", "minute", "hour", "dom", "month", "dow"}
      BY <3>1, <3>2
    <3> QED
      BY <3>3 DEF ns
  <2> QED
    BY <2>1, <2>2
<1> QED
  BY <1>1, <1>2

LEMMA SteppedIs ==
  ASSUME NEW n, FieldOf[n].low \in Int, FieldOf[n].high \in Int, NEW p \in Parts, PartParses(p, n)
  PROVE  Stepped(p, n) \subseteq FieldOf[n].low..FieldOf[n].high /\ Stepped(p, n) # {}
<1> DEFINE lo == Ends(p, n).low
           hi == Ends(p, n).high
           k == IF p.step = 0 THEN 1 ELSE p.step
<1>1. p.lo \in Int /\ p.hi \in Int /\ p.step \in Int /\ p.star \in BOOLEAN
  BY DEF Parts
<1>2. lo \in Int /\ hi \in Int
  <2>1. CASE p.star
    BY <2>1 DEF Ends
  <2>2. CASE ~p.star
    BY <1>1, <2>2 DEF Ends
  <2> QED
    BY <2>1, <2>2
<1>3. FieldOf[n].low <= lo /\ hi <= FieldOf[n].high /\ lo <= hi /\ p.step >= 0
  BY DEF PartParses
<1>4. Stepped(p, n) = {v \in lo..hi : (v - lo) % k = 0}
  BY DEF Stepped
<1>5. k \in Nat \ {0}
  BY <1>1, <1>3
<1> HIDE DEF lo, hi, k
<1>6. lo \in lo..hi /\ lo - lo = 0
  BY <1>2, <1>3
<1>7. 0 % k = 0
  BY <1>5
<1>8. lo..hi \subseteq FieldOf[n].low..FieldOf[n].high
  BY <1>2, <1>3
<1> QED
  BY <1>4, <1>6, <1>7, <1>8

LEMMA AtIs == AnyField \in Fields /\ \A v \in Int : At(v) \in Fields
BY DEF AnyField, At, Fields, Parts

LEMMA MacrosAre ==
  ASSUME NEW m \in DOMAIN Macros
  PROVE  Macros[m] \in Seq(Fields) /\ Len(Macros[m]) = 5
<1>1. At(0) \in Fields /\ At(1) \in Fields /\ AnyField \in Fields
  BY AtIs
<1>2. ASSUME NEW a \in Fields, NEW b \in Fields, NEW c \in Fields, NEW d \in Fields,
             NEW f \in Fields, Macros[m] = <<a, b, c, d, f>>
      PROVE  Macros[m] \in Seq(Fields) /\ Len(Macros[m]) = 5
  BY <1>2
<1>3. m \in {"yearly", "monthly", "weekly", "daily", "hourly"}
  BY DEF Macros
<1>4. \/ Macros[m] = <<At(0), At(0), At(1), At(1), AnyField>>
      \/ Macros[m] = <<At(0), At(0), At(1), AnyField, AnyField>>
      \/ Macros[m] = <<At(0), At(0), AnyField, AnyField, At(0)>>
      \/ Macros[m] = <<At(0), At(0), AnyField, AnyField, AnyField>>
      \/ Macros[m] = <<At(0), AnyField, AnyField, AnyField, AnyField>>
  BY <1>3 DEF Macros
<1> QED
  BY <1>1, <1>2, <1>4, Zenon

LEMMA SecondFirst ==
  ASSUME NEW fs \in Seq(Fields)
  PROVE  /\ <<At(0)>> \o fs \in Seq(Fields) /\ Len(<<At(0)>> \o fs) = Len(fs) + 1
         /\ (<<At(0)>> \o fs)[1] = At(0)
         /\ \A i \in 1..Len(fs) : (<<At(0)>> \o fs)[i + 1] = fs[i]
<1>1. At(0) \in Fields
  BY AtIs
<1>2. /\ <<At(0)>> \o fs \in Seq(Fields) /\ Len(<<At(0)>> \o fs) = Len(fs) + 1
      /\ (<<At(0)>> \o fs)[1] = At(0)
      /\ \A i \in 2..Len(<<At(0)>> \o fs) : (<<At(0)>> \o fs)[i] = fs[i - 1]
  BY <1>1, Behind
<1> DEFINE s == <<At(0)>> \o fs
<1> HIDE DEF s
<1>3. ASSUME NEW i \in 1..Len(fs) PROVE s[i + 1] = fs[i]
  <2>1. i + 1 \in 2..Len(s) /\ (i + 1) - 1 = i
    BY <1>2 DEF s
  <2>2. s[i + 1] = fs[(i + 1) - 1]
    BY <1>2, <2>1 DEF s
  <2> QED
    BY <2>1, <2>2
<1> QED
  BY <1>2, <1>3 DEF s

LEMMA ExpandedIs ==
  ASSUME NEW e \in Exprs, NEW secs \in BOOLEAN
  PROVE  Expanded(e, secs) \in Seq(Fields)
<1>1. e.fields \in Seq(Fields)
  BY DEF Exprs
<1>2. CASE e.macro \in DOMAIN Macros /\ secs
  <2>1. Expanded(e, secs) = <<At(0)>> \o Macros[e.macro]
    BY <1>2 DEF Expanded
  <2> QED
    BY <1>2, <2>1, MacrosAre, SecondFirst
<1>3. CASE e.macro \in DOMAIN Macros /\ ~secs
  <2>1. Expanded(e, secs) = <<>> \o Macros[e.macro]
    BY <1>3 DEF Expanded
  <2>2. \A s \in Seq(Fields) : <<>> \o s \in Seq(Fields)
    OBVIOUS
  <2> QED
    BY <1>3, <2>1, <2>2, MacrosAre
<1>4. CASE e.macro \notin DOMAIN Macros
  BY <1>1, <1>4 DEF Expanded
<1> QED
  BY <1>2, <1>3, <1>4

LEMMA FieldParsed ==
  ASSUME NEW e \in Exprs, NEW secs \in BOOLEAN, Parses(e, secs), NEW i \in DOMAIN FieldsFor(secs)
  PROVE  LET n == FieldsFor(secs)[i]  f == Expanded(e, secs)[i] IN
         /\ f \in Fields /\ f # {} /\ \A p \in f : p \in Parts /\ PartParses(p, n)
         /\ Parsed(e, secs)[n].values # {}
         /\ Parsed(e, secs)[n].values \subseteq FieldOf[n].low..FieldOf[n].high
<1> DEFINE ns == FieldsFor(secs)
           n == ns[i]
           fs == Expanded(e, secs)
           f == fs[i]
           V == UNION {Stepped(p, n) : p \in f}
<1>1. fs \in Seq(Fields)
  BY ExpandedIs
<1>2. Len(fs) = Len(ns) /\ \A j \in DOMAIN fs : fs[j] # {} /\ \A p \in fs[j] : PartParses(p, ns[j])
  BY DEF Parses
<1>3. DOMAIN ns = 1..Len(ns)
  BY FieldsAre
<1>4. Parsed(e, secs)[n].values = V
  BY ParsedIs
<1>5. FieldOf[n].low \in Int /\ FieldOf[n].high \in Int
  BY FieldsAreRanges
<1> HIDE DEF ns, fs
<1>6. i \in DOMAIN ns
  BY DEF ns
<1>7. i \in DOMAIN fs /\ f \in Fields
  BY <1>1, <1>2, <1>3, <1>6
<1>8. f # {} /\ \A p \in f : p \in Parts /\ PartParses(p, n)
  BY <1>2, <1>7 DEF Fields
<1>9. V # {} /\ V \subseteq FieldOf[n].low..FieldOf[n].high
  <2>1. \A p \in f : Stepped(p, n) # {} /\ Stepped(p, n) \subseteq FieldOf[n].low..FieldOf[n].high
    BY <1>5, <1>8, SteppedIs
  <2> HIDE DEF n, f
  <2> QED
    BY <1>8, <2>1
<1> QED
  BY <1>4, <1>7, <1>8, <1>9 DEF ns, fs

LEMMA AnyIsAll ==
  ASSUME NEW n, FieldOf[n].low \in Int, FieldOf[n].high \in Int
  PROVE  UNION {Stepped(p, n) : p \in AnyField} = FieldOf[n].low..FieldOf[n].high
<1> DEFINE any == [star |-> TRUE, lo |-> 0, hi |-> 0, step |-> 0]
<1>1. UNION {Stepped(p, n) : p \in AnyField} = Stepped(any, n)
  BY DEF AnyField
<1>2. Ends(any, n) = FieldOf[n]
  BY DEF Ends
<1>3. Stepped(any, n) = {v \in FieldOf[n].low..FieldOf[n].high : (v - FieldOf[n].low) % 1 = 0}
  BY <1>2 DEF Stepped
<1>4. \A v \in FieldOf[n].low..FieldOf[n].high : (v - FieldOf[n].low) % 1 = 0
  OBVIOUS
<1> QED
  BY <1>1, <1>3, <1>4

LEMMA ParsedIsSchedule ==
  ASSUME NEW e \in Exprs, NEW secs \in BOOLEAN, Parses(e, secs)
  PROVE  IsSchedule(Parsed(e, secs))
<1> DEFINE c == Parsed(e, secs)
           ns == FieldsFor(secs)
<1>1. PICK i \in DOMAIN ns : ns[i] = "dom"
  BY FieldsAre
<1>2. PICK j \in DOMAIN ns : ns[j] = "dow"
  BY FieldsAre
<1>3. c.dom.restricted \in BOOLEAN /\ c.dow.restricted \in BOOLEAN
  BY <1>1, <1>2, ParsedIs
<1>4. ASSUME NEW t \in Nat, ~c.dom.restricted PROVE DateOf(t) \in c.dom.values
  <2>1. Expanded(e, secs)[i] = AnyField
    BY <1>1, <1>4, ParsedIs
  <2>2. FieldOf.dom.low \in Int /\ FieldOf.dom.high \in Int
    BY RangesAre, MonthsFit
  <2>3. c.dom.values = UNION {Stepped(p, "dom") : p \in AnyField}
    BY <1>1, <2>1, ParsedIs
  <2>4. c.dom.values = 1..Max(ToSet(CronMonths))
    BY <2>2, <2>3, AnyIsAll, RangesAre
  <2>5. /\ DateOf(t) \in 1..CronMonths[MonthOf(t)] /\ MonthOf(t) \in 1..Months
        /\ CronMonths[MonthOf(t)] \in Nat
    BY DayIs, MonthsAre
  <2>6. CronMonths[MonthOf(t)] <= Max(ToSet(CronMonths)) /\ Max(ToSet(CronMonths)) \in Nat
    BY <2>5, MonthsFit
  <2> QED
    BY <2>4, <2>5, <2>6
<1>5. ASSUME NEW t \in Nat, ~c.dow.restricted PROVE WeekdayOf(t) \in c.dow.values
  <2>1. Expanded(e, secs)[j] = AnyField
    BY <1>2, <1>5, ParsedIs
  <2>2. FieldOf.dow.low \in Int /\ FieldOf.dow.high \in Int
    BY RangesAre, LensAre
  <2>3. c.dow.values = UNION {Stepped(p, "dow") : p \in AnyField}
    BY <1>2, <2>1, ParsedIs
  <2>4. c.dow.values = 0..CronWeek - 1
    BY <2>2, <2>3, AnyIsAll, RangesAre
  <2> QED
    BY <2>4, DayIs
<1> QED
  BY <1>3, <1>4, <1>5 DEF IsSchedule

(* What the description says of a field.  *)

LEMMA DescribedIs ==
  ASSUME NEW n, FieldOf[n].low \in Nat, FieldOf[n].high \in Int,
         NEW vs, vs # {}, vs \subseteq FieldOf[n].low..FieldOf[n].high
  PROVE  LET d == Described(vs, n) IN
         vs = IF d.every = 0 THEN d.only
              ELSE {v \in FieldOf[n].low..FieldOf[n].high :
                      (v - FieldOf[n].low) % d.every = 0}
<1> DEFINE lo == FieldOf[n].low
           hi == FieldOf[n].high
           min == Min(vs)
           max == Max(vs)
           step == Min(vs \ {min}) - min
           d == Described(vs, n)
           Says == /\ Cardinality(vs) > 1 /\ n \notin {"month", "dow"} /\ min = lo
                   /\ vs = {v \in min..max : (v - min) % step = 0}
                   /\ max + step > hi /\ step > 1
<1>1. d = IF Says THEN [every |-> step, only |-> {}] ELSE [every |-> 0, only |-> vs]
  BY DEF Described
<1>2. CASE ~Says
  <2> HIDE DEF Says, step
  <2>1. d = [every |-> 0, only |-> vs]
    BY <1>1, <1>2
  <2> HIDE DEF d
  <2>2. d.every = 0 /\ d.only = vs
    BY <2>1
  <2> QED
    BY <2>2 DEF d
<1>3. CASE Says
  <2>1. vs \in SUBSET Nat
    OBVIOUS
  <2>2. min \in vs /\ \A k \in vs : min <= k
    BY <2>1, MinOf
  <2>3. vs \ {min} # {}
    <3>1. ASSUME vs \ {min} = {} PROVE FALSE
      <4>1. vs = {min}
        BY <2>2, <3>1
      <4>2. Cardinality(vs) = 1
        BY <4>1, FS_Singleton
      <4> QED
        BY <1>3, <4>2
    <3> QED
      BY <3>1
  <2>4. Min(vs \ {min}) \in vs \ {min}
    BY <2>1, <2>3, MinOf
  <2>5. step \in Nat \ {0} /\ step > 1
    <3>1. Min(vs \ {min}) \in Nat /\ min \in Nat
      BY <2>1, <2>2, <2>4
    <3>2. step \in Int
      BY <3>1
    <3> HIDE DEF step, min
    <3> QED
      BY <1>3, <3>2
  <2>6. max \in vs /\ \A k \in vs : max >= k
    <3>1. hi \in Nat /\ vs \in SUBSET (0..hi)
      OBVIOUS
    <3> QED
      BY <3>1, MaxOf
  <2>7. min = lo /\ max + step > hi /\ vs = {v \in min..max : (v - min) % step = 0}
    BY <1>3
  <2> HIDE DEF step, min, max
  <2>8. d.every = step
    BY <1>1, <1>3
  <2>9. max \in Nat /\ lo \in Nat /\ max <= hi /\ lo <= max /\ (max - lo) % step = 0
    BY <2>1, <2>6, <2>7
  <2>10. ASSUME NEW v \in lo..hi, (v - lo) % step = 0, v > max PROVE FALSE
    <3> DEFINE q == (max - lo) \div step
               k == v - max
    <3>1. max - lo \in Nat /\ k \in 1..step - 1 /\ k \in 0..step - 1
      BY <2>5, <2>7, <2>9, <2>10
    <3>2. q \in Nat /\ max - lo = step * q + ((max - lo) % step)
      BY <2>5, <3>1, DivMod
    <3> HIDE DEF q
    <3>3. step * q \in Int
      BY <2>5, <3>2
    <3>4. v - lo = step * q + k
      BY <2>9, <3>2, <3>3
    <3> HIDE DEF k
    <3>5. (v - lo) % step = k
      BY <2>5, <3>1, <3>2, <3>4, DivIs
    <3> QED
      BY <2>10, <3>1, <3>5
  <2>11. \A v \in lo..hi : v <= max \/ (v - lo) % step # 0
    BY <2>9, <2>10
  <2>12. vs = {v \in lo..hi : (v - lo) % step = 0}
    BY <2>7, <2>9, <2>11
  <2> HIDE DEF d
  <2>13. vs = IF d.every = 0 THEN d.only ELSE {v \in lo..hi : (v - lo) % d.every = 0}
    BY <2>5, <2>8, <2>12
  <2> QED
    BY <2>13 DEF d
<1> QED
  BY <1>2, <1>3

LEMMA PreviewTold ==
  ASSUME NEW e \in Exprs, NEW secs \in BOOLEAN, NEW now \in Nat,
         NEW p, p = Preview(e, secs, now)
  PROVE  p.ok = Parses(e, secs) /\ PreviewIsDue(e, secs, p)
<1> DEFINE c == Parsed(e, secs)
           r == NextRuns(c, secs, now)
           says == Description(c)
<1>1. CASE ~Parses(e, secs)
  <2>1. p = [ok |-> FALSE, now |-> now, says |-> <<>>, runs |-> <<>>]
    BY <1>1 DEF Preview
  <2>2. p.ok = FALSE
    BY <2>1
  <2>3. Parses(e, secs) = FALSE
    <3>1. Parses(e, secs) \in BOOLEAN
      BY DEF Parses
    <3> QED
      BY <1>1, <3>1
  <2>4. PreviewIsDue(e, secs, p)
    BY <2>2 DEF PreviewIsDue
  <2> QED
    BY <2>2, <2>3, <2>4
<1>2. CASE Parses(e, secs)
  <2>1. p = [ok |-> TRUE, now |-> now, says |-> says, runs |-> r]
    BY <1>2 DEF Preview
  <2>2. IsSchedule(c)
    BY <1>2, ParsedIsSchedule
  <2> DEFINE due == {t \in now + 1..CronEnd - 1 : Due(c, secs, t)}
  <2>3. /\ ToSet(r) \subseteq due /\ Len(r) = Min({CronCount, Cardinality(due)})
        /\ \A i \in 2..Len(r) : r[i - 1] < r[i]
        /\ \A t \in due \ ToSet(r) : \A v \in ToSet(r) : v < t
    <3> HIDE DEF c
    <3> QED
      BY <2>2, RunsAreDue
  <2>4. ASSUME NEW n \in DOMAIN says
        PROVE  c[n].values = IF says[n].every = 0 THEN says[n].only
                             ELSE {v \in FieldOf[n].low..FieldOf[n].high :
                                     (v - FieldOf[n].low) % says[n].every = 0}
    <3>1. n \in DOMAIN c /\ says[n] = Described(c[n].values, n)
      <4> HIDE DEF c
      <4> QED
        BY DEF Description
    <3>2. PICK i \in DOMAIN FieldsFor(secs) : FieldsFor(secs)[i] = n
      <4>1. n \in ToSet(FieldsFor(secs))
        BY <3>1, ParsedIs
      <4> QED
        BY <4>1 DEF ToSet
    <3>3. c[n].values # {} /\ c[n].values \subseteq FieldOf[n].low..FieldOf[n].high
      BY <1>2, <3>2, FieldParsed
    <3>4. FieldOf[n].low \in Nat /\ FieldOf[n].high \in Int
      BY <3>2, FieldsAreRanges
    <3> DEFINE vs == c[n].values
    <3> HIDE DEF c, says, vs
    <3>5. vs = IF Described(vs, n).every = 0 THEN Described(vs, n).only
               ELSE {v \in FieldOf[n].low..FieldOf[n].high :
                       (v - FieldOf[n].low) % Described(vs, n).every = 0}
      <4>1. vs # {} /\ vs \subseteq FieldOf[n].low..FieldOf[n].high
        BY <3>3 DEF vs
      <4> QED
        BY <3>4, <4>1, DescribedIs, Zenon
    <3>6. says[n] = Described(vs, n)
      BY <3>1 DEF vs
    <3> QED
      BY <3>5, <3>6 DEF vs
  <2> HIDE DEF c, r, says
  <2>5. p.ok = TRUE /\ p.now = now /\ p.says = says /\ p.runs = r
    BY <2>1
  <2>6. PreviewIsDue(e, secs, p)
    BY <2>3, <2>4, <2>5 DEF PreviewIsDue, c
  <2> QED
    BY <1>2, <2>5, <2>6
<1> QED
  BY <1>1, <1>2

(* The boxes of the builder.  Flattening follows a recursion of its own.  *)

Flattening(g, q) ==
  g = [i \in 1..Len(q) |-> IF i = 1 THEN q[i] ELSE g[i - 1] \o q[i]]

LEMMA SomeFlattening ==
  ASSUME NEW S, NEW q \in Seq(Seq(S)), q # <<>>
  PROVE  \E g : Flattening(g, q)
<1> DEFINE n == Len(q) - 1
           T == Seq(S)
           step == [p \in T \X (1..n) |-> p[1] \o q[p[2] + 1]]
<1>1. n \in Nat /\ q[1] \in T /\ \A i \in 1..n : q[i + 1] \in T
  OBVIOUS
<1>2. step \in [T \X (1..n) -> T]
  <2>1. \A p \in T \X (1..n) : p[1] \o q[p[2] + 1] \in T
    BY <1>1
  <2> QED
    BY <2>1
<1>3. \A x \in T, i \in 1..n : step[<<x, i>>] = x \o q[i + 1]
  OBVIOUS
<1> HIDE DEF step, T
<1>4. PICK h \in [0..n -> T] : Chained(h, n, q[1], step)
  BY <1>1, <1>2, SomeChain, Zenon
<1> DEFINE g == [i \in 1..Len(q) |-> h[i - 1]]
<1>5. ASSUME NEW i \in 1..Len(q) PROVE g[i] = IF i = 1 THEN q[i] ELSE g[i - 1] \o q[i]
  <2>1. CASE i = 1
    BY <1>4, <2>1 DEF Chained
  <2>2. CASE i # 1
    <3>1. i - 1 \in 1..n /\ i - 1 - 1 \in 0..n /\ i - 1 + 1 = i /\ i - 1 \in 1..Len(q)
      BY <2>2
    <3>2. h[i - 1] = step[<<h[i - 1 - 1], i - 1>>]
      BY <1>4, <3>1 DEF Chained
    <3>3. h[i - 1 - 1] \in T
      BY <3>1
    <3>4. h[i - 1] = h[i - 1 - 1] \o q[i]
      BY <1>3, <3>1, <3>2, <3>3
    <3>5. g[i] = h[i - 1] /\ g[i - 1] = h[i - 1 - 1]
      BY <3>1
    <3> QED
      BY <2>2, <3>4, <3>5
  <2> QED
    BY <2>1, <2>2
<1>6. g = [i \in 1..Len(q) |-> g[i]]
  OBVIOUS
<1> HIDE DEF g
<1>7. Flattening(g, q)
  BY <1>5, <1>6 DEF Flattening
<1> QED
  BY <1>7

LEMMA FlattenIs ==
  ASSUME NEW S, NEW q \in Seq(Seq(S)), q # <<>>
  PROVE  \E g : /\ g[1] = q[1] /\ g[Len(q)] = FlattenSeq(q)
                /\ \A i \in 2..Len(q) : g[i] = g[i - 1] \o q[i]
<1>1. PICK g : g = CHOOSE h : Flattening(h, q)
  OBVIOUS
<1>2. Flattening(g, q)
  BY <1>1, SomeFlattening
<1>3. Len(q) \in Nat \ {0}
  OBVIOUS
<1>4. FlattenSeq(q) = g[Len(q)]
  BY <1>1, <1>3 DEF FlattenSeq, Flattening
<1>5. \A i \in 1..Len(q) : g[i] = IF i = 1 THEN q[i] ELSE g[i - 1] \o q[i]
  BY <1>2 DEF Flattening
<1>6. 1 \in 1..Len(q) /\ \A i \in 2..Len(q) : i \in 1..Len(q) /\ i # 1
  BY <1>3
<1>7. g[1] = q[1] /\ \A i \in 2..Len(q) : g[i] = g[i - 1] \o q[i]
  BY <1>5, <1>6
<1> QED
  BY <1>4, <1>7

LEMMA Flattened ==
  ASSUME NEW S, NEW q \in Seq(Seq(S)), q # <<>>
  PROVE  FlattenSeq(q) \in Seq(S)
<1>1. PICK g : /\ g[1] = q[1] /\ g[Len(q)] = FlattenSeq(q)
               /\ \A i \in 2..Len(q) : g[i] = g[i - 1] \o q[i]
  BY FlattenIs
<1>2. Len(q) - 1 \in Nat /\ \A i \in 1..Len(q) : q[i] \in Seq(S)
  OBVIOUS
<1> DEFINE n == Len(q) - 1
           P == {k \in 0..n : g[k + 1] \in Seq(S)}
<1>3. 0 \in P
  BY <1>1, <1>2
<1>4. ASSUME NEW k \in 0..n - 1, k \in P PROVE k + 1 \in P
  <2>1. (k + 1) + 1 \in 2..Len(q) /\ (k + 1) + 1 - 1 = k + 1 /\ k + 1 \in 0..n
    BY <1>2
  <2> DEFINE m == (k + 1) + 1
  <2>2. g[m] = g[k + 1] \o q[m] /\ q[m] \in Seq(S)
    <3>1. m \in 2..Len(q) /\ m \in 1..Len(q) /\ m - 1 = k + 1
      BY <2>1, <1>2
    <3> HIDE DEF m
    <3>2. g[m] = g[m - 1] \o q[m] /\ q[m] \in Seq(S)
      BY <1>1, <1>2, <3>1
    <3> QED
      BY <3>1, <3>2
  <2>3. \A x, y \in Seq(S) : x \o y \in Seq(S)
    OBVIOUS
  <2>4. g[k + 1] \in Seq(S)
    BY <1>4
  <2>5. g[(k + 1) + 1] \in Seq(S)
    BY <2>2, <2>3, <2>4
  <2> QED
    BY <2>1, <2>5
<1> HIDE DEF P
<1>5. n \in 0..n /\ n + 1 = Len(q)
  BY <1>2
<1>6. n \in P
  <2> HIDE DEF n
  <2>1. n \in Nat
    BY <1>2 DEF n
  <2>2. \A k \in 0..n : k \in P
    BY <1>3, <1>4, <2>1, ByInduction
  <2> QED
    BY <1>5, <2>2
<1>7. g[n + 1] \in Seq(S)
  BY <1>6 DEF P
<1> QED
  BY <1>1, <1>5, <1>7

LEMMA TwoParts ==
  ASSUME NEW S, NEW x \in Seq(S), NEW y \in Seq(S)
  PROVE  /\ x \o y \in Seq(S) /\ Len(x \o y) = Len(x) + Len(y)
         /\ \A i \in 1..Len(x) : (x \o y)[i] = x[i]
         /\ \A i \in Len(x) + 1..Len(x) + Len(y) : (x \o y)[i] = y[i - Len(x)]
<1>1. x \o y \in Seq(S)
  OBVIOUS
<1>2. Len(x \o y) = Len(x) + Len(y)
  OBVIOUS
<1>3. ASSUME NEW i \in 1..Len(x) PROVE (x \o y)[i] = x[i]
  OBVIOUS
<1>4. ASSUME NEW i \in Len(x) + 1..Len(x) + Len(y) PROVE (x \o y)[i] = y[i - Len(x)]
  OBVIOUS
<1> QED
  BY <1>1, <1>2, <1>3, <1>4

LEMMA OneAfter ==
  ASSUME NEW S, NEW x \in Seq(S), NEW y \in S
  PROVE  /\ x \o <<y>> \in Seq(S) /\ Len(x \o <<y>>) = Len(x) + 1
         /\ (x \o <<y>>)[Len(x) + 1] = y
         /\ \A i \in 1..Len(x) : (x \o <<y>>)[i] = x[i]
<1> DEFINE z == <<y>>
<1>1. z \in Seq(S) /\ Len(z) = 1 /\ z[1] = y
  OBVIOUS
<1> HIDE DEF z
<1>2. /\ x \o z \in Seq(S) /\ Len(x \o z) = Len(x) + Len(z)
      /\ \A i \in 1..Len(x) : (x \o z)[i] = x[i]
      /\ \A i \in Len(x) + 1..Len(x) + Len(z) : (x \o z)[i] = z[i - Len(x)]
  BY <1>1, TwoParts
<1>3. Len(x) \in Nat
  OBVIOUS
<1> DEFINE l == Len(x)
<1>4. l + 1 \in l + 1..l + Len(z) /\ (l + 1) - l = 1
  <2> HIDE DEF l
  <2> QED
    BY <1>1, <1>3 DEF l
<1>5. (x \o z)[l + 1] = z[(l + 1) - l]
  BY <1>2, <1>4
<1> QED
  BY <1>1, <1>2, <1>4, <1>5 DEF z

LEMMA FlattenSingles ==
  ASSUME NEW S, NEW s \in Seq(S), s # <<>>, NEW q \in Seq(Seq(S)), Len(q) = Len(s),
         \A i \in 1..Len(s) : q[i] = <<s[i]>>
  PROVE  FlattenSeq(q) = s
<1>0. q # <<>> /\ Len(s) - 1 \in Nat /\ \A i \in 1..Len(s) : s[i] \in S
  OBVIOUS
<1>1. PICK g : /\ g[1] = q[1] /\ g[Len(q)] = FlattenSeq(q)
               /\ \A i \in 2..Len(q) : g[i] = g[i - 1] \o q[i]
  BY <1>0, FlattenIs
<1> DEFINE n == Len(s) - 1
           Upto(x, k) == x \in Seq(S) /\ Len(x) = k /\ \A i \in 1..k : x[i] = s[i]
           P == {k \in 0..n : Upto(g[k + 1], k + 1)}
<1>3. 0 \in P
  <2>1. 1 \in 1..Len(s) /\ g[1] = <<s[1]>> /\ s[1] \in S
    BY <1>0, <1>1
  <2>2. Upto(<<s[1]>>, 1)
    BY <2>1
  <2>3. 0 \in 0..n /\ 0 + 1 = 1
    BY <1>0
  <2> HIDE DEF Upto
  <2> QED
    BY <2>1, <2>2, <2>3
<1>4. ASSUME NEW k \in 0..n - 1, k \in P PROVE k + 1 \in P
  <2>1. /\ (k + 1) + 1 \in 2..Len(q) /\ (k + 1) + 1 - 1 = k + 1 /\ k + 1 \in 0..n
        /\ (k + 1) + 1 \in 1..Len(s) /\ k + 1 \in Nat
    BY <1>0
  <2> DEFINE x == g[k + 1]
             y == s[(k + 1) + 1]
             m == k + 1
  <2>2. g[m + 1] = x \o <<y>> /\ y \in S
    <3>1. m + 1 \in 2..Len(q) /\ m + 1 \in 1..Len(s) /\ (m + 1) - 1 = m
      BY <2>1
    <3> HIDE DEF m
    <3>2. g[m + 1] = g[(m + 1) - 1] \o q[m + 1]
      BY <1>1, <3>1
    <3>3. q[m + 1] = <<s[m + 1]>> /\ s[m + 1] \in S
      BY <1>0, <3>1
    <3> QED
      BY <3>1, <3>2, <3>3 DEF m
  <2>3. Upto(x, m)
    BY <1>4
  <2>4. s[m + 1] = y /\ m \in Nat
    BY <2>1
  <2> HIDE DEF x, y, m
  <2>5. Upto(x \o <<y>>, m + 1)
    <3>1. x \o <<y>> \in Seq(S) /\ Len(x \o <<y>>) = m + 1
      BY <2>2, <2>3, OneAfter
    <3>2. ASSUME NEW i \in 1..m + 1 PROVE (x \o <<y>>)[i] = s[i]
      <4>1. CASE i = m + 1
        <5>1. (x \o <<y>>)[Len(x) + 1] = y /\ Len(x) = m
          BY <2>2, <2>3, OneAfter
        <5> QED
          BY <2>4, <4>1, <5>1
      <4>2. CASE i # m + 1
        <5>1. i \in 1..m
          BY <2>4, <4>2
        <5> QED
          BY <2>2, <2>3, <5>1, OneAfter
      <4> QED
        BY <4>1, <4>2
    <3> QED
      BY <3>1, <3>2
  <2> HIDE DEF Upto
  <2>6. Upto(g[m + 1], m + 1)
    BY <2>2, <2>5
  <2> QED
    BY <2>1, <2>6 DEF m
<1> HIDE DEF P, Upto
<1>5. n \in 0..n /\ n + 1 = Len(q) /\ n + 1 = Len(s)
  BY <1>0
<1>6. n \in P
  <2> HIDE DEF n
  <2>1. n \in Nat
    BY <1>0 DEF n
  <2>2. \A k \in 0..n : k \in P
    BY <1>3, <1>4, <2>1, ByInduction
  <2> QED
    BY <1>5, <2>2
<1>7. Upto(g[n + 1], n + 1)
  BY <1>6 DEF P
<1>8. Upto(FlattenSeq(q), Len(s))
  BY <1>1, <1>5, <1>7
<1> HIDE DEF n
<1>9. \A x \in Seq(S) : Len(x) = Len(s) /\ (\A i \in 1..Len(s) : x[i] = s[i]) => x = s
  OBVIOUS
<1> QED
  BY <1>8, <1>9 DEF Upto

LEMMA NoMacroIs == NoMacro \notin DOMAIN Macros
<1>1. DOMAIN Macros = {"yearly", "monthly", "weekly", "daily", "hourly"}
  BY DEF Macros
<1>2. NoMacro \notin {"yearly", "monthly", "weekly", "daily", "hourly"}
  BY Zenon DEF NoMacro
<1> QED
  BY <1>1, <1>2

LEMMA PlainExpr ==
  ASSUME NEW fs \in Seq(Fields)
  PROVE  /\ [macro |-> NoMacro, fields |-> fs] \in Exprs
         /\ \A e \in Exprs : e.macro = NoMacro /\ e.fields = fs
              => e = [macro |-> NoMacro, fields |-> fs]
BY DEF Exprs

Boxes == Seq(Seq(Fields))

LEMMA JoinedIs ==
  ASSUME NEW bs \in Boxes, bs # <<>>
  PROVE  Joined(bs) \in Exprs
<1> DEFINE q == [i \in DOMAIN bs |-> IF bs[i] = <<>> THEN <<AnyField>> ELSE bs[i]]
<1>1. q \in Seq(Seq(Fields)) /\ q # <<>>
  <2>1. DOMAIN bs = 1..Len(bs) /\ Len(bs) \in Nat \ {0} /\ \A i \in 1..Len(bs) : bs[i] \in Seq(Fields)
    BY DEF Boxes
  <2>2. AnyField \in Fields
    BY AtIs
  <2>3. <<AnyField>> \in Seq(Fields)
    BY <2>2
  <2>4. \A i \in 1..Len(bs) : q[i] \in Seq(Fields)
    BY <2>1, <2>3
  <2>5. q = [i \in 1..Len(bs) |-> q[i]]
    BY <2>1
  <2> HIDE DEF q
  <2>6. q \in Seq(Seq(Fields)) /\ Len(q) = Len(bs)
    BY <2>1, <2>4, <2>5
  <2> QED
    BY <2>1, <2>6
<1> HIDE DEF q
<1>2. FlattenSeq(q) \in Seq(Fields)
  BY <1>1, Flattened
<1>3. Joined(bs) = [macro |-> NoMacro, fields |-> FlattenSeq(q)]
  BY DEF Joined, q
<1> QED
  BY <1>2, <1>3, PlainExpr

LEMMA SyncedIs ==
  ASSUME NEW e \in Exprs, NEW bs \in Boxes
  PROVE  Synced(e, bs) \in Boxes /\ Len(Synced(e, bs)) = Len(bs)
<1>1. e.fields \in Seq(Fields)
  BY DEF Exprs
<1>2. CASE Len(e.fields) = Len(bs)
  <2> DEFINE s == [i \in DOMAIN bs |-> <<e.fields[i]>>]
  <2>1. Synced(e, bs) = s
    BY <1>2 DEF Synced
  <2>2. DOMAIN bs = 1..Len(bs) /\ Len(bs) \in Nat
    BY DEF Boxes
  <2>3. ASSUME NEW i \in 1..Len(bs) PROVE s[i] \in Seq(Fields)
    <3>1. e.fields[i] \in Fields
      BY <1>1, <1>2
    <3>2. <<e.fields[i]>> \in Seq(Fields)
      BY <3>1
    <3> QED
      BY <2>2, <3>2
  <2>4. s = [i \in 1..Len(bs) |-> s[i]]
    BY <2>2
  <2> HIDE DEF s
  <2>5. s \in Seq(Seq(Fields)) /\ Len(s) = Len(bs)
    BY <2>2, <2>3, <2>4
  <2> QED
    BY <2>1, <2>5 DEF Boxes
<1>3. CASE Len(e.fields) # Len(bs)
  BY <1>3 DEF Synced
<1> QED
  BY <1>2, <1>3

\* The boxes hold the fields of an expression that has as many.
Agree(e, bs) == e.macro = NoMacro /\ Len(e.fields) = Len(bs) => Joined(bs) = e

LEMMA SyncedAgree ==
  ASSUME NEW e \in Exprs, NEW bs \in Boxes, bs # <<>>
  PROVE  Agree(e, Synced(e, bs))
<1>1. SUFFICES ASSUME e.macro = NoMacro, Len(e.fields) = Len(bs) PROVE Joined(Synced(e, bs)) = e
  BY SyncedIs DEF Agree
<1>2. e.fields \in Seq(Fields) /\ Len(bs) \in Nat \ {0} /\ DOMAIN bs = 1..Len(bs)
  BY DEF Exprs, Boxes
<1> DEFINE fs == e.fields
           s == Synced(e, bs)
           q == [i \in DOMAIN s |-> IF s[i] = <<>> THEN <<AnyField>> ELSE s[i]]
<1>3. s = [i \in 1..Len(bs) |-> <<fs[i]>>]
  BY <1>1, <1>2 DEF Synced
<1>4. \A x : <<x>> # <<>>
  OBVIOUS
<1> HIDE DEF s
<1>5. DOMAIN s = 1..Len(bs) /\ \A i \in 1..Len(bs) : s[i] = <<fs[i]>>
  BY <1>3
<1>6. q = [i \in 1..Len(bs) |-> <<fs[i]>>]
  BY <1>4, <1>5
<1>7. Joined(s) = [macro |-> NoMacro, fields |-> FlattenSeq(q)]
  BY DEF Joined
<1> HIDE DEF q
<1>8. \A i \in 1..Len(bs) : fs[i] \in Fields /\ q[i] = <<fs[i]>>
  BY <1>1, <1>2, <1>6
<1>9. q \in Seq(Seq(Fields)) /\ Len(q) = Len(fs)
  <2>1. \A x \in Fields : <<x>> \in Seq(Fields)
    OBVIOUS
  <2>2. \A i \in 1..Len(bs) : <<fs[i]>> \in Seq(Fields)
    BY <1>8, <2>1
  <2> QED
    BY <1>1, <1>2, <1>6, <2>2
<1>10. FlattenSeq(q) = fs
  <2>1. fs # <<>> /\ fs \in Seq(Fields)
    BY <1>1, <1>2
  <2>2. \A i \in 1..Len(fs) : q[i] = <<fs[i]>>
    BY <1>1, <1>8
  <2> HIDE DEF fs
  <2> QED
    BY <1>9, <2>1, <2>2, FlattenSingles
<1>11. e = [macro |-> NoMacro, fields |-> fs]
  BY <1>1, <1>2, PlainExpr
<1> QED
  BY <1>7, <1>10, <1>11 DEF s

(* Seconds: with a 0 before it, a schedule is due when it was.  *)

LEMMA TailIs ==
  ASSUME NEW fs \in Seq(Fields), Len(fs) = 6
  PROVE  /\ Tail(fs) \in Seq(Fields) /\ Len(Tail(fs)) = 5
         /\ \A i \in 1..5 : Tail(fs)[i] = fs[i + 1]
<1>1. fs # <<>>
  OBVIOUS
<1>2. Tail(fs) \in Seq(Fields) /\ Len(Tail(fs)) = 5
  BY <1>1
<1>3. ASSUME NEW i \in 1..5 PROVE Tail(fs)[i] = fs[i + 1]
  BY <1>1
<1> QED
  BY <1>2, <1>3

LEMMA BeforeFive ==
  ASSUME NEW fs \in Seq(Fields), Len(fs) = 5
  PROVE  /\ Len(<<At(0)>> \o fs) = 6 /\ (<<At(0)>> \o fs)[1] = At(0)
         /\ \A i \in 1..5 : (<<At(0)>> \o fs)[i + 1] = fs[i]
<1> DEFINE s == <<At(0)>> \o fs
<1>1. Len(s) = Len(fs) + 1 /\ s[1] = At(0) /\ \A i \in 1..Len(fs) : s[i + 1] = fs[i]
  BY SecondFirst
<1> HIDE DEF s
<1>2. Len(s) = 6 /\ s[1] = At(0) /\ \A i \in 1..5 : s[i + 1] = fs[i]
  BY <1>1
<1> QED
  BY <1>2 DEF s

LEMMA ReframedIs ==
  ASSUME NEW e \in Exprs, NEW secs \in BOOLEAN
  PROVE  /\ Reframed(e, secs) \in Exprs /\ Reframed(e, secs).macro = e.macro
         /\ secs /\ Len(e.fields) = 5 => Reframed(e, secs).fields = <<At(0)>> \o e.fields
         /\ ~secs /\ Len(e.fields) = 6 => Reframed(e, secs).fields = Tail(e.fields)
<1> DEFINE fs == e.fields
<1>1. fs \in Seq(Fields) /\ e = [macro |-> e.macro, fields |-> fs]
      /\ e.macro \in {NoMacro} \cup DOMAIN Macros
  BY DEF Exprs
<1>2. CASE secs /\ Len(fs) = 5
  <2>1. Reframed(e, secs) = [e EXCEPT !.fields = <<At(0)>> \o fs]
    BY <1>2 DEF Reframed
  <2>2. <<At(0)>> \o fs \in Seq(Fields)
    BY <1>1, SecondFirst
  <2> HIDE DEF fs
  <2>3. Reframed(e, secs) = [macro |-> e.macro, fields |-> <<At(0)>> \o fs]
    BY <1>1, <2>1
  <2> DEFINE x == Reframed(e, secs)
  <2> HIDE DEF x
  <2>4. x \in Exprs /\ x.macro = e.macro /\ x.fields = <<At(0)>> \o fs
    BY <1>1, <2>2, <2>3 DEF Exprs, x
  <2> QED
    BY <1>2, <2>4, Zenon DEF x, fs
<1>3. CASE ~secs /\ Len(fs) = 6
  <2>1. Reframed(e, secs) = [e EXCEPT !.fields = Tail(fs)]
    BY <1>3 DEF Reframed
  <2>2. Tail(fs) \in Seq(Fields)
    BY <1>1, <1>3, TailIs
  <2> HIDE DEF fs
  <2>3. Reframed(e, secs) = [macro |-> e.macro, fields |-> Tail(fs)]
    BY <1>1, <2>1
  <2> DEFINE x == Reframed(e, secs)
  <2> HIDE DEF x
  <2>4. x \in Exprs /\ x.macro = e.macro /\ x.fields = Tail(fs)
    BY <1>1, <2>2, <2>3 DEF Exprs, x
  <2> QED
    BY <1>3, <2>4, Zenon DEF x, fs
<1>4. CASE ~(secs /\ Len(fs) = 5) /\ ~(~secs /\ Len(fs) = 6)
  BY <1>4, Zenon DEF Reframed
<1> QED
  BY <1>2, <1>3, <1>4

\* The five fields of the one follow the first of the other.
Follows(e6, e5) ==
  /\ Len(Expanded(e6, TRUE)) = 6 /\ Len(Expanded(e5, FALSE)) = 5
  /\ \A i \in 1..5 : Expanded(e6, TRUE)[i + 1] = Expanded(e5, FALSE)[i]

LEMMA ReframedFollows ==
  ASSUME NEW e \in Exprs, NEW secs \in BOOLEAN,
         Len(Expanded(e, secs)) = IF secs THEN 6 ELSE 5
  PROVE  /\ secs => Follows(e, Reframed(e, FALSE))
         /\ ~secs => Follows(Reframed(e, TRUE), e)
                     /\ Expanded(Reframed(e, TRUE), TRUE)[1] = At(0)
<1> DEFINE fs == e.fields
           M == Macros[e.macro]
<1>1. fs \in Seq(Fields) /\ e = [macro |-> e.macro, fields |-> fs]
  BY DEF Exprs
<1>2. CASE e.macro \in DOMAIN Macros
  <2>1. M \in Seq(Fields) /\ Len(M) = 5
    BY <1>2, MacrosAre
  <2>2. \A s \in BOOLEAN : Reframed(e, s).macro = e.macro
    BY ReframedIs
  <2>3. \A s \in Seq(Fields) : <<>> \o s = s
    OBVIOUS
  <2>4. \A x : x.macro = e.macro => /\ Expanded(x, TRUE) = <<At(0)>> \o M
                                    /\ Expanded(x, FALSE) = <<>> \o M
    BY <1>2 DEF Expanded
  <2>5. \A x : x.macro = e.macro => Expanded(x, TRUE) = <<At(0)>> \o M /\ Expanded(x, FALSE) = M
    <3> HIDE DEF M
    <3> QED
      BY <2>1, <2>3, <2>4
  <2> HIDE DEF M
  <2>6. /\ Len(<<At(0)>> \o M) = 6 /\ (<<At(0)>> \o M)[1] = At(0)
        /\ \A i \in 1..5 : (<<At(0)>> \o M)[i + 1] = M[i]
    BY <2>1, BeforeFive
  <2>7. ASSUME NEW x, NEW y, x.macro = e.macro, y.macro = e.macro
        PROVE  Follows(x, y) /\ Expanded(x, TRUE)[1] = At(0)
    <3>1. Expanded(x, TRUE) = <<At(0)>> \o M /\ Expanded(y, FALSE) = M
      BY <2>5, <2>7
    <3> QED
      BY <2>1, <2>6, <3>1 DEF Follows
  <2>8. TRUE \in BOOLEAN /\ FALSE \in BOOLEAN
    OBVIOUS
  <2> QED
    BY <2>2, <2>7, <2>8, Zenon
<1>3. CASE e.macro \notin DOMAIN Macros
  <2>1. \A x, s : x.macro = e.macro => Expanded(x, s) = x.fields
    BY <1>3 DEF Expanded
  <2>2. \A s \in BOOLEAN : Reframed(e, s).macro = e.macro
    BY ReframedIs
  <2>3. CASE secs
    <3>1. Len(fs) = 6
      BY <2>1, <2>3
    <3>2. Reframed(e, FALSE).fields = Tail(fs)
      BY <3>1, ReframedIs, Zenon
    <3> HIDE DEF fs
    <3>3. Len(Tail(fs)) = 5 /\ \A i \in 1..5 : Tail(fs)[i] = fs[i + 1]
      BY <1>1, <3>1
    <3>4. Expanded(e, TRUE) = fs /\ Expanded(Reframed(e, FALSE), FALSE) = Tail(fs)
      BY <2>1, <2>2, <3>2 DEF fs
    <3>5. Follows(e, Reframed(e, FALSE))
      BY <3>1, <3>3, <3>4 DEF Follows
    <3> QED
      BY <2>3, <3>5
  <2>4. CASE ~secs
    <3>1. Len(fs) = 5
      BY <2>1, <2>4
    <3>2. Reframed(e, TRUE).fields = <<At(0)>> \o fs
      BY <3>1, ReframedIs, Zenon
    <3> HIDE DEF fs
    <3>3. /\ Len(<<At(0)>> \o fs) = 6 /\ (<<At(0)>> \o fs)[1] = At(0)
          /\ \A i \in 1..5 : (<<At(0)>> \o fs)[i + 1] = fs[i]
      BY <1>1, <3>1, BeforeFive
    <3>4. /\ Expanded(e, FALSE) = fs /\ Expanded(Reframed(e, TRUE), TRUE) = <<At(0)>> \o fs
      BY <2>1, <2>2, <3>2 DEF fs
    <3>5. /\ Follows(Reframed(e, TRUE), e) /\ Expanded(Reframed(e, TRUE), TRUE)[1] = At(0)
      BY <3>1, <3>3, <3>4 DEF Follows
    <3> QED
      BY <2>4, <3>5
  <2> QED
    BY <2>3, <2>4
<1> QED
  BY <1>2, <1>3

LEMMA FieldFollows ==
  ASSUME NEW i \in 1..5
  PROVE  /\ FieldsFor(TRUE)[i + 1] = FieldsFor(FALSE)[i]
         /\ i + 1 \in DOMAIN FieldsFor(TRUE) /\ i \in DOMAIN FieldsFor(FALSE)
<1>1. /\ DOMAIN FieldsFor(TRUE) = 1..6 /\ DOMAIN FieldsFor(FALSE) = 1..5
      /\ FieldsFor(TRUE)[2] = FieldsFor(FALSE)[1] /\ FieldsFor(TRUE)[3] = FieldsFor(FALSE)[2]
      /\ FieldsFor(TRUE)[4] = FieldsFor(FALSE)[3] /\ FieldsFor(TRUE)[5] = FieldsFor(FALSE)[4]
      /\ FieldsFor(TRUE)[6] = FieldsFor(FALSE)[5]
  BY FieldsAre
<1>2. i = 1 \/ i = 2 \/ i = 3 \/ i = 4 \/ i = 5
  OBVIOUS
<1>3. FieldsFor(TRUE)[i + 1] = FieldsFor(FALSE)[i]
  <2> DEFINE s == FieldsFor(TRUE)
             f == FieldsFor(FALSE)
  <2>1. s[2] = f[1] /\ s[3] = f[2] /\ s[4] = f[3] /\ s[5] = f[4] /\ s[6] = f[5]
    BY <1>1
  <2> HIDE DEF s, f
  <2>2. s[i + 1] = f[i]
    BY <1>2, <2>1
  <2> QED
    BY <2>2 DEF s, f
<1>4. i + 1 \in DOMAIN FieldsFor(TRUE) /\ i \in DOMAIN FieldsFor(FALSE)
  <2>1. i + 1 \in 1..6 /\ i \in 1..5
    OBVIOUS
  <2> QED
    BY <1>1, <2>1, Zenon
<1> QED
  BY <1>3, <1>4

LEMMA ZeroSecond ==
  /\ \A p \in At(0) : PartParses(p, "second")
  /\ UNION {Stepped(p, "second") : p \in At(0)} = {0}
<1> DEFINE z == [star |-> FALSE, lo |-> 0, hi |-> 0, step |-> 0]
<1>1. At(0) = {z}
  BY DEF At
<1>2. Ends(z, "second") = [low |-> 0, high |-> 0]
  BY DEF Ends
<1>3. FieldOf["second"].low = 0 /\ FieldOf["second"].high = CronSeconds - 1
  BY RangesAre
<1>4. PartParses(z, "second")
  BY <1>2, <1>3, LensAre DEF PartParses
<1>5. Stepped(z, "second") = {v \in 0..0 : (v - 0) % 1 = 0}
  BY <1>2 DEF Stepped
<1>6. Stepped(z, "second") = {0}
  BY <1>5
<1> HIDE DEF z
<1> QED
  BY <1>1, <1>4, <1>6

LEMMA FollowsParses ==
  ASSUME NEW e6 \in Exprs, NEW e5 \in Exprs, Follows(e6, e5)
  PROVE  /\ Parses(e6, TRUE) => Parses(e5, FALSE)
         /\ Parses(e5, FALSE) /\ Expanded(e6, TRUE)[1] = At(0) => Parses(e6, TRUE)
<1> DEFINE f6 == Expanded(e6, TRUE)
           f5 == Expanded(e5, FALSE)
           n6 == FieldsFor(TRUE)
           n5 == FieldsFor(FALSE)
           Good(f, n) == f # {} /\ \A p \in f : PartParses(p, n)
<1>1. /\ Parses(e6, TRUE) <=> Len(f6) = Len(n6) /\ \A i \in DOMAIN f6 : Good(f6[i], n6[i])
      /\ Parses(e5, FALSE) <=> Len(f5) = Len(n5) /\ \A i \in DOMAIN f5 : Good(f5[i], n5[i])
  BY Zenon DEF Parses
<1>2. f6 \in Seq(Fields) /\ f5 \in Seq(Fields)
  BY ExpandedIs
<1>3. Len(f6) = 6 /\ Len(f5) = 5 /\ \A i \in 1..5 : f6[i + 1] = f5[i]
  BY DEF Follows
<1>4. Len(n6) = 6 /\ Len(n5) = 5 /\ n6[1] = "second" /\ \A i \in 1..5 : n6[i + 1] = n5[i]
  <2>1. Len(n6) = 6 /\ Len(n5) = 5 /\ n6[1] = "second"
    BY FieldsAre
  <2>2. \A i \in 1..5 : n6[i + 1] = n5[i]
    BY FieldFollows
  <2> QED
    BY <2>1, <2>2
<1>5. At(0) # {} /\ \A p \in At(0) : PartParses(p, "second")
  BY ZeroSecond DEF At
<1>6. Good(At(0), "second")
  BY <1>5
<1> HIDE DEF f6, f5, n6, n5, Good
<1>7. DOMAIN f6 = 1..6 /\ DOMAIN f5 = 1..5
  BY <1>2, <1>3
<1>8. ASSUME \A i \in 1..6 : Good(f6[i], n6[i]) PROVE \A i \in 1..5 : Good(f5[i], n5[i])
  <2>1. ASSUME NEW i \in 1..5 PROVE Good(f5[i], n5[i])
    <3>1. i + 1 \in 1..6
      OBVIOUS
    <3> QED
      BY <1>3, <1>4, <1>8, <3>1
  <2> QED
    BY <2>1
<1>9. ASSUME \A i \in 1..5 : Good(f5[i], n5[i]), f6[1] = At(0)
      PROVE  \A i \in 1..6 : Good(f6[i], n6[i])
  <2>1. ASSUME NEW i \in 1..6 PROVE Good(f6[i], n6[i])
    <3>1. CASE i = 1
      BY <1>4, <1>6, <1>9, <3>1
    <3>2. CASE i # 1
      <4>1. i - 1 \in 1..5 /\ (i - 1) + 1 = i
        BY <3>2
      <4>2. f6[(i - 1) + 1] = f5[i - 1] /\ n6[(i - 1) + 1] = n5[i - 1]
        BY <1>3, <1>4, <4>1
      <4> QED
        BY <1>9, <4>1, <4>2
    <3> QED
      BY <3>1, <3>2
  <2> QED
    BY <2>1
<1>10. /\ Parses(e6, TRUE) <=> \A i \in 1..6 : Good(f6[i], n6[i])
       /\ Parses(e5, FALSE) <=> \A i \in 1..5 : Good(f5[i], n5[i])
  BY <1>1, <1>3, <1>4, <1>7, Zenon
<1> QED
  BY <1>8, <1>9, <1>10, Zenon DEF f6

LEMMA FollowsDue ==
  ASSUME NEW e6 \in Exprs, NEW e5 \in Exprs, Follows(e6, e5),
         Parsed(e6, TRUE)["second"].values = {0}, NEW t
  PROVE  Due(Parsed(e6, TRUE), TRUE, t) <=> Due(Parsed(e5, FALSE), FALSE, t)
<1> DEFINE c6 == Parsed(e6, TRUE)
           c5 == Parsed(e5, FALSE)
           f6 == Expanded(e6, TRUE)
           f5 == Expanded(e5, FALSE)
           n6 == FieldsFor(TRUE)
           n5 == FieldsFor(FALSE)
<1>1. ASSUME NEW i \in 1..5
      PROVE  c6[n5[i]].values = c5[n5[i]].values /\ c6[n5[i]].restricted = c5[n5[i]].restricted
  <2>1. n6[i + 1] = n5[i] /\ i + 1 \in DOMAIN n6 /\ i \in DOMAIN n5
    BY FieldFollows
  <2>2. /\ c6[n6[i + 1]].values = UNION {Stepped(p, n6[i + 1]) : p \in f6[i + 1]}
        /\ c6[n6[i + 1]].restricted = (f6[i + 1] # AnyField)
    <3> DEFINE Is(secs) == \A j \in DOMAIN FieldsFor(secs) :
                  /\ Parsed(e6, secs)[FieldsFor(secs)[j]].values
                       = UNION {Stepped(p, FieldsFor(secs)[j]) : p \in Expanded(e6, secs)[j]}
                  /\ Parsed(e6, secs)[FieldsFor(secs)[j]].restricted
                       = (Expanded(e6, secs)[j] # AnyField)
    <3>1. \A secs \in BOOLEAN : Is(secs)
      BY ParsedIs
    <3>2. Is(TRUE)
      BY <3>1, Zenon
    <3> QED
      BY <2>1, <3>2, Zenon
  <2>3. /\ c5[n5[i]].values = UNION {Stepped(p, n5[i]) : p \in f5[i]}
        /\ c5[n5[i]].restricted = (f5[i] # AnyField)
    <3> DEFINE Is(secs) == \A j \in DOMAIN FieldsFor(secs) :
                  /\ Parsed(e5, secs)[FieldsFor(secs)[j]].values
                       = UNION {Stepped(p, FieldsFor(secs)[j]) : p \in Expanded(e5, secs)[j]}
                  /\ Parsed(e5, secs)[FieldsFor(secs)[j]].restricted
                       = (Expanded(e5, secs)[j] # AnyField)
    <3>1. \A secs \in BOOLEAN : Is(secs)
      BY ParsedIs
    <3>2. Is(FALSE)
      BY <3>1, Zenon
    <3> QED
      BY <2>1, <3>2, Zenon
  <2>4. f6[i + 1] = f5[i]
    BY DEF Follows
  <2> HIDE DEF c6, c5, f6, f5, n6, n5
  <2>5. c6[n5[i]].values = c5[n5[i]].values
    BY <2>1, <2>2, <2>3, <2>4
  <2>6. c6[n5[i]].restricted = c5[n5[i]].restricted
    BY <2>1, <2>2, <2>3, <2>4, Zenon
  <2> QED
    BY <2>5, <2>6
<1>2. n5[1] = "minute" /\ n5[2] = "hour" /\ n5[3] = "dom" /\ n5[4] = "month" /\ n5[5] = "dow"
  BY FieldsAre
<1> HIDE DEF c6, c5, f6, f5, n6, n5
<1>3. /\ 1 \in 1..5 /\ 2 \in 1..5 /\ 3 \in 1..5 /\ 4 \in 1..5 /\ 5 \in 1..5
  OBVIOUS
<1>4. /\ c6.minute.values = c5.minute.values /\ c6.hour.values = c5.hour.values
      /\ c6.month.values = c5.month.values
  BY <1>1, <1>2, <1>3, Zenon
<1>5. /\ c6.dom.values = c5.dom.values /\ c6.dow.values = c5.dow.values
      /\ c6.dom.restricted = c5.dom.restricted /\ c6.dow.restricted = c5.dow.restricted
  BY <1>1, <1>2, <1>3, Zenon
<1>6. c6["second"].values = {0}
  BY DEF c6
<1>7. Due(c6, TRUE, t) <=> Due(c5, FALSE, t)
  BY <1>4, <1>5, <1>6, Zenon DEF Due
<1> QED
  BY <1>7 DEF c6, c5

LEMMA FieldValues ==
  ASSUME NEW e, NEW secs \in BOOLEAN, NEW i \in DOMAIN FieldsFor(secs),
         NEW n, n = FieldsFor(secs)[i], NEW f, f = Expanded(e, secs)[i], NEW v
  PROVE  v \in Parsed(e, secs)[n].values <=> \E p \in f : v \in Stepped(p, n)
<1>1. Parsed(e, secs)[n].values = UNION {Stepped(p, n) : p \in f}
  BY ParsedIs
<1> QED
  BY <1>1

LEMMA ZeroIsParsed ==
  ASSUME NEW e, NEW secs \in BOOLEAN, secs, Expanded(e, secs)[1] = At(0)
  PROVE  Parsed(e, secs)["second"].values = {0}
<1> DEFINE ns == FieldsFor(secs)
           i == 1
           n == "second"
           f == At(0)
<1>1. DOMAIN ns = 1..6 /\ ns[1] = "second"
  BY FieldsAre
<1> HIDE DEF ns
<1>2. i \in DOMAIN ns /\ n = ns[i]
  BY <1>1
<1>6. f = Expanded(e, secs)[i]
  BY Zenon
<1> HIDE DEF i, n, f
<1>3. \A v : v \in Parsed(e, secs)[n].values <=> \E p \in f : v \in Stepped(p, n)
  BY <1>2, <1>6, FieldValues DEF ns
<1>4. \A v : (\E p \in f : v \in Stepped(p, n)) <=> v = 0
  BY ZeroSecond DEF n, f
<1>5. Parsed(e, secs)[n].values = {0}
  BY <1>3, <1>4
<1> QED
  BY <1>5 DEF n

OnTheMinute(e) == Parsed(e, TRUE)["second"].values = {0}

LEMMA SecondsMean ==
  ASSUME NEW e \in Exprs, NEW secs \in BOOLEAN, Parses(e, secs), secs => OnTheMinute(e)
  PROVE  LET r == Reframed(e, ~secs) IN
         /\ Parses(r, ~secs)
         /\ \A t \in 0..CronEnd - 1 : Due(Parsed(e, secs), secs, t) <=> Due(Parsed(r, ~secs), ~secs, t)
<1>1. Len(Expanded(e, secs)) = IF secs THEN 6 ELSE 5
  BY FieldsAre DEF Parses
<1>2. CASE secs
  <2> DEFINE r == Reframed(e, FALSE)
  <2>1. r \in Exprs /\ Follows(e, r)
    BY <1>1, <1>2, ReframedIs, ReframedFollows
  <2>2. secs = TRUE /\ (~secs) = FALSE
    BY <1>2
  <2> HIDE DEF r
  <2>3. Parses(e, TRUE) /\ Parsed(e, TRUE)["second"].values = {0}
    BY <1>2, <2>2, Zenon DEF OnTheMinute
  <2>4. Parses(r, FALSE)
    BY <2>1, <2>3, FollowsParses, Zenon
  <2>5. \A t : Due(Parsed(e, TRUE), TRUE, t) <=> Due(Parsed(r, FALSE), FALSE, t)
    BY <2>1, <2>3, FollowsDue
  <2> QED
    BY <2>2, <2>4, <2>5, Zenon DEF r
<1>3. CASE ~secs
  <2> DEFINE r == Reframed(e, TRUE)
  <2>1. r \in Exprs /\ Follows(r, e) /\ Expanded(r, TRUE)[1] = At(0)
    BY <1>1, <1>3, ReframedIs, ReframedFollows
  <2>2. secs = FALSE /\ (~secs) = TRUE
    BY <1>3
  <2> HIDE DEF r
  <2>3. Parses(e, FALSE)
    BY <2>2, Zenon
  <2>4. Parses(r, TRUE) /\ Parsed(r, TRUE)["second"].values = {0}
    BY <2>1, <2>3, FollowsParses, ZeroIsParsed, Zenon
  <2>5. \A t : Due(Parsed(r, TRUE), TRUE, t) <=> Due(Parsed(e, FALSE), FALSE, t)
    BY <2>1, <2>4, FollowsDue
  <2> QED
    BY <2>2, <2>4, <2>5, Zenon DEF r
<1> QED
  BY <1>2, <1>3

LEMMA JoinAgree == ASSUME NEW bs PROVE Agree(Joined(bs), bs)
BY Zenon DEF Agree

LEMMA BoxIsTyped ==
  ASSUME NEW bs \in Boxes, NEW i, i \in DOMAIN bs, NEW fs \in Seq(Fields)
  PROVE  [bs EXCEPT ![i] = fs] \in Boxes /\ Len([bs EXCEPT ![i] = fs]) = Len(bs)
BY DEF Boxes

LEMMA EmptyIs ==
  ASSUME NEW secs \in BOOLEAN
  PROVE  Empty(secs) \in Boxes /\ Len(Empty(secs)) = IF secs THEN 6 ELSE 5
<1> DEFINE n == IF secs THEN 6 ELSE 5
           b == <<AnyField>>
<1>1. DOMAIN FieldsFor(secs) = 1..n /\ n \in Nat
  BY FieldsAre
<1>2. b \in Seq(Fields)
  <2>1. AnyField \in Fields
    BY AtIs
  <2> QED
    BY <2>1
<1> HIDE DEF n, b
<1>3. Empty(secs) = [i \in 1..n |-> b]
  BY <1>1 DEF Empty, b
<1>4. Empty(secs) \in Seq(Seq(Fields)) /\ Len(Empty(secs)) = n
  BY <1>1, <1>2, <1>3
<1> QED
  BY <1>4 DEF Boxes, n

(* The cron page.  *)

CronShown(e, secs, p) == \E now \in Nat : p = Preview(e, secs, now)
CronInv ==
  /\ cronExpr \in Exprs /\ seconds \in BOOLEAN
  /\ boxes \in Boxes /\ Len(boxes) = IF seconds THEN 6 ELSE 5
  /\ CronShown(cronExpr, seconds, preview) /\ Agree(cronExpr, boxes)

LEMMA CronAgrees == ASSUME CronInv PROVE CronPageAgrees
<1>1. PICK now \in Nat : preview = Preview(cronExpr, seconds, now)
  BY DEF CronInv, CronShown
<1>2. cronExpr \in Exprs /\ seconds \in BOOLEAN
  BY DEF CronInv
<1>3. preview.ok = Parses(cronExpr, seconds) /\ PreviewIsDue(cronExpr, seconds, preview)
  BY <1>1, <1>2, PreviewTold
<1>4. SecondsKeepTheMeaning
  <2> DEFINE r == Reframed(cronExpr, ~seconds)
             Zero == seconds => OnTheMinute(cronExpr)
             Same == \A t \in 0..CronEnd - 1 :
                       Due(Parsed(cronExpr, seconds), seconds, t)
                         <=> Due(Parsed(r, ~seconds), ~seconds, t)
  <2>1. SecondsKeepTheMeaning <=> (preview.ok /\ Zero => Parses(r, ~seconds) /\ Same)
    BY DEF SecondsKeepTheMeaning, OnTheMinute
  <2>2. ASSUME preview.ok, Zero PROVE Parses(r, ~seconds) /\ Same
    <3>1. Parses(cronExpr, seconds)
      <4> HIDE DEF Zero
      <4> QED
        BY <1>3, <2>2, Zenon
    <3> QED
      BY <1>2, <2>2, <3>1, SecondsMean
  <2> HIDE DEF r, Zero, Same
  <2> QED
    BY <2>1, <2>2, Zenon
<1>5. ASSUME preview.ok, cronExpr.macro = NoMacro PROVE Joined(boxes) = cronExpr
  <2>1. Parses(cronExpr, seconds)
    BY <1>3, <1>5, Zenon
  <2>2. Expanded(cronExpr, seconds) = cronExpr.fields
    BY <1>5, NoMacroIs DEF Expanded
  <2>3. Len(cronExpr.fields) = Len(FieldsFor(seconds))
    BY <2>1, <2>2 DEF Parses
  <2>4. Len(FieldsFor(seconds)) = IF seconds THEN 6 ELSE 5
    BY <1>2, FieldsAre
  <2> QED
    BY <1>5, <2>3, <2>4 DEF CronInv, Agree
<1> QED
  BY <1>3, <1>4, <1>5, Zenon DEF CronPageAgrees

\* After an edit of the expression.
LEMMA CronRendered ==
  ASSUME NEW e \in Exprs, NEW bs \in Boxes, NEW secs \in BOOLEAN,
         Len(bs) = IF secs THEN 6 ELSE 5, RenderCron(e, bs, secs)
  PROVE  CronInv'
<1>1. bs # <<>>
  <2>1. Len(bs) # 0
    OBVIOUS
  <2> QED
    BY <2>1
<1>2. /\ Synced(e, bs) \in Boxes /\ Len(Synced(e, bs)) = Len(bs)
      /\ Agree(e, Synced(e, bs))
  BY <1>1, SyncedIs, SyncedAgree
<1>3. cronExpr' = e /\ seconds' = secs /\ boxes' = Synced(e, bs)
  BY Zenon DEF RenderCron
<1>4. CronShown(e, secs, preview')
  BY CronPageConstants DEF RenderCron, CronShown
<1>5. CronShown(cronExpr, seconds, preview)'
  BY <1>3, <1>4, Zenon DEF CronShown
<1>6. Agree(cronExpr, boxes)'
  BY <1>2, <1>3, Zenon DEF Agree
<1>7. /\ cronExpr' \in Exprs /\ seconds' \in BOOLEAN /\ boxes' \in Boxes
      /\ Len(boxes') = IF seconds' THEN 6 ELSE 5
  BY <1>2, <1>3
<1> QED
  BY <1>5, <1>6, <1>7 DEF CronInv

LEMMA PresetIs ==
  ASSUME NEW p \in Presets, NEW secs \in BOOLEAN
  PROVE  [macro |-> NoMacro, fields |-> (IF secs THEN <<At(0)>> ELSE <<>>) \o p] \in Exprs
<1>1. p \in Seq(Fields)
  BY CronPageConstants
<1>2. (IF secs THEN <<At(0)>> ELSE <<>>) \o p \in Seq(Fields)
  <2>1. CASE secs
    BY <1>1, <2>1, SecondFirst
  <2>2. CASE ~secs
    <3>1. <<>> \o p \in Seq(Fields)
      BY <1>1
    <3> QED
      BY <2>2, <3>1
  <2> QED
    BY <2>1, <2>2
<1> QED
  BY <1>2, PlainExpr

LEMMA CronStarts == ASSUME CronInit PROVE CronInv
<1>1. PICK p \in Presets : cronExpr = [macro |-> NoMacro, fields |-> p]
  BY DEF CronInit
<1>2. cronExpr \in Exprs
  BY <1>1, CronPageConstants, PlainExpr
<1>3. seconds = FALSE /\ boxes = Synced(cronExpr, Empty(FALSE))
  BY DEF CronInit
<1>4. Empty(FALSE) \in Boxes /\ Len(Empty(FALSE)) = 5
  <2>1. \A secs \in BOOLEAN : ~secs => Empty(secs) \in Boxes /\ Len(Empty(secs)) = 5
    BY EmptyIs
  <2>2. FALSE \in BOOLEAN
    OBVIOUS
  <2> QED
    BY <2>1, <2>2, Zenon
<1>5. Empty(FALSE) # <<>>
  <2> DEFINE b == Empty(FALSE)
  <2> HIDE DEF b
  <2>1. Len(b) = 5
    BY <1>4 DEF b
  <2>2. b # <<>>
    BY <2>1
  <2> QED
    BY <2>2 DEF b
<1>6. boxes \in Boxes /\ Len(boxes) = 5 /\ Agree(cronExpr, boxes)
  BY <1>2, <1>3, <1>4, <1>5, SyncedIs, SyncedAgree, Zenon
<1>7. CronShown(cronExpr, FALSE, preview)
  BY CronPageConstants DEF CronInit, CronShown
<1>8. CronShown(cronExpr, seconds, preview)
  BY <1>3, <1>7, Zenon
<1> QED
  BY <1>2, <1>3, <1>6, <1>8 DEF CronInv

LEMMA CronGoesOn == ASSUME CronInv, CronNext PROVE CronInv'
<1>1. /\ cronExpr \in Exprs /\ seconds \in BOOLEAN /\ boxes \in Boxes
      /\ Len(boxes) = IF seconds THEN 6 ELSE 5
  BY DEF CronInv
<1>2. ASSUME NEW e \in CronTyped, TypeExpr(e) PROVE CronInv'
  <2>1. e \in Exprs
    BY CronPageConstants
  <2> QED
    BY <1>1, <1>2, <2>1, CronRendered DEF TypeExpr
<1>3. ASSUME NEW p \in Presets, PickPreset(p) PROVE CronInv'
  BY <1>1, <1>3, PresetIs, CronRendered DEF PickPreset
<1>4. ASSUME NEW b \in BoxTyped, TypeBox(b[1], b[2]) PROVE CronInv'
  <2> DEFINE bs == [boxes EXCEPT ![b[1]] = b[2]]
  <2>1. b[2] \in Seq(Fields)
    BY CronPageConstants
  <2>2. b[1] \in DOMAIN boxes /\ boxes' = bs
    BY <1>4 DEF TypeBox
  <2>3. bs \in Boxes /\ Len(bs) = Len(boxes)
    BY <1>1, <2>1, <2>2, BoxIsTyped
  <2>4. cronExpr' = Joined(bs) /\ seconds' = seconds
    BY <1>4, <2>2, Zenon DEF TypeBox
  <2> HIDE DEF bs
  <2>5. bs # <<>>
    <3>1. Len(bs) # 0
      BY <1>1, <2>3
    <3> QED
      BY <3>1
  <2>6. cronExpr' \in Exprs
    BY <2>3, <2>4, <2>5, JoinedIs
  <2>7. CronShown(cronExpr', seconds, preview')
    BY <1>4, CronPageConstants DEF TypeBox, CronShown
  <2>8. CronShown(cronExpr, seconds, preview)'
    BY <2>4, <2>7, Zenon DEF CronShown
  <2>9. Agree(cronExpr, boxes)'
    BY <2>2, <2>4, JoinAgree, Zenon DEF Agree
  <2>10. /\ seconds' \in BOOLEAN /\ boxes' \in Boxes
         /\ Len(boxes') = IF seconds' THEN 6 ELSE 5
    BY <1>1, <2>2, <2>3, <2>4
  <2> QED
    BY <2>6, <2>8, <2>9, <2>10 DEF CronInv
<1>5. ASSUME ToggleSeconds PROVE CronInv'
  <2> DEFINE secs == ~seconds
  <2>1. secs \in BOOLEAN
    OBVIOUS
  <2>2. RenderCron(Reframed(cronExpr, secs), Empty(secs), secs)
    BY <1>5, Zenon DEF ToggleSeconds
  <2> HIDE DEF secs
  <2>3. Reframed(cronExpr, secs) \in Exprs
    BY <1>1, <2>1, ReframedIs
  <2> QED
    BY <2>1, <2>2, <2>3, EmptyIs, CronRendered
<1> QED
  BY <1>2, <1>3, <1>4, <1>5 DEF CronNext

LEMMA CronStands == ASSUME CronInv, UNCHANGED cronVars PROVE CronInv'
<1>1. cronExpr' = cronExpr /\ boxes' = boxes /\ preview' = preview
  BY DEF cronVars
<1>2. seconds' = seconds
  BY Zenon DEF cronVars
<1>3. CronShown(cronExpr, seconds, preview)' /\ Agree(cronExpr, boxes)'
  BY <1>1, <1>2, Zenon DEF CronInv, CronShown, Agree
<1> QED
  BY <1>1, <1>2, <1>3 DEF CronInv

(* The time page.  *)

LEMMA DivModInt ==
  ASSUME NEW t \in Int, NEW b \in Nat \ {0}
  PROVE  /\ t \div b \in Int /\ t % b \in 0..b - 1
         /\ t = b * (t \div b) + (t % b)
OBVIOUS

\* A rounded count of units is off by half a unit, on the same side of zero.
LEMMA RoundedIs ==
  ASSUME NEW diff \in Int, NEW unit \in Nat \ {0}, NEW count,
         count = ((2 * diff) + unit) \div (2 * unit)
  PROVE  /\ count \in Int
         /\ (2 * (count * unit - diff)) \in -unit..unit
         /\ (count * unit > 0 => diff > 0) /\ (count * unit < 0 => diff < 0)
<1> DEFINE t == (2 * diff) + unit
           b == 2 * unit
           r == t % b
           said == count * unit
<1>1. t \in Int /\ b \in Nat \ {0}
  OBVIOUS
<1>2. count \in Int /\ r \in 0..b - 1 /\ t = b * count + r
  <2>1. count = t \div b
    OBVIOUS
  <2> HIDE DEF t, b
  <2> QED
    BY <1>1, <2>1, DivModInt
<1>3. b * count = 2 * said
  BY <1>2
<1>4. said \in Int
  BY <1>2
<1>5. said > 0 => said >= unit
  BY <1>2
<1>6. said < 0 => said <= -unit
  BY <1>2
<1>7. r \in Int /\ 0 <= r /\ r <= 2 * unit - 1
  <2> HIDE DEF r
  <2> QED
    BY <1>1, <1>2 DEF b
<1>8. 2 * diff + unit = 2 * said + r
  BY <1>2, <1>3
<1> HIDE DEF said, r
<1>9. 2 * (said - diff) = unit - r
  BY <1>4, <1>7, <1>8
<1>10. (2 * (said - diff)) \in -unit..unit
  BY <1>4, <1>7, <1>9
<1>11. (said > 0 => diff > 0) /\ (said < 0 => diff < 0)
  BY <1>4, <1>5, <1>6, <1>7, <1>8
<1> QED
  BY <1>2, <1>10, <1>11 DEF said

LEMMA PhraseIs ==
  ASSUME NEW date \in Int, NEW now \in Int
  PROVE  LET p == Phrase(date, now) IN
         /\ p.unit \in Nat \ {0} /\ p.count \in Int
         /\ p.count = ((2 * (date - now)) + p.unit) \div (2 * p.unit)
<1> DEFINE diff == date - now
           abs == IF diff < 0 THEN -diff ELSE diff
           fit == {i \in DOMAIN Units : abs >= Units[i] \/ i = Len(Units)}
           unit == Units[Min(fit)]
<1>1. Units \in Seq(Nat \ {0}) /\ Len(Units) \in DOMAIN Units /\ DOMAIN Units \subseteq Nat
  BY TimeConstants
<1>2. fit \in SUBSET Nat /\ fit # {}
  BY <1>1
<1>3. Min(fit) \in DOMAIN Units
  BY <1>2, MinOf
<1>4. unit \in Nat \ {0}
  BY <1>1, <1>3
<1>5. Phrase(date, now) = [unit |-> unit, count |-> ((2 * diff) + unit) \div (2 * unit)]
  BY DEF Phrase
<1> HIDE DEF unit
<1>6. ((2 * diff) + unit) \div (2 * unit) \in Int
  BY <1>4
<1> QED
  BY <1>4, <1>5, <1>6

RelShown == \E now \in Nat : relOut = RelOut(relDate, now)

LEMMA RelIsTold == ASSUME RelShown, relDate \in WallTimes \cup {NoDate} PROVE PhraseIsTold
<1>1. PICK now \in Nat : relOut = RelOut(relDate, now)
  BY DEF RelShown
<1>2. relOut.of = relDate /\ relOut.at = now
  BY <1>1 DEF RelOut
<1>3. ASSUME relDate # NoDate
      PROVE  LET said == relOut.phrase.count * relOut.phrase.unit  diff == relDate - relOut.at IN
             /\ (2 * (said - diff)) \in -relOut.phrase.unit..relOut.phrase.unit
             /\ (said > 0 => diff > 0) /\ (said < 0 => diff < 0)
  <2> DEFINE p == relOut.phrase
  <2>1. relDate \in Int
    BY <1>3, TimeConstants
  <2>2. p = Phrase(relDate, now)
    BY <1>1, <1>3 DEF RelOut
  <2> HIDE DEF p
  <2>3. /\ p.unit \in Nat \ {0} /\ p.count \in Int
        /\ p.count = ((2 * (relDate - now)) + p.unit) \div (2 * p.unit)
    <3>1. now \in Int
      OBVIOUS
    <3>2. LET p0 == Phrase(relDate, now) IN
          /\ p0.unit \in Nat \ {0} /\ p0.count \in Int
          /\ p0.count = ((2 * (relDate - now)) + p0.unit) \div (2 * p0.unit)
      BY <2>1, <3>1, PhraseIs
    <3> QED
      BY <2>2, <3>2
  <2> DEFINE unit == p.unit
             count == p.count
             diff == relDate - now
  <2>4. diff \in Int
    BY <2>1
  <2>5. unit \in Nat \ {0} /\ count = ((2 * diff) + unit) \div (2 * unit)
    BY <2>3
  <2> HIDE DEF unit, count, diff
  <2>6. /\ (2 * (count * unit - diff)) \in -unit..unit
        /\ (count * unit > 0 => diff > 0) /\ (count * unit < 0 => diff < 0)
    BY <2>4, <2>5, RoundedIs
  <2> QED
    BY <1>2, <2>6 DEF unit, count, diff, p
<1> QED
  BY <1>2, <1>3 DEF PhraseIsTold

(* The zones.  *)

Apart(s) == \A i, j \in DOMAIN s : s[i] = s[j] => i = j

LEMMA ApartCounted ==
  ASSUME NEW S, NEW s \in Seq(S), Apart(s)
  PROVE  Cardinality(ToSet(s)) = Len(s)
<1> DEFINE f == [i \in 1..Len(s) |-> s[i]]
<1>1. DOMAIN s = 1..Len(s) /\ Len(s) \in Nat
  OBVIOUS
<1>2. ToSet(s) = {s[i] : i \in 1..Len(s)}
  BY <1>1 DEF ToSet
<1>3. f \in Bijection(1..Len(s), ToSet(s))
  <2>1. f \in [1..Len(s) -> ToSet(s)]
    BY <1>2
  <2>2. f \in Injection(1..Len(s), ToSet(s))
    <3>1. \A i, j \in DOMAIN f : f[i] = f[j] => i = j
      BY <1>1 DEF Apart
    <3>2. IsInjective(f)
      BY <3>1, Zenon DEF IsInjective
    <3> QED
      BY <2>1, <3>2, Zenon DEF Injection
  <2>3. \A t \in ToSet(s) : \E i \in 1..Len(s) : f[i] = t
    BY <1>2
  <2>4. f \in Surjection(1..Len(s), ToSet(s))
    BY <2>1, <2>3, Zenon DEF Surjection
  <2> QED
    BY <2>2, <2>4, Zenon DEF Bijection
<1>4. IsFiniteSet(1..Len(s)) /\ Cardinality(1..Len(s)) = Len(s)
  BY <1>1, FS_Interval
<1>5. ExistsBijection(1..Len(s), ToSet(s))
  BY <1>3 DEF ExistsBijection
<1> QED
  BY <1>4, <1>5, FS_Bijection

LEMMA ApartAppended ==
  ASSUME NEW S, NEW s \in Seq(S), Apart(s), NEW z \in S, z \notin ToSet(s)
  PROVE  Append(s, z) \in Seq(S) /\ Append(s, z) # <<>> /\ Apart(Append(s, z))
<1> DEFINE q == Append(s, z)
           n == Len(s)
<1>1. q \in Seq(S) /\ Len(q) = n + 1 /\ n \in Nat /\ DOMAIN q = 1..n + 1 /\ DOMAIN s = 1..n
  OBVIOUS
<1>2. q[n + 1] = z /\ \A i \in 1..n : q[i] = s[i]
  OBVIOUS
<1> HIDE DEF q
<1>3. \A i \in 1..n : s[i] # z
  BY <1>1 DEF ToSet
<1>4. Apart(q)
  BY <1>1, <1>2, <1>3 DEF Apart
<1>5. q # <<>>
  BY <1>1
<1> QED
  BY <1>1, <1>4, <1>5 DEF q

LEMMA ApartRemoved ==
  ASSUME NEW S, NEW s \in Seq(S), Apart(s), Len(s) > 1, NEW z
  PROVE  RemoveFirst(s, z) \in Seq(S) /\ RemoveFirst(s, z) # <<>> /\ Apart(RemoveFirst(s, z))
<1>1. CASE ~\E i \in 1..Len(s) : s[i] = z
  <2>1. RemoveFirst(s, z) = s
    BY <1>1 DEF RemoveFirst
  <2>2. s # <<>>
    OBVIOUS
  <2> QED
    BY <2>1, <2>2
<1>2. CASE \E i \in 1..Len(s) : s[i] = z
  <2> DEFINE I == {i \in 1..Len(s) : s[i] = z}
             m == Min(I)
             x == SubSeq(s, 1, m - 1)
             y == SubSeq(s, m + 1, Len(s))
             n == Len(s)
  <2>1. I # {} /\ I \in SUBSET Nat
    BY <1>2
  <2>2. m \in 1..n
    BY <2>1, MinOf
  <2>3. RemoveFirst(s, z) = x \o y
    <3>1. SelectInSeq(s, LAMBDA v : v = z) = m
      BY <2>1 DEF SelectInSeq
    <3> QED
      BY <1>2, <3>1 DEF RemoveFirst, RemoveAt
  <2> HIDE DEF m
  <2>4. n \in Nat /\ DOMAIN s = 1..n
    OBVIOUS
  <2>5. x \in Seq(S) /\ Len(x) = m - 1 /\ \A i \in 1..m - 1 : x[i] = s[i]
    BY <2>2, <2>4
  <2>6. y \in Seq(S) /\ Len(y) = n - m /\ \A i \in 1..n - m : y[i] = s[i + m]
    BY <2>2, <2>4
  <2> HIDE DEF x, y, n
  <2> DEFINE q == x \o y
  <2>7. /\ q \in Seq(S) /\ Len(q) = Len(x) + Len(y)
        /\ \A i \in 1..Len(x) : q[i] = x[i]
        /\ \A i \in Len(x) + 1..Len(x) + Len(y) : q[i] = y[i - Len(x)]
    BY <2>5, <2>6, TwoParts
  <2> HIDE DEF q
  <2>8. Len(q) = n - 1 /\ DOMAIN q = 1..n - 1
    BY <2>2, <2>4, <2>5, <2>6, <2>7
  <2>9. \A i \in 1..m - 1 : q[i] = s[i]
    BY <2>2, <2>4, <2>5, <2>7
  <2>10. \A i \in m..n - 1 : q[i] = s[i + 1]
    <3> TAKE i \in m..n - 1
    <3>1. q[i] = y[i - (m - 1)]
      BY <2>2, <2>4, <2>5, <2>6, <2>7
    <3>2. i - (m - 1) \in 1..n - m /\ (i - (m - 1)) + m = i + 1
      BY <2>2, <2>4
    <3> QED
      BY <2>6, <3>1, <3>2
  <2>11. Apart(q)
    <3> SUFFICES ASSUME NEW i \in 1..n - 1, NEW j \in 1..n - 1, q[i] = q[j]
                 PROVE  i = j
      BY <2>8 DEF Apart
    <3>1. PICK a \in 1..n : q[i] = s[a] /\ a = IF i < m THEN i ELSE i + 1
      BY <2>2, <2>4, <2>9, <2>10
    <3>2. PICK b \in 1..n : q[j] = s[b] /\ b = IF j < m THEN j ELSE j + 1
      BY <2>2, <2>4, <2>9, <2>10
    <3>3. a = b
      BY <2>4, <3>1, <3>2 DEF Apart
    <3> QED
      BY <2>2, <2>4, <3>1, <3>2, <3>3
  <2>12. q # <<>>
    <3>1. Len(q) # 0
      BY <2>4, <2>8 DEF n
    <3> QED
      BY <3>1
  <2> QED
    BY <2>3, <2>7, <2>11, <2>12 DEF q
<1> QED
  BY <1>1, <1>2

ZonesInv ==
  /\ zoneDate \in WallTimes \cup {NoDate} /\ zoneSource \in Zones
  /\ zonesShown \in Seq(Zones) /\ zonesShown # <<>> /\ Apart(zonesShown)
  /\ zoneOut = ZoneOut(zoneDate, zoneSource, zonesShown)

LEMMA OffsetIs ==
  ASSUME NEW wall \in WallTimes, NEW z \in Zones,
         LET ahead == ZoneOffset[z]
             near == {t \in DOMAIN ahead : \E w \in DOMAIN ahead :
                        (t - wall) \in {-ahead[w], 0, ahead[w]}}
         IN InstantOf(wall, z) \in DOMAIN ahead /\ Cardinality({ahead[t] : t \in near}) = 1
  PROVE  InstantOf(wall, z) + ZoneOffset[z][InstantOf(wall, z)] = wall
<1> DEFINE ahead == ZoneOffset[z]
           known == DOMAIN ahead
           near == {t \in known : \E w \in known : (t - wall) \in {-ahead[w], 0, ahead[w]}}
           instant == InstantOf(wall, z)
           told == {ahead[t] : t \in near}
<1>1. /\ WallTimes \subseteq known /\ known \subseteq Int /\ IsFiniteSet(known)
      /\ ahead \in [known -> Int]
  BY TimeConstants
<1>2. wall \in known /\ wall \in Int /\ ahead[wall] \in Int
  BY <1>1
<1>3. instant = wall - ahead[wall] /\ instant \in known
  BY DEF InstantOf
<1>4. Cardinality(told) = 1
  OBVIOUS
<1> HIDE DEF ahead, instant
<1>5. wall \in near
  <2>1. wall - wall = 0
    BY <1>2
  <2> QED
    BY <1>2, <2>1
<1>6. instant \in near
  <2>1. instant - wall = -ahead[wall]
    BY <1>2, <1>3
  <2> QED
    BY <1>2, <1>3, <2>1
<1>7. IsFiniteSet(near)
  BY <1>1, FS_Subset
<1> HIDE DEF near
<1>8. IsFiniteSet(told)
  <2> DEFINE f == [t \in near |-> ahead[t]]
  <2>1. f \in [near -> told] /\ \A v \in told : \E t \in near : f[t] = v
    OBVIOUS
  <2> HIDE DEF told, f
  <2>2. f \in Surjection(near, told)
    BY <2>1, Zenon DEF Surjection
  <2> QED
    BY <1>7, <2>2, FS_Surjection DEF ExistsSurjection
<1>9. \E x : told = {x}
  BY <1>4, <1>8, FS_Singleton
<1>10. ahead[instant] = ahead[wall]
  BY <1>5, <1>6, <1>9
<1> QED
  BY <1>2, <1>3, <1>10 DEF instant, ahead

LEMMA ZonesTold == ASSUME ZonesInv PROVE ZonesAreTold
<1> SUFFICES ASSUME zoneOut.ok PROVE
      /\ zoneOut.zones = zonesShown /\ zonesShown # <<>>
      /\ Cardinality(ToSet(zonesShown)) = Len(zonesShown)
      /\ LET ahead == ZoneOffset[zoneSource]
             near == {t \in DOMAIN ahead : \E w \in DOMAIN ahead :
                        (t - zoneDate) \in {-ahead[w], 0, ahead[w]}}
         IN zoneOut.instant \in DOMAIN ahead /\ Cardinality({ahead[t] : t \in near}) = 1 =>
              zoneOut.instant + ahead[zoneOut.instant] = zoneDate
  BY Zenon DEF ZonesAreTold
<1>1. zoneDate # NoDate
  BY DEF ZonesInv, ZoneOut
<1>2. zoneDate \in WallTimes /\ zoneSource \in Zones
  BY <1>1 DEF ZonesInv
<1>3. zoneOut.zones = zonesShown /\ zoneOut.instant = InstantOf(zoneDate, zoneSource)
  BY <1>1 DEF ZonesInv, ZoneOut
<1>4. Cardinality(ToSet(zonesShown)) = Len(zonesShown) /\ zonesShown # <<>>
  BY ApartCounted DEF ZonesInv
<1> QED
  BY <1>2, <1>3, <1>4, OffsetIs

(* The cron panel.  *)

TabInv ==
  /\ tabExpr \in Exprs /\ tabBoxes \in Boxes /\ Len(tabBoxes) = 5
  /\ CronShown(tabExpr, FALSE, tabPreview) /\ Agree(tabExpr, tabBoxes)

LEMMA TabTold == ASSUME TabInv PROVE TabAgrees
<1> DEFINE Says(secs) ==
             /\ tabPreview.ok = Parses(tabExpr, secs) /\ PreviewIsDue(tabExpr, secs, tabPreview)
           Showing(secs) == CronShown(tabExpr, secs, tabPreview)
<1>1. tabExpr \in Exprs /\ FALSE \in BOOLEAN
  BY DEF TabInv
<1>2. \A secs \in BOOLEAN : Showing(secs) => Says(secs)
  BY <1>1, PreviewTold DEF CronShown
<1>3. Showing(FALSE)
  BY Zenon DEF TabInv
<1> HIDE DEF Showing
<1>4. Says(FALSE)
  BY <1>1, <1>2, <1>3, Zenon
<1>5. ASSUME tabPreview.ok, tabExpr.macro = NoMacro PROVE Joined(tabBoxes) = tabExpr
  <2> DEFINE Plain(secs) == Parses(tabExpr, secs) =>
               Len(tabExpr.fields) = IF secs THEN 6 ELSE 5
  <2>1. \A secs \in BOOLEAN : Plain(secs)
    <3> SUFFICES ASSUME NEW secs \in BOOLEAN, Parses(tabExpr, secs)
                 PROVE  Len(tabExpr.fields) = IF secs THEN 6 ELSE 5
      BY Zenon
    <3>1. Expanded(tabExpr, secs) = tabExpr.fields
      BY <1>5, NoMacroIs DEF Expanded
    <3>2. Len(tabExpr.fields) = Len(FieldsFor(secs))
      BY <3>1 DEF Parses
    <3> QED
      BY <3>2, FieldsAre
  <2>2. Parses(tabExpr, FALSE)
    BY <1>4, <1>5, Zenon
  <2>3. Plain(FALSE)
    BY <1>1, <2>1, Zenon
  <2>4. Len(tabExpr.fields) = 5
    BY <2>2, <2>3, Zenon
  <2> QED
    BY <1>5, <2>4 DEF TabInv, Agree
<1> QED
  BY <1>4, <1>5, Zenon DEF TabAgrees

LEMMA TabPreviewIs ==
  ASSUME NEW e, NEW now
  PROVE  TabPreview(e, now) = Preview(e, FALSE, now)
BY Zenon DEF TabPreview, Preview, TabParses, TabRuns, TabSays

LEMMA TabRendered ==
  ASSUME NEW e \in Exprs, NEW bs \in Boxes, Len(bs) = 5, Agree(e, bs), clock \in Nat,
         RenderTab(e, bs)
  PROVE  TabInv'
<1>1. tabExpr' = e /\ tabBoxes' = bs /\ tabPreview' = Preview(e, FALSE, clock)
  BY TabPreviewIs, Zenon DEF RenderTab
<1>2. CronShown(e, FALSE, tabPreview')
  BY <1>1, Zenon DEF CronShown
<1>3. CronShown(tabExpr, FALSE, tabPreview)' /\ Agree(tabExpr, tabBoxes)'
  BY <1>1, <1>2, Zenon DEF CronShown, Agree
<1>4. tabExpr' \in Exprs /\ tabBoxes' \in Boxes /\ Len(tabBoxes') = 5
  BY <1>1
<1> QED
  BY <1>3, <1>4 DEF TabInv

LEMMA TabSynced ==
  ASSUME NEW e \in Exprs, NEW bs \in Boxes, Len(bs) = 5
  PROVE  /\ Synced(e, bs) \in Boxes /\ Len(Synced(e, bs)) = 5
         /\ Agree(e, Synced(e, bs))
<1>1. bs # <<>>
  <2>1. Len(bs) # 0
    OBVIOUS
  <2> QED
    BY <2>1
<1> QED
  BY <1>1, SyncedIs, SyncedAgree

RelInv == relDate \in WallTimes \cup {NoDate} /\ RelShown
TimeInv == clock \in Nat /\ ZonesInv /\ RelInv /\ TabInv

LEMMA TimeTold == ASSUME TimeInv PROVE TimeIsTold
BY ZonesTold, RelIsTold, TabTold, Zenon DEF TimeInv, RelInv, TimeIsTold

LEMMA ZonesStand == ASSUME ZonesInv, UNCHANGED zoneVars PROVE ZonesInv'
BY DEF ZonesInv, zoneVars

LEMMA RelStands == ASSUME RelInv, UNCHANGED relVars PROVE RelInv'
BY DEF RelInv, RelShown, relVars

LEMMA TabStands == ASSUME TabInv, UNCHANGED tabVars PROVE TabInv'
<1>1. tabExpr' = tabExpr /\ tabBoxes' = tabBoxes /\ tabPreview' = tabPreview
  BY DEF tabVars
<1>2. CronShown(tabExpr, FALSE, tabPreview)' /\ Agree(tabExpr, tabBoxes)'
  BY <1>1, Zenon DEF TabInv, CronShown, Agree
<1> QED
  BY <1>1, <1>2 DEF TabInv

LEMMA TimeStands == ASSUME TimeInv, UNCHANGED timeVars PROVE TimeInv'
<1>1. clock' = clock /\ UNCHANGED zoneVars /\ UNCHANGED relVars /\ UNCHANGED tabVars
  BY DEF timeVars
<1> QED
  BY <1>1, ZonesStand, RelStands, TabStands DEF TimeInv

LEMMA RelRendered ==
  ASSUME NEW d \in WallTimes \cup {NoDate}, NEW now \in Nat, relDate' = d, relOut' = RelOut(d, now)
  PROVE  RelInv'
BY DEF RelInv, RelShown

LEMMA ZonesRendered ==
  ASSUME NEW w \in WallTimes \cup {NoDate}, NEW z \in Zones,
         NEW zs \in Seq(Zones), zs # <<>>, Apart(zs), RenderTz(w, z, zs)
  PROVE  ZonesInv'
BY DEF RenderTz, ZonesInv, Apart

LEMMA TimeStarts == ASSUME TimeInit PROVE TimeInv
<1>1. clock \in Nat /\ dateOut \in WallTimes
  BY DEF TimeInit
<1>2. ZonesInv
  BY <1>1, TimeConstants DEF TimeInit, ZonesInv, Apart
<1>3. RelInv
  <2>1. relDate \in WallTimes /\ relOut = RelOut(relDate, clock)
    BY <1>1 DEF TimeInit
  <2> QED
    BY <1>1, <2>1 DEF RelInv, RelShown
<1>4. TabInv
  <2> DEFINE b == <<AnyField>>
             bs == [i \in 1..5 |-> b]
  <2>1. tabExpr \in Exprs /\ tabBoxes = Synced(tabExpr, bs)
    BY TimeConstants DEF TimeInit
  <2>2. tabPreview = Preview(tabExpr, FALSE, clock)
    BY TabPreviewIs, Zenon DEF TimeInit
  <2>3. b \in Seq(Fields)
    <3>1. AnyField \in Fields
      BY AtIs
    <3> QED
      BY <3>1
  <2> HIDE DEF b
  <2>4. bs \in Boxes /\ Len(bs) = 5
    BY <2>3 DEF Boxes
  <2> HIDE DEF bs
  <2>5. CronShown(tabExpr, FALSE, tabPreview)
    BY <1>1, <2>2, Zenon DEF CronShown
  <2> QED
    BY <2>1, <2>4, <2>5, TabSynced DEF TabInv
<1> QED
  BY <1>1, <1>2, <1>3, <1>4 DEF TimeInv

LEMMA TimeGoesOn == ASSUME TimeInv, TimeNext PROVE TimeInv'
<1>1. clock \in Nat /\ ZonesInv /\ RelInv /\ TabInv
  BY DEF TimeInv
<1>2. ASSUME NEW t \in Tabs, ShowTab(t) PROVE TimeInv'
  BY <1>1, <1>2, ZonesStand, RelStands, TabStands DEF TimeInv, ShowTab
<1>3. ASSUME NEW ts \in TsTyped, TypeTs(ts) PROVE TimeInv'
  BY <1>1, <1>3, ZonesStand, RelStands, TabStands DEF TimeInv, TypeTs, Edit
<1>4. ASSUME NEW w \in WallTimes \cup {NoDate}, TypeDate(w) PROVE TimeInv'
  BY <1>1, <1>4, ZonesStand, RelStands, TabStands DEF TimeInv, TypeDate, Edit
<1>5. ASSUME OnZones, NEW w \in WallTimes \cup {NoDate}, NEW z \in Zones,
             NEW zs \in Seq(Zones), zs # <<>>, Apart(zs), RenderTz(w, z, zs)
      PROVE  TimeInv'
  <2>1. ZonesInv'
    BY <1>5, ZonesRendered
  <2>2. clock' = clock /\ RelInv' /\ TabInv'
    BY <1>1, <1>5, RelStands, TabStands DEF OnZones, Edit
  <2> QED
    BY <1>1, <2>1, <2>2 DEF TimeInv
<1>6. /\ zoneDate \in WallTimes \cup {NoDate} /\ zoneSource \in Zones
      /\ zonesShown \in Seq(Zones) /\ zonesShown # <<>> /\ Apart(zonesShown)
  BY <1>1 DEF ZonesInv
<1>7. ASSUME NEW w \in WallTimes \cup {NoDate}, TypeZoneDate(w) PROVE TimeInv'
  BY <1>5, <1>6, <1>7 DEF TypeZoneDate
<1>8. ASSUME NEW w \in WallTimes, ZoneNow(w) PROVE TimeInv'
  BY <1>5, <1>6, <1>8, TimeConstants DEF ZoneNow
<1>9. ASSUME NEW z \in Zones, ChooseSource(z) PROVE TimeInv'
  BY <1>5, <1>6, <1>9 DEF ChooseSource
<1>10. ASSUME NEW z \in Zones, AddZone(z) PROVE TimeInv'
  <2> DEFINE zs == IF z \in ToSet(zonesShown) THEN zonesShown ELSE Append(zonesShown, z)
  <2>1. OnZones /\ RenderTz(zoneDate, zoneSource, zs)
    BY <1>10 DEF AddZone
  <2>2. zs \in Seq(Zones) /\ zs # <<>> /\ Apart(zs)
    BY <1>6, ApartAppended
  <2> HIDE DEF zs
  <2> QED
    BY <1>5, <1>6, <2>1, <2>2
<1>11. ASSUME NEW z \in Zones, RemoveZone(z) PROVE TimeInv'
  <2> DEFINE zs == RemoveFirst(zonesShown, z)
  <2>1. OnZones /\ RenderTz(zoneDate, zoneSource, zs) /\ Len(zoneOut.zones) > 1
    BY <1>11 DEF RemoveZone
  <2>2. Len(zonesShown) > 1
    <3>1. zoneOut = ZoneOut(zoneDate, zoneSource, zonesShown)
      BY <1>1 DEF ZonesInv
    <3>2. CASE zoneDate = NoDate
      BY <2>1, <3>1, <3>2 DEF ZoneOut
    <3>3. CASE zoneDate # NoDate
      BY <2>1, <3>1, <3>3 DEF ZoneOut
    <3> QED
      BY <3>2, <3>3
  <2>3. zs \in Seq(Zones) /\ zs # <<>> /\ Apart(zs)
    BY <1>6, <2>2, ApartRemoved
  <2> HIDE DEF zs
  <2> QED
    BY <1>5, <1>6, <2>1, <2>3
<1>12. ASSUME NEW w \in WallTimes \cup {NoDate}, TypeRelative(w) PROVE TimeInv'
  <2>1. RelInv'
    BY <1>1, <1>12, RelRendered DEF TypeRelative
  <2>2. clock' = clock /\ ZonesInv' /\ TabInv'
    BY <1>1, <1>12, ZonesStand, TabStands DEF TypeRelative, Edit
  <2> QED
    BY <1>1, <2>1, <2>2 DEF TimeInv
<1>13. ASSUME Second PROVE TimeInv'
  <2>1. clock' \in Nat /\ relDate' = relDate
    BY <1>1, <1>13 DEF Second
  <2>2. relDate \in WallTimes \cup {NoDate}
    BY <1>1 DEF RelInv
  <2>3. RelInv'
    <3>1. CASE active = "relative"
      <4>1. relOut' = RelOut(relDate, clock')
        BY <1>13, <3>1 DEF Second
      <4> QED
        BY <2>1, <2>2, <4>1, RelRendered
    <3>2. CASE active # "relative"
      BY <1>1, <1>13, <3>2, RelStands DEF Second, relVars
    <3> QED
      BY <3>1, <3>2
  <2>4. ZonesInv' /\ TabInv'
    BY <1>1, <1>13, ZonesStand, TabStands DEF Second
  <2> QED
    BY <2>1, <2>3, <2>4 DEF TimeInv
<1>14. ASSUME OnCron, NEW e \in Exprs, NEW bs \in Boxes, Len(bs) = 5, Agree(e, bs),
              RenderTab(e, bs)
       PROVE  TimeInv'
  <2>1. TabInv'
    BY <1>1, <1>14, TabRendered
  <2>2. clock' = clock /\ ZonesInv' /\ RelInv'
    BY <1>1, <1>14, ZonesStand, RelStands DEF OnCron, Edit
  <2> QED
    BY <1>1, <2>1, <2>2 DEF TimeInv
<1>15. tabBoxes \in Boxes /\ Len(tabBoxes) = 5
  BY <1>1 DEF TabInv
<1>16. ASSUME NEW e \in TabTyped, TypeTabExpr(e) PROVE TimeInv'
  <2>1. e \in Exprs
    BY TimeConstants
  <2> QED
    BY <1>14, <1>15, <1>16, <2>1, TabSynced DEF TypeTabExpr
<1>17. ASSUME NEW b \in TabBoxTyped, TypeTabBox(b[1], b[2]) PROVE TimeInv'
  <2> DEFINE bs == [tabBoxes EXCEPT ![b[1]] = b[2]]
  <2>1. b[1] \in 1..5 /\ b[2] \in Seq(Fields)
    BY TimeConstants
  <2>2. b[1] \in DOMAIN tabBoxes
    BY <1>15, <2>1 DEF Boxes
  <2>3. bs \in Boxes /\ Len(bs) = 5
    BY <1>15, <2>1, <2>2, BoxIsTyped
  <2>4. OnCron /\ RenderTab(Joined(bs), bs)
    BY <1>17 DEF TypeTabBox
  <2> HIDE DEF bs
  <2>5. bs # <<>>
    <3>1. Len(bs) # 0
      BY <2>3
    <3> QED
      BY <3>1
  <2>6. Joined(bs) \in Exprs /\ Agree(Joined(bs), bs)
    BY <2>3, <2>5, JoinedIs, JoinAgree
  <2> QED
    BY <1>14, <2>3, <2>4, <2>6
<1> QED
  BY <1>2, <1>3, <1>4, <1>7, <1>8, <1>9, <1>10, <1>11, <1>12, <1>13, <1>16, <1>17
  DEF TimeNext

-----------------------------------------------------------------------------
(* One page's life.                                                          *)

PagesInv ==
  /\ tool = "snake" => SnakeInv
  /\ tool = "motions" => MotionInv
  /\ tool = "quiz" => QuizInv
  /\ tool = "morse" => MorseInv
  /\ tool = "barcode" => CodeInv
  /\ tool = "visits" => ChartsInv
  /\ tool = "table" => TableInv
  /\ tool = "copy" => CopyInv
  /\ tool = "pixels" => PixelInv
  /\ tool = "cron" => CronInv
  /\ tool = "time" => TimeInv
  /\ tool = "site" => SiteInv

LEMMA SnakeStands == ASSUME SnakeInv, UNCHANGED snakeVars PROVE SnakeInv'
BY DEF SnakeInv, snakeVars, Cells
LEMMA QuizStands == ASSUME QuizInv, UNCHANGED quizVars PROVE QuizInv'
BY DEF QuizInv, quizVars, OneIsRight
LEMMA MorseStands == ASSUME MorseInv, UNCHANGED morseVars PROVE MorseInv'
BY DEF MorseInv, morseVars, ChallengeIsTimed
LEMMA CodeStands == ASSUME CodeInv, UNCHANGED codeVars PROVE CodeInv'
BY DEF CodeInv, codeVars
LEMMA LoadsStand ==
  ASSUME LoadsInv, UNCHANGED visitVars PROVE LoadsInv' /\ Filter' = Filter
<1>1. Requests' = Requests /\ Filter' = Filter
  BY DEF visitVars, Requests, Filter
<1>2. failed' = failed
  BY Zenon DEF visitVars
<1>3. /\ route' = route /\ visitKind' = visitKind /\ offset' = offset /\ loadId' = loadId
      /\ loads' = loads /\ rows' = rows
  BY DEF visitVars
<1> QED
  BY <1>1, <1>2, <1>3 DEF LoadsInv
LEMMA ChartsStand == ASSUME ChartsInv, UNCHANGED visitVars PROVE ChartsInv'
<1>1. LoadsInv' /\ failed' = failed
  BY LoadsStand, Zenon DEF ChartsInv, visitVars
<1>2. offset' = offset /\ logScales' = logScales /\ charts' = charts
  BY DEF visitVars
<1> QED
  BY <1>1, <1>2 DEF ChartsInv
LEMMA TableStands == ASSUME TableInv, UNCHANGED visitVars PROVE TableInv'
<1>1. LoadsInv' /\ Filter' = Filter
  BY LoadsStand DEF TableInv
<1>2. next' = next
  BY Zenon DEF visitVars
<1>3. offset' = offset /\ charts' = charts
  BY DEF visitVars
<1>4. next' => offset' + PageSize < Found(Filter')
  BY <1>1, <1>2, <1>3 DEF TableInv
<1> QED
  BY <1>1, <1>3, <1>4 DEF TableInv, OffsetIsInTheTable
LEMMA CopyStands == ASSUME CopyInv, UNCHANGED copyVars PROVE CopyInv'
BY DEF CopyInv, copyVars, CopyReturns
LEMMA SiteStands == ASSUME SiteInv, UNCHANGED vars PROVE SiteInv'
<1>1. /\ entries' = entries /\ at' = at /\ calls' = calls /\ app' = app
      /\ board' = board /\ vim' = vim /\ fetched' = fetched /\ late' = late
  BY DEF vars, router
<1>2. NoVim' = NoVim
  BY <1>1 DEF NoVim
<1>3. VimDocument' = VimDocument
  BY <1>1 DEF VimDocument
<1> QED
  BY <1>1, <1>2, <1>3 DEF SiteInv

LEMMA PagesStart == PagesInit => PagesInv
<1> SUFFICES ASSUME PagesInit PROVE PagesInv
  OBVIOUS
<1>1. CASE tool = "site"
  <2>1. Init
    BY <1>1 DEF PagesInit, ToolsInit
  <2> QED
    BY <1>1, <2>1, SiteStarts DEF PagesInv
<1>2. CASE tool # "site"
  <2>1. /\ tool = "snake" => SnakeInit
        /\ tool = "motions" => MotionInit
        /\ tool = "quiz" => QuizInit
        /\ tool = "morse" => MorseInit
        /\ tool = "barcode" => BarcodeInit
        /\ tool = "visits" => ChartsInit
        /\ tool = "table" => TableInit
        /\ tool = "copy" => CopyInit
        /\ tool = "pixels" => PixelInit
        /\ tool = "cron" => CronInit
        /\ tool = "time" => TimeInit
    BY <1>2 DEF PagesInit, ToolsInit
  <2> QED
    BY <1>2, <2>1, SnakeStarts, MotionStarts, QuizStarts, MorseStarts, CodeStarts,
       ChartsStart, TableStarts, CopyStarts, PixelStarts, CronStarts, TimeStarts DEF PagesInv
<1> QED
  BY <1>1, <1>2

\* What a step is, to the page that is up.
LEMMA PageSteps ==
  ASSUME [PagesNext]_<<toolVars, vars>>
  PROVE  /\ tool' = tool
         /\ tool = "snake" => SnakeNext \/ UNCHANGED snakeVars
         /\ tool = "motions" => MotionNext \/ UNCHANGED motionVars
         /\ tool = "quiz" => QuizNext \/ UNCHANGED quizVars
         /\ tool = "morse" => MorseNext \/ UNCHANGED morseVars
         /\ tool = "barcode" => BarcodeNext \/ UNCHANGED codeVars
         /\ tool = "visits" => ChartsNext \/ UNCHANGED visitVars
         /\ tool = "table" => TableNext \/ UNCHANGED visitVars
         /\ tool = "copy" => CopyNext \/ UNCHANGED copyVars
         /\ tool = "pixels" => PixelNext \/ UNCHANGED pixelVars
         /\ tool = "cron" => CronNext \/ UNCHANGED cronVars
         /\ tool = "time" => TimeNext \/ UNCHANGED timeVars
         /\ tool = "site" => Next \/ UNCHANGED vars
<1>1. CASE UNCHANGED toolVars
  <2>1. /\ tool' = tool /\ UNCHANGED snakeVars /\ UNCHANGED motionVars /\ UNCHANGED quizVars
        /\ UNCHANGED morseVars /\ UNCHANGED codeVars /\ UNCHANGED visitVars
        /\ UNCHANGED copyVars /\ UNCHANGED pixelVars /\ UNCHANGED cronVars
        /\ UNCHANGED timeVars
    BY <1>1 DEF toolVars
  <2>2. tool = "site" => Next \/ UNCHANGED vars
    <3>1. ASSUME tool = "site", ToolsNext PROVE FALSE
      BY <3>1 DEF ToolsNext, PlaySnake, PlayMotions, PlayQuiz, KeyMorse, MakeCode,
         SeeVisits, SeeTable, UseCron, CopyCron, UseTime, DrawPixels, On
    <3> QED
      BY <3>1 DEF PagesNext
  <2> QED
    BY <2>1, <2>2
<1>2. CASE ToolsNext /\ UNCHANGED vars
  BY <1>2 DEF ToolsNext, PlaySnake, PlayMotions, PlayQuiz, KeyMorse, MakeCode,
     SeeVisits, SeeTable, UseCron, CopyCron, UseTime, DrawPixels, On
<1> QED
  BY <1>1, <1>2 DEF PagesNext

LEMMA PagesGoOn == PagesInv /\ [PagesNext]_<<toolVars, vars>> => PagesInv'
<1> SUFFICES ASSUME PagesInv, [PagesNext]_<<toolVars, vars>> PROVE PagesInv'
  OBVIOUS
<1>1. tool' = tool
  BY PageSteps
<1>2. CASE tool = "snake"
  BY <1>1, <1>2, PageSteps, SnakeGoesOn, SnakeStands DEF PagesInv
<1>3. CASE tool = "motions"
  BY <1>1, <1>3, PageSteps, MotionGoesOn DEF PagesInv
<1>4. CASE tool = "quiz"
  BY <1>1, <1>4, PageSteps, QuizMoves, QuizStands DEF PagesInv
<1>5. CASE tool = "morse"
  BY <1>1, <1>5, PageSteps, MorseGoesOn, MorseStands DEF PagesInv
<1>6. CASE tool = "barcode"
  BY <1>1, <1>6, PageSteps, CodeGoesOn, CodeStands DEF PagesInv
<1>7. CASE tool = "visits"
  BY <1>1, <1>7, PageSteps, ChartsGoOn, ChartsStand DEF PagesInv
<1>8. CASE tool = "table"
  BY <1>1, <1>8, PageSteps, TableGoesOn, TableStands DEF PagesInv
<1>9. CASE tool = "copy"
  BY <1>1, <1>9, PageSteps, CopyGoesOn, CopyStands DEF PagesInv
<1>10. CASE tool = "site"
  BY <1>1, <1>10, PageSteps, SiteGoesOn, SiteStands DEF PagesInv
<1>11. CASE tool = "pixels"
  BY <1>1, <1>11, PageSteps, PixelGoesOn, PixelsStand DEF PagesInv
<1>12. CASE tool = "cron"
  BY <1>1, <1>12, PageSteps, CronGoesOn, CronStands DEF PagesInv
<1>13. CASE tool = "time"
  BY <1>1, <1>13, PageSteps, TimeGoesOn, TimeStands DEF PagesInv
<1>14. CASE tool \notin {"snake", "motions", "quiz", "morse", "barcode", "visits", "table",
                         "copy", "pixels", "cron", "time", "site"}
  BY <1>1, <1>14 DEF PagesInv
<1> QED
  BY <1>2, <1>3, <1>4, <1>5, <1>6, <1>7, <1>8, <1>9, <1>10, <1>11, <1>12,
     <1>13, <1>14

\* The invariant of whichever page is up, which the promises below follow from.
THEOREM PagesKeepTheirInvariants == PagesSpec => []PagesInv
BY PagesStart, PagesGoOn, PTL DEF PagesSpec

\* However fast the snake is turned it never bites its second cell, and its food
\* lies on a free cell of any board; in any text w, b and e go where Vim's would
\* and f to what it is asked for, or nowhere; in any listing one choice of a
\* question is right, and no others but capitals read alike; an answered question
\* has the timer that ends it; and a challenge runs exactly while its clock does.
THEOREM GamesStayFair == PagesSpec => []GamesAreFair
<1>1. PagesInv => GamesAreFair
  BY SnakeFair, MotionIsFair, QuizFair DEF PagesInv, GamesAreFair, MorseInv
<1> QED
  BY <1>1, PagesKeepTheirInvariants, PTL

\* In whatever order libraries, runs and answers come, the code on the page is of
\* the text asked for last; the charts are of the filter that is set, or the
\* newest request failed; the same holds of the table unless a refusal that came
\* in time was read too late; and the table is never turned past its end.
THEOREM LatestIsAlwaysShown == PagesSpec => []LatestIsShown
<1>1. PagesInv => LatestIsShown
  BY CodeLatest, ChartsAreLatest, TableIsLatest DEF PagesInv, LatestIsShown
<1> QED
  BY <1>1, PagesKeepTheirInvariants, PTL

\* On a calendar of any months and days, whatever is typed into the expression,
\* its boxes or a preset, with the seconds or without: the runs listed are the
\* next ones that are due, in order and none skipped, the words and the boxes are
\* the expression's, and the seconds come and go without moving a run.  A date is
\* shown once in each zone, at the instant its own zone's clock shows it; what is
\* said of the time between is off by half a unit at most; and the button that
\* copies returns to its word.
THEOREM TimesAreAlwaysTold == PagesSpec => []TimesAreTold
<1>1. PagesInv => TimesAreTold
  BY CronAgrees, TimeTold DEF PagesInv, TimesAreTold, CopyInv
<1> QED
  BY <1>1, PagesKeepTheirInvariants, PTL

\* For any sides, biases and depths an outline keeps its hole in, the deepest
\* wall leaves none, and what is painted, listed and saved is the shape: mirrored
\* with its walls and closed diagonals, each cell in one run of its row, and in
\* the middle of its picture.
THEOREM PixelsStayRight == PagesSpec => []PixelsRight
<1>1. PagesInv => PixelsRight
  BY PixelRight DEF PagesInv, PixelsRight
<1> QED
  BY <1>1, PagesKeepTheirInvariants, PTL

\* At most the mount that is shown has a frame, exactly one once it is loaded and
\* enabled; a click that was warned of is given back; and the ground is held only
\* by a pointer that is down, or whose release a hidden board was not told of.
THEOREM BoardAlwaysGoesOn == PagesSpec => []BoardGoesOn
<1>1. PagesInv => BoardGoesOn
  BY BoardIsRight DEF PagesInv, BoardGoesOn, SiteInv
<1> QED
  BY <1>1, PagesKeepTheirInvariants, PTL

\* However the Vim page is left, through any redirect and with any load still
\* under way, its games' keys go with it.
THEOREM KeysAlwaysComeBack == PagesSpec => []KeysAreGivenBack
<1>1. PagesInv => KeysAreGivenBack
  BY SiteKeepsKeys DEF PagesInv, KeysAreGivenBack
<1> QED
  BY <1>1, PagesKeepTheirInvariants, PTL
=============================================================================
