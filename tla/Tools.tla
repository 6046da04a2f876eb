------------------------------- MODULE Tools -------------------------------
(* The secret pages that are tools and games.  The router (frontend/src/     *)
(* main.ts, module Site) mounts one at a time and tears it down when it is   *)
(* left, and no tool keeps anything for its next mount; so a behaviour here  *)
(* is the life of one page.  "copy" is the button of the cron page.          *)
EXTENDS SnakeGame, MotionsGame, QuizRounds, MorseKeyer, BarcodePage, VisitTables,
        CronPage, TimePage, PixelShapes

CONSTANT Away           \* of a page that is not mounted

VARIABLE tool           \* the page mounted

\* Pages that are not mounted.
NoSnake ==
  /\ snake = Away /\ dir = Away /\ nextDir = Away /\ food = Away /\ score = Away
  /\ best = Away /\ ticking = Away /\ label = Away
NoMotions == cursor = Away /\ target = Away /\ round = Away /\ pending = Away
NoQuiz ==
  /\ quiz = Away /\ question = Away /\ answered = Away /\ points = Away /\ total = Away
  /\ streak = Away /\ bestStreak = Away /\ linger = Away /\ choices = Away
  /\ types = Away /\ asked = Away
NoMorse ==
  /\ keying = Away /\ training = Away /\ challenge = Away /\ hits = Away
  /\ timeLeft = Away /\ high = Away /\ keyed = Away /\ code = Away
  /\ challengeTimer = Away /\ letter = Away /\ wrong = Away
NoBarcode ==
  /\ kind = Away /\ text = Away /\ look = Away /\ libs = Away /\ runs = Away
  /\ requestId = Away /\ codeAsked = Away /\ codeShown = Away /\ generate = Away
  /\ downloads = Away /\ status = Away
NoVisits ==
  /\ route = Away /\ visitKind = Away /\ offset = Away /\ loads = Away /\ loadId = Away
  /\ rows = Away /\ failed = Away /\ prev = Away /\ next = Away /\ logScales = Away
  /\ charts = Away
NoCron == cronExpr = Away /\ boxes = Away /\ seconds = Away /\ preview = Away
NoCopy == copyLabel = Away /\ writing = Away /\ copyTimer = Away /\ oldTimers = Away
NoTime ==
  /\ active = Away /\ tsOut = Away /\ dateOut = Away
  /\ zoneDate = Away /\ zoneSource = Away /\ zonesShown = Away /\ zoneOut = Away
  /\ clock = Away /\ relDate = Away /\ relOut = Away
  /\ tabExpr = Away /\ tabBoxes = Away /\ tabPreview = Away /\ edits = Away
NoPixels ==
  /\ shape = Away /\ values = Away /\ mode = Away /\ thickness = Away /\ bias = Away
  /\ frame = Away /\ current = Away

ToolsInit ==
  /\ tool \in {"snake", "motions", "quiz", "morse", "barcode", "visits", "table", "cron",
               "copy", "time", "pixels"}
  /\ IF tool = "snake" THEN SnakeInit ELSE NoSnake
  /\ IF tool = "motions" THEN MotionInit ELSE NoMotions
  /\ IF tool = "quiz" THEN QuizInit ELSE NoQuiz
  /\ IF tool = "morse" THEN MorseInit ELSE NoMorse
  /\ IF tool = "barcode" THEN BarcodeInit ELSE NoBarcode
  /\ IF tool = "visits" THEN ChartsInit ELSE IF tool = "table" THEN TableInit ELSE NoVisits
  /\ IF tool = "cron" THEN CronInit ELSE NoCron
  /\ IF tool = "copy" THEN CopyInit ELSE NoCopy
  /\ IF tool = "time" THEN TimeInit ELSE NoTime
  /\ IF tool = "pixels" THEN PixelInit ELSE NoPixels

\* Nothing changes of any page but one.
OnlySnake  == UNCHANGED <<pixelVars, motionVars, quizVars, morseVars, codeVars,
                           visitVars, cronVars, copyVars, timeVars>>
OnlyMotion == UNCHANGED <<pixelVars, snakeVars, quizVars, morseVars, codeVars,
                           visitVars, cronVars, copyVars, timeVars>>
OnlyQuiz   == UNCHANGED <<pixelVars, snakeVars, motionVars, morseVars, codeVars,
                           visitVars, cronVars, copyVars, timeVars>>
OnlyMorse  == UNCHANGED <<pixelVars, snakeVars, motionVars, quizVars, codeVars,
                           visitVars, cronVars, copyVars, timeVars>>
OnlyCode   == UNCHANGED <<pixelVars, snakeVars, motionVars, quizVars, morseVars,
                           visitVars, cronVars, copyVars, timeVars>>
OnlyVisit  == UNCHANGED <<pixelVars, snakeVars, motionVars, quizVars, morseVars,
                           codeVars, cronVars, copyVars, timeVars>>
OnlyCron   == UNCHANGED <<pixelVars, snakeVars, motionVars, quizVars, morseVars,
                           codeVars, visitVars, copyVars, timeVars>>
OnlyCopy   == UNCHANGED <<pixelVars, snakeVars, motionVars, quizVars, morseVars,
                           codeVars, visitVars, cronVars, timeVars>>
OnlyTime   == UNCHANGED <<pixelVars, snakeVars, motionVars, quizVars, morseVars,
                           codeVars, visitVars, cronVars, copyVars>>
OnlyPixels == UNCHANGED <<snakeVars, motionVars, quizVars, morseVars, codeVars,
                           visitVars, cronVars, copyVars, timeVars>>

On(t) == tool = t /\ UNCHANGED tool
PlaySnake   == On("snake") /\ SnakeNext /\ OnlySnake
PlayMotions == On("motions") /\ MotionNext /\ OnlyMotion
PlayQuiz    == On("quiz") /\ QuizNext /\ OnlyQuiz
KeyMorse    == On("morse") /\ MorseNext /\ OnlyMorse
MakeCode    == On("barcode") /\ BarcodeNext /\ OnlyCode
SeeVisits   == On("visits") /\ ChartsNext /\ OnlyVisit
SeeTable    == On("table") /\ TableNext /\ OnlyVisit
UseCron     == On("cron") /\ CronNext /\ OnlyCron
CopyCron    == On("copy") /\ CopyNext /\ OnlyCopy
UseTime     == On("time") /\ TimeNext /\ OnlyTime
DrawPixels  == On("pixels") /\ PixelNext /\ OnlyPixels

ToolsNext ==
  \/ PlaySnake \/ PlayMotions \/ PlayQuiz \/ KeyMorse \/ MakeCode
  \/ SeeVisits \/ SeeTable \/ UseCron \/ CopyCron \/ UseTime \/ DrawPixels

toolVars == <<tool, snakeVars, motionVars, quizVars, morseVars, codeVars, visitVars,
              cronVars, copyVars, timeVars, pixelVars>>

ToolsSpec == ToolsInit /\ [][ToolsNext]_toolVars

(* What each page promises, while it is mounted. *)

\* Games: no two presses between two steps turn the snake upon itself and its
\* food can be eaten; w, b and e land where Vim's own would, and f on what it is
\* asked for; of the choices of a question one is right, none but capitals reads
\* like another, and an answer has its timer whatever others are pending; and
\* what is graded in Morse is graded under the challenge's clock (secret_snake.ts,
\* secret_motion.ts, secret_countries.ts, secret_vimquiz.ts, secret_morse.ts).
GamesAreFair ==
  /\ tool = "snake" => SnakeIsFair
  /\ tool = "motions" => WordMotionsAreVims
  /\ tool = "quiz" => QuizGoesOn /\ OneIsRight
  /\ tool = "morse" => ChallengeIsTimed

\* The code to be downloaded is the one asked for last whatever order the
\* libraries and the runs end in; the charts and the table show the filter that
\* is set, or the newest request's error, in whatever order the answers come,
\* except where the table shows a refusal whose body came late; and the table is
\* never turned past its end (secret_barcode.ts, secret_visits.ts,
\* secret_admin_visits.ts).
LatestIsShown ==
  /\ tool = "barcode" => LatestCodeIsShown
  /\ tool = "visits" => NewestLoadIsShown /\ ChartsAreScaled
  /\ tool = "table" => (NewestLoadIsShown \/ LateRefusal) /\ OffsetIsInTheTable

\* Cron and time: the runs, the words, the boxes and the expression say one
\* thing, the button that copies returns to its word, and zones, phrases and
\* runs are told right (secret_cron.ts, secret_time.ts).
TimesAreTold ==
  /\ tool = "cron" => CronPageAgrees
  /\ tool = "copy" => CopyReturns
  /\ tool = "time" => TimeIsTold

\* Pixels: an outline is closed (secret_pixels.ts: "No diagonal gaps to see
\* through"), the deepest wall leaves nothing inside whatever the bias, and what
\* is painted, listed and saved is the shape, mirrored where it is and in the
\* middle of its picture.
PixelsRight ==
  tool = "pixels" => OutlineIsClosed /\ DeepestWallIsSolid /\ PictureIsTheShape
=============================================================================
