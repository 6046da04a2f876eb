-------------------------------- MODULE Site --------------------------------
(* One document of the site: the router (frontend/src/main.ts) with its     *)
(* history, the renders in flight, what #app shows, and two pages with a    *)
(* life of their own, the board of the front page and the Vim page.  The    *)
(* links between pages load a new document; what stays in one document are  *)
(* the calls of window.navigate and the Back and Forward buttons.           *)
EXTENDS Sequences, SequencesExt, Bags, HomeBoard, VimPage

CONSTANTS Entry,        \* the pages a document may be opened at
          MaxHistory,   \* entries of the session history (a bound)
          MaxCalls      \* renders in flight (a bound)

ASSUME SiteConstants == /\ Entry \subseteq STRING
                        /\ MaxHistory \in Nat \ {0} /\ MaxCalls \in Nat \ {0}

VARIABLES entries, at,  \* the session history and the place in it
          fetched,      \* pages whose chunk has been imported
          calls,        \* renders in flight
          app,          \* the pages whose markup #app holds, in order
          late,         \* addresses a page goes to once its request is answered
          health,       \* the cached answer of /health
          board, vim

router == <<entries, at, fetched, calls, app, late>>
vars == <<router, health, board, vim>>

Home == "/"
Secret == "/secret"
Vim == "/secret/vim"
Live == "/secret/live"
Room == "/secret/live/room"
Admin == "/secret/admin"
Login == "/secret/login"
Missing == "/missing"

Gated == {Live, Room, Admin, "/secret/notes", "/secret/notes/note", "/secret/account",
  "/secret/admin/visits", "/secret/admin/posts", "/secret/admin/projects",
  "/secret/admin/profile", "/secret/admin/details"}
Address == entries[at]

\* renderPage is suspended at the session, at a chunk, or, in the secret
\* menu's own renderer, at the session again.
Plus(cs, p, stage) == cs (+) SetToBag({[page |-> p, stage |-> stage]})
Minus(cs, c) == cs (-) SetToBag({c})

\* A page whose chunk is here is mounted: all replace #app but the menu,
\* which asks for the session and then adds itself to what is there.
Mounted(p, cs, dom, b, v) ==
  IF p = Secret THEN [calls |-> Plus(cs, p, "menu"), app |-> dom, board |-> b, vim |-> v]
  ELSE [calls |-> cs, app |-> <<p>>, board |-> b,
        vim |-> IF p = Vim THEN MountVim(v) ELSE v]

\* route.render: the import of the chunk, or the page when it is here.
RenderRoute(p, have, cs, dom, b, v) ==
  IF p \in have THEN Mounted(p, cs, dom, b, v)
  ELSE [calls |-> Plus(cs, p, "chunk"), app |-> dom, board |-> b, vim |-> v]

\* Mutant of Teardown: the Vim page is not torn down.
TeardownOfBoard(page, b, v) ==
  [board |-> IF page # Home THEN HideGame(b) ELSE b, vim |-> v]

\* What leaving for `page` tears down, of what has been loaded.
Teardown(page, b, v) ==
  [board |-> IF page # Home THEN HideGame(b) ELSE b,
   vim |-> IF page # Vim /\ Vim \in fetched THEN DisposeVim(v) ELSE v]

Becomes(r) == /\ calls' = r.calls /\ app' = r.app
              /\ board' = r.board /\ vim' = r.vim

HomeShown(cs, b, v) == [calls |-> cs, app |-> <<Home>>, board |-> Mount(b), vim |-> v]

\* renderPage at an address, the calls in flight being cs: the teardown, the
\* old path of the sign-in, the front page for an unknown path, the gate.
RenderPage(es, i, cs) ==
  LET page == es[i]
      t == Teardown(page, board, vim) IN
  /\ fetched' = fetched
  /\ entries' = CASE page = Login -> [es EXCEPT ![i] = Secret]
                  [] page = Missing -> Append(SubSeq(es, 1, i), Home)
                  [] OTHER -> es
  /\ at' = IF page = Missing THEN i + 1 ELSE i
  /\ Becomes(CASE page \in {Home, Missing} -> HomeShown(cs, t.board, t.vim)
               [] page = Login -> RenderRoute(Secret, fetched, cs, <<>>, t.board, t.vim)
               [] page \in Gated -> [calls |-> Plus(cs, page, "gate"), app |-> <<>>,
                                     board |-> t.board, vim |-> t.vim]
               [] OTHER -> RenderRoute(page, fetched, cs, <<>>, t.board, t.vim))

\* navigateImpl: nothing when the address is the one shown.
Navigate(p, cs) ==
  IF p = Address THEN calls' = cs /\ UNCHANGED <<entries, at, fetched, app, board, vim>>
  ELSE RenderPage(Append(SubSeq(entries, 1, at), p), at + 1, cs)

\* Room for one more render and mount, and for one more entry.
Roomy == BagCardinality(calls) < MaxCalls /\ FreeSlots(board) # {}
Bounded == Roomy /\ at < MaxHistory

\* The browser's Back and Forward.
PopState(i) ==
  /\ i \in DOMAIN entries /\ i \in {at - 1, at + 1}
  /\ Roomy
  /\ RenderPage(entries, i, calls)
  /\ UNCHANGED <<late, health>>

\* /auth/me answers a gate: without a fitting session the visitor is sent to
\* the menu; with one the page goes on if the address is still its own.
GateAnswers(c, allowed) ==
  /\ c \in BagToSet(calls) /\ c.stage = "gate"
  /\ UNCHANGED <<late, health>>
  /\ IF ~allowed
     THEN Bounded /\ Navigate(Secret, Minus(calls, c))
     ELSE /\ UNCHANGED <<entries, at, fetched>>
          /\ IF Address # c.page
             THEN calls' = Minus(calls, c) /\ UNCHANGED <<app, board, vim>>
             ELSE Becomes(RenderRoute(c.page, fetched, Minus(calls, c), app, board, vim))

\* A chunk arrives, and its page is mounted.
ChunkArrives(c) ==
  /\ c \in BagToSet(calls) /\ c.stage = "chunk"
  /\ fetched' = fetched \cup {c.page}
  /\ Becomes(Mounted(c.page, Minus(calls, c), app, board, vim))
  /\ UNCHANGED <<entries, at, late, health>>

\* The secret menu has asked for the session and adds itself.
MenuAppears(c) ==
  /\ c \in BagToSet(calls) /\ c.stage = "menu"
  /\ calls' = Minus(calls, c) /\ app' = Append(app, Secret)
  /\ UNCHANGED <<entries, at, fetched, late, health, board, vim>>

(* The front page. *)

HealthAnswers(ok) ==
  /\ health = "asked" /\ Shown(board)
  /\ health' = IF ok THEN "up" ELSE "down"
  /\ UNCHANGED <<router, board, vim>>

BoardStep(b) == board' = b /\ UNCHANGED <<router, health, vim>>

GameLoads(s, ok) == board.mounts[s].loading /\ BoardStep(GameLoaded(board, s, ok))
DrawFrame(s) == board.mounts[s].frames > 0 /\ BoardStep(Frame(board, s))
TogglePower == Shown(board) /\ BoardStep(Power(board))
ClickIsGivenBack == board.timers > 0 /\ BoardStep(GiveBack(board))

\* Ground is seen through only once the game draws and /health has answered.
SeesThrough == health = "up" /\ Current(board).loaded

Presses(p, left, what) ==
  /\ Shown(board) /\ ~Current(board).disabled /\ p \notin board.hands.touching
  /\ what # "ground" => left /\ SeesThrough
  /\ BoardStep(PointerDown(board, p, left, what))
Moves(p, far) == Shown(board) /\ p \in Down(board) /\ BoardStep(PointerMove(board, p, far))

\* Every way to the menu from the front page: Escape and the last click once
\* the backend has answered, the buttons of signed-in visitors.
GoToMenu == Bounded /\ Navigate(Secret, calls) /\ UNCHANGED <<late, health>>

Counts == IF Leads(board) THEN GoToMenu ELSE BoardStep(CountSecretClick(board))

\* A pointer is released, over the board or, `hidden`, over one that is not
\* there, which may miss it: once in a mount (a bound).
Releases(p, hidden) ==
  /\ Shown(board) /\ p \in board.hands.touching
  /\ hidden => Current(board).disabled /\ ~board.hands.missed
  /\ BoardStep(IF hidden THEN MissRelease(board, p) ELSE EndStroke(board, p))

\* A click on the board that ends no drag, or on the bare page when disabled.
ClicksTheGround ==
  /\ Shown(board) /\ health = "up"
  /\ ~Current(board).disabled => board.hands.touching = {} /\ ~board.hands.dragged
  /\ Counts
Escapes == Shown(board) /\ health = "up" /\ GoToMenu
SecretButton == Shown(board) /\ GoToMenu

(* The Vim page. *)

VimStep(v) == vim' = v /\ UNCHANGED <<router, health, board>>

\* Its own controls answer while its markup is what #app holds; markup added
\* after it turns it into a copy nothing listens to.
VimLive == app = <<Vim>> /\ vim.up
Editing == VimLive /\ vim.cm /\ vim.game = "none"

ScriptAnswers(s, ok) == vim.tag[s] = "loading" /\ VimStep(ScriptEnds(vim, s, ok))
Builds == CanBuild(vim) /\ VimStep(BuildStep(vim))
Types(text) ==
  /\ Editing /\ text \in (IF vim.mode = "playground" THEN {"own"} ELSE {"start", "target"})
  /\ text # vim.text /\ VimStep(EditBuffer(vim, text))
ChoosesMode(m) == VimLive /\ vim.game = "none" /\ m # vim.mode /\ VimStep(EnterMode(vim, m))
Resets == VimLive /\ vim.game = "none" /\ vim.mode = "challenge" /\ VimStep(LoadChallenge(vim))
Launches(g) ==
  /\ VimLive /\ vim.cm
  /\ vim.game = "none" \/ (vim.game = "menu" /\ g # "menu")
  /\ VimStep(LaunchGame(vim, g))
LeavesGame == vim.escape /\ VimStep(ReturnToEditor(vim))
Quits == Editing /\ Bounded /\ Navigate(Secret, calls) /\ UNCHANGED <<late, health>>

(* The other pages of a document. *)

\* Starting a room and logging out ask the backend first, and go where they
\* go when it has answered, wherever the visitor is by then.
Asks(on, to) ==
  /\ app = <<on>> /\ to \notin late /\ late' = late \cup {to}
  /\ UNCHANGED <<entries, at, fetched, calls, app, health, board, vim>>
OpensRoom == Asks(Live, Room)
LogsOut == Asks(Admin, Secret)
Answered(to) ==
  /\ to \in late /\ late' = late \ {to}
  /\ Bounded /\ Navigate(to, calls) /\ UNCHANGED health

Init ==
  \E p \in Entry :
    LET c0 == EmptyBag
        first == IF p = Missing THEN <<p, Home>> ELSE <<IF p = Login THEN Secret ELSE p>>
        r == CASE p \in {Home, Missing} -> HomeShown(c0, BoardInit, VimInit)
               [] p \in Gated -> [calls |-> Plus(c0, p, "gate"), app |-> <<>>,
                                  board |-> BoardInit, vim |-> VimInit]
               [] OTHER -> RenderRoute(IF p = Login THEN Secret ELSE p, {}, c0, <<>>,
                                       BoardInit, VimInit) IN
    /\ entries = first /\ at = Len(first) /\ fetched = {}
    /\ calls = r.calls /\ app = r.app /\ board = r.board /\ vim = r.vim
    /\ health = "asked" /\ late = {}

BoardNext ==
  \/ \E s \in 1..Slots : DrawFrame(s) \/ \E ok \in BOOLEAN : GameLoads(s, ok)
  \/ \E ok \in BOOLEAN : HealthAnswers(ok)
  \/ TogglePower \/ ClickIsGivenBack \/ ClicksTheGround \/ Escapes \/ SecretButton
  \/ \E p \in Pointers : \/ \E hidden \in BOOLEAN : Releases(p, hidden)
                         \/ \E far \in BOOLEAN : Moves(p, far)
                         \/ \E left \in BOOLEAN, what \in {"ground", "scrollbar", "photo"} :
                              Presses(p, left, what)

VimNext ==
  \/ Builds \/ Resets \/ LeavesGame \/ Quits
  \/ \E s \in Scripts, ok \in BOOLEAN : ScriptAnswers(s, ok)
  \/ \E t \in BufferTexts : Types(t)
  \/ \E m \in {"playground", "challenge"} : ChoosesMode(m)
  \/ \E g \in Games \cup {"menu"} : Launches(g)

Next ==
  \/ \E i \in {at - 1, at + 1} : PopState(i)
  \/ \E c \in BagToSet(calls) : \/ ChunkArrives(c) \/ MenuAppears(c)
                               \/ \E allowed \in BOOLEAN : GateAnswers(c, allowed)
  \/ OpensRoom \/ LogsOut \/ (\E p \in {Room, Secret} : Answered(p)) \/ BoardNext \/ VimNext

Spec == Init /\ [][Next]_vars

(* What should hold of it. *)

\* The game asks for one frame at a time, only for the board that is up and not
\* disabled, and never stops asking there: however loading, the power button
\* and the teardown interleave (secret_canvas.ts: powerBtn, teardown, loop).
FramesBelongToTheBoard ==
  \A s \in 1..Slots :
    LET m == board.mounts[s] IN
    /\ m.frames = 0 \/ (s = board.slot /\ m.frames = 1 /\ ~m.disabled)
    /\ s = board.slot /\ m.loaded /\ ~m.disabled => m.frames = 1

\* A click the visitor was warned of is given back, once, also when the page is
\* left before its five seconds are over: the counter and the clicks still to
\* be given back add up (secret_canvas.ts: countSecretClick, teardown).
ClicksAreGivenBack ==
  /\ board.secret_counter + board.timers >= Warned - 1
  /\ board.timers > 0 => board.secret_counter + board.timers = Warned - 1
  /\ ~Shown(board) => board.timers = 0

\* The ground wears away under the pointer only while the pointer of a stroke is
\* down, whichever of two pointers presses, drags the scrollbar or is released
\* first, unless the power button hid the board and a release was not heard
\* (secret_canvas.ts: pointerdown, endStroke, powerBtn).
HoldEndsWithTheStroke ==
  LET h == board.hands IN
  h.hold # 0 => h.stroke # NoPointer /\ (h.stroke \in h.touching \/ h.missed)

\* A game has its keys only while it is on the panel of the Vim page, and the
\* rest of the site gets them back however the page is left (secret_vim.ts:
\* disposeVim; main.ts: renderPage).
KeysComeBack ==
  /\ vim.keys = (IF vim.game \in Keyed THEN 1 ELSE 0)
  /\ vim.escape => Vim \in Range(app) /\ vim.up
  /\ vim.game # "none" => vim.escape
=============================================================================
