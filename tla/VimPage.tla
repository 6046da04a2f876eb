------------------------------ MODULE VimPage ------------------------------
(* The Vim page (frontend/src/secret_vim.ts): an editor fetched from a CDN, *)
(* built once and kept across visits, shared by a playground and a          *)
(* challenge, with games that take over the panel and the keyboard.  One    *)
(* record; Site makes actions of the operators.                             *)
EXTENDS Naturals, FiniteSets

Core == "core"
Scripts == {Core, "vim"}              \* the library, and an add-on it needs
BufferTexts == {"sample", "own", "start", "target"}
Games == {"snake", "motions", "quiz"}
Keyed == {"snake", "motions"}         \* games that listen on the window

\* tag: the <script> elements of the head; stage and asked: the build in
\* progress, or "none" and "built"; text: the editor's.  The rest belongs to
\* the mount: is it up, is the editor in it, its mode, the playground's text
\* put aside, the game on the panel, its listeners, the message of a failure.
VimInit == [tag |-> [s \in Scripts |-> "absent"], stage |-> "none", asked |-> {},
            text |-> "sample", typed |-> FALSE,
            up |-> FALSE, cm |-> FALSE, mode |-> "playground",
            playgroundBuffer |-> "sample", solved |-> FALSE, game |-> "none",
            escape |-> FALSE, keys |-> 0, failed |-> FALSE]

\* loadScript: a script that is in the head already resolves at once.
LoadScripts(v, S) ==
  LET new == {s \in S : v.tag[s] = "absent"} IN
  [v EXCEPT !.asked = @ \cup new,
            !.tag = [s \in Scripts |-> IF s \in new THEN "loading" ELSE @[s]]]

Awaited(v) == {s \in v.asked : v.tag[s] = "loading"}

\* loadChallenge.
LoadChallenge(v) == [v EXCEPT !.solved = FALSE, !.text = IF v.cm THEN "start" ELSE @]

\* The promise has rejected: it is forgotten, and a page that waits says so.
Rejected(v) == [v EXCEPT !.stage = "none", !.failed = v.up]

\* The editor is there: a page that is still up takes it.
Resolved(v) ==
  IF ~v.up THEN v
  ELSE LET w == [v EXCEPT !.cm = TRUE] IN
       IF w.mode = "challenge" THEN LoadChallenge(w) ELSE w

\* buildEditor between two awaits: the core, then the add-ons, then the
\* editor, which needs both to have run.
BuildStep(v) ==
  CASE v.stage = "core" -> LoadScripts([v EXCEPT !.stage = "addons"], Scripts \ {Core})
    [] v.stage = "addons" /\ \A s \in Scripts : v.tag[s] = "ok"
       -> Resolved([v EXCEPT !.stage = "built", !.text = "sample"])
    [] OTHER -> Rejected(v)

CanBuild(v) == v.stage \in {"core", "addons"} /\ Awaited(v) = {}

\* A script of the head has loaded or not; the build that waits for it fails.
ScriptEnds(v, s, ok) ==
  LET w == [v EXCEPT !.tag[s] = IF ok THEN "ok" ELSE "failed"] IN
  IF ok \/ v.stage \notin {"core", "addons"} \/ s \notin v.asked THEN w
  ELSE Rejected(w)

\* disposeGame: the game on the panel takes its own listener away.
DisposeGame(v) == [v EXCEPT !.game = "none",
                            !.keys = IF v.game \in Keyed THEN @ - 1 ELSE @]

\* disposeVim.
DisposeVim(v) == [DisposeGame(v) EXCEPT !.up = FALSE, !.cm = FALSE,
                                        !.escape = FALSE, !.failed = FALSE]

\* The page's default export.
MountVim(v) ==
  LET w == [DisposeVim(v) EXCEPT !.up = TRUE, !.mode = "playground",
                         !.playgroundBuffer = "sample", !.solved = FALSE] IN
  CASE w.stage = "none" -> LoadScripts([w EXCEPT !.stage = "core", !.asked = {}], {Core})
    [] w.stage = "built" -> Resolved(w)
    [] OTHER -> w

\* enterMode: before the editor is there only the wish is noted.
EnterMode(v, next) ==
  IF next = v.mode THEN v
  ELSE IF ~v.cm THEN [v EXCEPT !.mode = next]
  ELSE LET w == [v EXCEPT !.mode = next,
                          !.playgroundBuffer = IF v.mode = "playground"
                                               THEN v.text ELSE @] IN
       IF next = "challenge" THEN LoadChallenge(w)
       ELSE [w EXCEPT !.text = w.playgroundBuffer]

\* An edit, and checkSolved on it.
EditBuffer(v, text) == [v EXCEPT !.text = text, !.typed = @ \/ text = "own",
                           !.solved = @ \/ (v.mode = "challenge" /\ text = "target")]

\* launchGame: the menu of `:games`, or a game, which may listen on the window.
LaunchGame(v, name) ==
  [DisposeGame(v) EXCEPT !.game = name, !.escape = TRUE,
                         !.keys = IF name \in Keyed THEN @ + 1 ELSE @]

ReturnToEditor(v) == [DisposeGame(v) EXCEPT !.escape = FALSE]
=============================================================================
