# Verification of AndrewMcCall

TLA+ models of the web application in `src/`: a Rust backend (hyper, sqlx,
PostgreSQL) and a TypeScript front end without a framework. The models follow the
program's own state: the **live rooms** (video calls over WebRTC, with an
in-memory registry, event streams and a mesh of peer connections) and their page;
the **notes** (documents with a name index in the database, edited by a page that
saves by itself and keeps drafts); the **accounts** (PINs, sessions, a second
factor and its recovery codes, and the pages that use them); the **commit sync**;
the **document of the site** (router, front page, Vim page); and the **tool
pages**, among them a cron engine and a rasteriser.

Contents: [the system](#the-system), [what is hard](#what-is-hard),
[the modules](#the-modules), [the runs](#the-runs), [bounds](#bounds),
[fairness](#fairness), [the proofs](#the-proofs), [findings](#findings),
[what was seen besides](#what-was-seen-besides),
[what is left out](#what-is-left-out), [the plan](#the-plan).

## The system

| component | state it keeps | operations | speaks to |
|---|---|---|---|
| Live registry (`live/state.rs`, `live/mod.rs`) | one mutex around a map of rooms (title, opener, next sequence, peers) and a list of lobby senders | join, leave (a drop guard), set_sources, relay, watch_lobby, keepalive | pushes frames into the channel behind each open event stream |
| Event streams (`response.rs`, `live/event.rs`) | an unbounded channel each; the body owns the guard | a frame is sent, a body is dropped | registry to browser |
| Roster (`live/roster.ts`) | the people a page shows | `apply` one frame | read by the mesh and the tiles |
| Mesh (`live/mesh.ts`, `negotiation.ts`) | one `RTCPeerConnection` per other person, early candidates | add, signal, remove | POSTs offers, answers and candidates; the registry relays them |
| Room page (`secret_live_room.ts`, `live/api.ts`, `media.ts`) | per visit: event source, own sources; per tab: `leave`, `tracks` | start, join, rejoin, toggle, dispose | registry, roster and mesh |
| Notes backend (`notes/mod.rs`, `notes/index.rs`) | rows of `notes`, derived rows of `note_names`, tags, properties, links | create, update, delete, restore, reindex at boot | PostgreSQL, under READ COMMITTED |
| Notes page (`notes/index.ts`, `notes/api.ts`) | open note, buffer, `dirty`, `saving`, `offline`, two timers | typing, autosave, open, new, delete, restore, hide, leave | the backend; `localStorage` |
| Browser storage (`NotesStore`) | drafts by note id or `new`, cached notes | save, read, clear | shared by all tabs of a browser |
| Accounts (`auth.rs`) | rows of users, `user_tokens`, `user_recovery_codes` | log in and out, `/auth/me`, change PIN, set up, enable and disable the second factor | PostgreSQL, a statement at a time |
| Account pages (`secret_login.ts`, `secret_account.ts`, `secret_admin.ts`) | sign-in form, PIN form, second factor's panel | submit, confirm, cancel | the accounts, with answers in any order |
| Commit sync (`github.rs`) | `github_commits`, the stored etag | a loop: ask, insert, prune, save the etag | GitHub, PostgreSQL, one setting of the profile |
| Content (`posts.rs`, `site.rs`) | posts and reviews, profile settings, projects | save, publish, delete, reorder | PostgreSQL |
| Visits and statistics (`logs.rs`, `stats.rs`, `visit_class.rs`) | rows of visits | insert, aggregate | PostgreSQL |
| Router (`main.ts`, `session.ts`) | the history, the renders in flight, `#app` | navigate, Back, gate, mount, tear down | every page |
| Front page (`secret_canvas.ts`) | mounts of a board, a counter of clicks, pointers | power, frames, clicks, strokes | a WebAssembly game, the router |
| Vim page (`secret_vim.ts`) | an editor from a CDN, mode, game, key listeners | load, build, edit, launch and quit games | the games on its panel |
| Tool pages (`secret_snake.ts`, `secret_motion.ts`, `secret_vimquiz.ts`, `secret_countries.ts`, `secret_morse.ts`, `secret_barcode.ts`, `secret_visits.ts`, `secret_admin_visits.ts`, `secret_cron.ts`, `secret_time.ts`, `secret_pixels.ts`, `pixels/`) | one visitor's page each | keys, timers, requests, calculations | browser timers, the backend for data |

`PROJECT.json` lists all components, also those that are not modelled, with the
reason.

What has to be true of each, in a sentence:

* **Registry.** A room exists exactly while somebody is in it, keeps its title,
  never overfills, and whoever is in it is certain to be taken out again.
* **Streams and rosters.** A page that has read everything shows its room as it
  is, although it is told of changes only.
* **Mesh.** Of two people exactly one offers; each description finds its
  connection in the state that can take it; a pair comes to be connected.
* **Room page.** A tab is in one room; what it captures it can stop; what its
  buttons say is what the room is told.
* **Notes backend.** A note has one first name, a name leads to one note, a name
  once given keeps working, everything indexed can be read in the text, and no
  save overwrites what it has not seen.
* **Notes page.** Nothing typed is lost; no text ends up in another note; the
  buffer and the note under it belong together; drafts do not outlive their use.
* **Accounts.** A recovery code works once; a changed PIN ends the sessions of the
  old one; a second factor that is on has the codes that were last given for it;
  codes that a page shows are those that work.
* **Commit sync.** The etag vouches for stored rows only; the loop catches up.
* **Document.** One page at a time is alive; what a page took (keys, frames,
  clicks) it gives back when it is left, at whatever moment that is.
* **Tools.** What is shown answers what was asked last; rounds cannot get stuck, and a
  question has one right choice; times, words and pixels are computed as their own
  definitions say.

Where the code breaks its sentence, the run is among the [findings](#findings), or the
exception is named in the property and among [what was seen](#what-was-seen-besides).

## What is hard

The hazards are in `PROJECT.json`, each at its line. In groups:

* *Incremental views.* A page sees a hello and then deltas. The roster in the
  hello, the insertion of the joiner and the announcement to the others have to
  be one step against every other change of the room (`state.rs:250-300`).
* *Crashed clients.* A connection that dies without a FIN stays in the room until
  a keepalive write fails. Between those two moments a page is dead and listed.
* *Distributed decisions.* Two pages decide by themselves who offers, from
  rosters that lag, and exchange their descriptions in independent requests.
* *Gaps at `await`.* `add`, `signal`, `flushSave`, `open`, `start`, `toggle` and
  `renderPage` read state before an await and use it after; the page has changed
  meanwhile, or is gone.
* *Closures that outlive their page.* A visit, a mount, a notes page goes on after
  its teardown for as long as an answer, a frame or a permission is awaited.
* *Transactions, and statements without one.* A name found free is not reserved.
  Inserts of the same key wait for one another, in a circle if need be. A PIN is
  compared, written and its sessions ended in three statements.
* *Crash and restart.* The registry forgets everything at a restart. The
  reindexer and the commit sync stop between two rows. A tab dies between typing,
  draft and save.
* *Lost answers.* A save whose answer is lost has happened; the retry meets its
  own version as a conflict.
* *Overtaking.* POSTs, answers, chunks and libraries arrive in another order than
  they were asked for.
* *Timers.* A round, a letter, a copied word or a click given back ends with a
  timer that may belong to something already over.

## The modules

```
LiveMembership         what a room promises (abstract)
      ^ refines
LiveRooms <-- LiveRoomsRefinement <-- MCLiveRooms (TLC)
   ^  ^ ^----- LiveRoomsProofs (TLAPS)
   |  |
   |  LiveMesh <-- LiveMeshProofs (TLAPS), MCLiveMesh (TLC)
   LivePage  <-- LivePageProofs (TLAPS), MCLivePage (TLC)

Accounts <-- AccountPages <-- AccountsProofs (TLAPS), MCAccounts (TLC)
CommitSync <-- CommitSyncProofs (TLAPS); TLC directly
NotesIndex <-- NotesIndexProofs (TLAPS), MCNotesIndex (TLC)
NotesEditor <-- NotesEditorProofs (TLAPS), MCNotesEditor (TLC)

HomeBoard, VimPage <-- Site ------------------------------\
CronEngine <-- CronPage, TimePage ---\                      MCPages (TLC) <-- PagesProofs (TLAPS)
SnakeGame, MotionsGame, QuizRounds,  --> Tools ------------/
MorseKeyer, BarcodePage, VisitTables,
PixelShapes -------------------------/
```

Beside its properties a module holds *mutants*: operators that change a
definition of the model the way a plausible slip in the code would. Each is
marked in its comment. Putting it in place of the original breaks a property, so
every property is known to be able to fail. *History* variables, marked too, only
record what a property speaks of; no guard reads them.

### LiveRooms

The registry, the streams it feeds and the rosters read from them. Every
registry operation is one step, because each takes the mutex for all it does.

| in the model | in the code |
|---|---|
| `room`, `peers` | `Registry.rooms`, `Room.peers` |
| `conn`, `home` | a stream's body and the `PeerGuard` it owns: `live` while the browser reads, `lost` when it no longer does, `gone` after the drop |
| `stream`, `view` | a peer's channel; the roster of `roster.ts` |
| `lobby`, `watch`, `lobbyStream`, `lobbyView` | `Registry.lobby`, the lobby's bodies, their channels and what `secret_live.ts` shows |
| `Join`, `Leave`, `SetSources`, `Relay` | `Live::join`, `PeerGuard::drop` and `Live::leave`, `set_sources`, `relay`, with the checks of their handlers |
| `WatchLobby`, `Keepalive`, `TellLobby` | `watch_lobby`, `keepalive`, `tell_lobby` |
| `Read`, `ReadLobby`, `Apply` | the page's event handlers and `roster.ts` `apply` |
| `Disconnect`, `LeaveLobby`, `Restart` | what happens to browsers and to the process |

A peer id is a value of `Peer` that is never drawn twice, like the uuid it stands
for. A frame is a record without its encoding. The four source flags are one
value of `Source`.

### LiveMembership and LiveRoomsRefinement

`LiveMembership` knows no frames. A room has a current membership; a page is owed
the memberships since its own arrival and is shown them one after the other,
whole, in order, none left out. `LiveRoomsRefinement` maps the implementation to
it: what a page is owed is what it will have shown after each unread frame
(`ToShow`, `Apply` along the stream, signals skipped). That the detailed specification
implements the abstract one says that hello and deltas are as good as sending
the whole room each time.

### LiveMesh

`LiveMesh` extends `LiveRooms` and adds each page's connections and the requests
on their way. A connection is followed through the awaits of `add` and `signal`:
`offering` (local description under way), `offered`, `applying` (remote
description under way), `answering`, `draining` (early candidates being added),
`stable`. `Handle` reads a frame and runs the handler to its first await;
`Proceed` is the return from an await. POSTs are a set, so they overtake one
another, as separate requests that are each looked up in the database do.
One candidate per end of a connection is followed, which is enough for a
candidate to arrive before, during and after any description.

### LivePage

`LivePage` extends `LiveRooms` with one tab's visits to room pages. A value of
`visits` is the closure of one call of the page's function: it goes on after its
page was left, for as long as the relay list or a camera permission is awaited.
`leave` and `track` are the module's variables, one for each tab.

| in the model | in the code |
|---|---|
| `Enter`, `Exit` | the router calls the page, and `disposeLiveRoom` |
| `Start` | `start` after `iceServers()`: the stream there was is closed, a new one is opened |
| `Connect`, `Refused`, `Unreachable`, `Ends`, `Breaks` | what happens to an `EventSource`, which tries again by itself unless it was refused |
| `Reads`, `Greeted`, `Changes`, `Dropped` | the `hello` handler, the others, the `error` handler |
| `Toggle`, `Granted`, `Denied`, `SetTrack`, `TrackEnded` | the buttons, `getUserMedia`, `setTrack`, the browser's own stop |
| `Announces`, `Delivered`, `Fails` | `postSources`: POSTs that nothing orders or repeats |
| `SomebodyComes`, `SomebodyGoes`, `Notices`, `ServerRestarts` | another browser, hyper, the process |

One source stands for the four, which are independent. Two history variables name
the exceptions the code leaves: `hasty`, tabs that were left while something was
awaited, and `muddled`, ids two of whose POSTs were under way together, or one of
whose failed.

### NotesIndex

Handlers are transactions of several statements. `Begin` is everything up to the
names: the row lock, the check of the version, the row written; `Allocate` is one
probe of `allocate_primary`; `InsertPrimary` and `InsertAlias` are the inserts of
`sync_index`, each of which waits for a transaction that has inserted or deleted
the same key (`Blocked`); `Commit`; and `Reload`, which is `load_full` after the
transaction. `Cancel` is PostgreSQL ending a deadlock. `Crash` and `ReindexAll`
are the process going down, and its boot, which reindexes note by note before it
listens.

A text is what names depend on: whether it has frontmatter, the slug of its
title, the slugs of its aliases. A slug is a sequence, so that `a-2` is
`<<a, 2>>` and can collide with an alias somebody typed.

### NotesEditor

One value of `Page` is one instance of `notesPage`, from boot to teardown; after
teardown it still has timers and awaits answers. The pages share `drafts` and
`cache`, the browser's storage, and `notes`, the server.

| in the model | in the code |
|---|---|
| `Type`, `Rename` | `onInput` and `onRename` with `markDirty` |
| `DraftTimer`, `SaveTimer`, `SaveNow` | the timers of 400 ms and 1.5 s, Ctrl-S |
| `Hide` | `visibilitychange`, and teardown: draft, then `flushSave` |
| `Flush`, `ServerSave`, `SaveDone`, `IndexDone` | `flushSave` to its await, the request, the answer, the index after it |
| `Adopted`, `Undrafted`, `Discard`, `Keep` | the branches after the answer; the conflict dialogue |
| `Open`, `OpenDone`, `Show`, `StartNew`, `Resume` | `open` before and after its await, `startNew`, the mode button |
| `Delete`, `Restore` | the handlers of the reader and of the trash |
| `GoOffline`, `GoOnline`, `Kill`, `Lose`, `Elsewhere` | the environment: connection, tabs that die, answers that are lost, another browser |

A text is a set of words, each typed once, so that "is kept" and "belongs to"
can be asked of each word. `-w` stands for the alias the server writes into the
frontmatter when word `w` is a new title, the case in which an answer's text is
not the text that was sent.

**Patience.** With `Patient = TRUE` people wait until the page says *saved*
before they open, begin or delete another note; they work in one page at a time;
they do not type while a note is being created or fetched; and they do not type
into a text that belongs to no note. The assumption is not something the code
enforces, and each part of it excludes something the code really does:

* opening a note while a save is under way (`index.ts:203`): the answer to a save becomes
  the open note whichever note is open by then, under the other note's buffer;
* typing while a note is being created, whose answer clears the draft under `new`
  with the new words in it (`:208`);
* a save timer that meets a save still waiting for the index, and is not set
  again (`:191`; the words stay in the draft, so nothing is lost);
* deleting a note with unsaved words, after which the page is still dirty and its
  timer creates an empty note (`:387`);
* failing to open a note that is not cached, after which the buffer of the note
  before it is still there and has no note (`:470`);
* two tabs on one note, whose drafts share a key.

For people with that patience the properties below hold through every crash, lost
answer and conflict. They say nothing about the first case of the list, in which
`TextStaysInItsNote` and `BufferIsTheNote` both fail: without the assumption TLC finds
either failure in about ten steps.

### Accounts and AccountPages

`Accounts` is `auth.rs` with every statement a step, since a handler gives up
control at each and several handlers work on one account. A request is a record
that moves from stage to stage until it is an answer on its way.

| in the model | in the code |
|---|---|
| `users`, `codes`, `tokens` | the rows of `users`, `user_recovery_codes`, `user_tokens` |
| `LoadUsers`, `Consume`, `Mint` | `login`: the PIN is verified, the second factor, the session |
| `Authenticate`, `Tell` | `authenticate`, `me` |
| `VerifyPin`, `ComparePins`, `WritePin`, `RevokeOthers` | `change_pin` |
| `MakeSecret`, `Enable` | `totp_setup`; `totp_enable`, one transaction |
| `CheckFactor`, `ClearSecret`, `WipeCodes` | `totp_disable` |
| `Unset` | `logout` |
| `StatementFails`, `Dropped` | a statement that fails; hyper drops the handler of a connection that has gone, wherever it waits |

A hash is what it is a hash of, a current code of a secret is named by the
secret, and one recovery code stands for the ten of a batch. `redeemed`, `ended`,
`enrolled` and `unheard` (a request whose page had gone has written the factor) are
histories. `AccountPages` puts the pages in front: the
dropdown that signs in (`slot`), the PIN form of a desk and of a phone (`form`),
the panel of the second factor (`panel`), and the cookies. Answers come in any
order or not at all (`Delivered`, `Breaks`). The admin page may be left, or loaded
again, at any moment (`ReopensPanel`): the router's gate hands over the factor as it
is then, so the panel is off after a disabling that got no further than its first
statement, and the requests of the earlier visit go on with nobody there for their
answers. With `Impatient = FALSE` nobody sends from a page that still awaits an
answer (`Awaited`); where the page does not see to that itself, that is an
assumption, and what happens without it is told [below](#what-was-seen-besides).

### CommitSync

The loop of `github.rs`: `Wakes`, `Answered`, one `Insert` per row, `Prune`,
`SaveEtag`, with `Fails` between any two, which stands for a refused request, a
failing statement and a restart, after each of which the loop begins again with
what is stored. GitHub and the profile are around it: `Push`, `Expire`,
`SetGithubUrl`. An etag is the feed it was given for, so that "not modified" says
what it says: the feed is this one.

### Site, HomeBoard and VimPage

`Site` is one document: the session history, the renders in flight (suspended at
the session, at a chunk, or in the menu), what `#app` holds, and requests after
which a page navigates, wherever the visitor is by then. `RenderPage` is
`renderPage` up to its first await, `GateAnswers`, `ChunkArrives` and
`MenuAppears` what follows each await, `Navigate` is `navigateImpl`, `PopState`
the browser's Back and Forward. The pages of a document that keep state of their
own when left are two records:

* `HomeBoard` (`secret_canvas.ts`): a *slot* is one mount, whose closure lives on
  while a load or a frame can call it; frames, the power button, the counter of
  clicks towards the menu and the timers that give clicks back, two pointers with
  their strokes and drags. A pointer released over a board that the power button has
  hidden may not be heard of (`MissRelease`).
* `VimPage` (`secret_vim.ts`): the scripts from the CDN, the one editor built and
  kept across visits, playground and challenge, and the games that take over the
  panel and the keyboard.

### Tools

Each tool page is a module, the state of its closure as variables and its event
listeners and timers as actions. `Tools` composes them: the router mounts one at
a time and none keeps anything for its next mount, so a behaviour is the life of
one page, and the variables of the others are `Away`.

| module | the page | what is modelled |
|---|---|---|
| `SnakeGame`, `MotionsGame`, `QuizRounds` | games of the Vim page, the countries quiz | steps on a timer, keys between steps, pause; the motions from `h` to `G` with `f` and `gg` over a flat text; rounds, choices, lingering answers |
| `MorseKeyer` | Morse | key, letter timers, drill, sixty-second challenge |
| `BarcodePage` | QR and bar codes | runs that await libraries, `requestId`, downloads |
| `VisitTables` | charts and table of visits | loads of a filter, answers in any order, paging |
| `CronEngine`, `CronPage` | cron | parsing, search for the next runs, words, boxes, seconds, presets, copy button |
| `TimePage` | time | timestamps, zones, relative time and its timer, the cron panel |
| `PixelShapes` | pixel shapes | ellipses, halves, quarters, squares, walls, diagonals, trimming, the painted picture |

The algorithms among them are operators, and the properties compare them with
definitions of their own: the next runs with a search of the whole calendar
(`CronPageAgrees`, `TimeIsTold`), the word motions with where Vim's would land
(`WordMotionsAreVims`), an outline with its closure (`OutlineIsClosed`), the deepest
wall with the filled shape (`DeepestWallIsSolid`).

### The modules for TLC

`MCLiveRooms` adds `scope`: a behaviour is about three people in one crowded room
or about two rooms and their lobby pages. It draws ids in order, which stands for
symmetry where liveness is checked, as `MCLiveMesh` does. `MCPages` has `PagesSpec`:
a behaviour is the life of a tool page or of a document of the site. The others name
the values of constants that a `.cfg` cannot write.

## The runs

*Pass* means that TLC explored every reachable state of the instance.

| run | states | instance | what it shows |
|---|---|---|---|
| `rooms` | 24 432 | three people and two seats; two people, two rooms, two titles, two lobby pages; under fairness | `RoomIsItsPeople`, `CaughtUpIsCurrent`, `OneOfAPairOffers`, `SignalsComeFromTheRoster`, `LobbyCaughtUpIsCurrent`, `ImplementsMembership`, `RoomKeepsItsPlate`, `NoGhosts`, `ClosedWatchersAreForgotten` |
| `call` | 40 329 | two seats, three connections, candidates, lost requests; under fairness | `NoGlare`, `ConnectionsAreOnTheRoster`, `SignalsFindTheirState`, `NothingIsLeftEarly`, `PairsConnect` |
| `candidates` | | two people | *violation* of `CandidatesAreKept` |
| `page` | 1 023 561 | two visits of a tab, somebody elsewhere, one trouble | `OneStreamPerTab`, `TracksAreHeld`, `LeavingIsLeaving`, `ButtonsAreTrue`, `FlagsAreTold` |
| `left` | | the same | *violation* of `LeftIsLeft` |
| `names` | 216 435 | two requests on two notes, colliding titles and aliases, every state the old schema can leave, crashes, failing reindexes; under fairness | `NamesAreSound`, `NamesComeFromTheText`, `OldNamesKeepWorking`, `NoLostUpdate`, `EveryRequestEnds` |
| `blocked` | | the same | *violation* of `SavesAreNotBlocked` |
| `patient` | 1 761 996 | two pages, two notes of which one exists, two words of which one is a title, two troubles | `TypingIsKept`, `TextStaysInItsNote`, `BufferIsTheNote`, `NothingToRestore` |
| `clobber` | | two words, no titles | *violation* of `NoSilentClobber` |
| `accounts` | 1 394 244 | two accounts, three PINs, three requests, one fault, the admin page opened anew | `CodesWorkOnce`, `OldSessionsEnd`, `FactorHasItsCodes`, `ShownCodesWork` |
| `sync` | 348 138 | two accounts, three commits of which two fit, one trouble; under fairness | `EtagIsEarned`, `SyncCatchesUp` |
| `pages` | 452 732 | eleven tool pages, and documents opened at six addresses | `GamesAreFair`, `LatestIsShown`, `TimesAreTold`, `PixelsRight`, `BoardGoesOn`, `KeysAreGivenBack` |

The type invariants are stated where they are proved, as theorems.

Deadlock is checked in the two runs on `NotesIndex`, where it shows little, since a
crash is always possible: that waiting transactions get on is `EveryRequestEnds`.
The other systems really stop: people go and do not come back, ids and requests
are used up, a page rests.

## Bounds

Every bound is a constant, named where it is used, but for the one missed release of
a mount. For the components with proofs
the theorems hold without any; the bounds then only matter to what is not proved.

* *Rooms.* Three connections and two seats: a full room, one refused, one who takes
  the seat of somebody who left while another watches. The hall needs two rooms
  and two titles for a room that comes back under another title, and two
  watchers for one that is gone. `MaxPending` holds back signals and source
  changes, never arrivals and departures, while a page has that many unread frames.
* *Mesh.* Two seats and three connections: a pair, a partner who dies in the
  middle of the exchange, and the one who comes after. The protocol is between
  two ends; a third person at the same time only interleaves with it. Each kind
  of POST is made once per connection, so `MaxPending = 3` never holds back
  anything a pair has to say.
* *Room page.* Two visits are one that was left and the one after it; two tracks,
  one that is replaced or that outlives its visit; two ids, an id before and after
  a reconnection. One POST under way suffices where overtaking is an exception the
  property names; `left` has two.
* *Names.* Two requests, two notes and `MAX_SLUG_ATTEMPTS` lowered to 2 (it is a
  constant of the model): collisions on the title, on the numbered title, on an
  alias, crosswise, and the fallback name when all attempts are used.
* *Editor.* Two words suffice for a word before and a word after any event, two
  notes for the wrong one, two pages for a page that was left with a save under
  way and the page after it. `MaxTroubles` counts lost requests, dead tabs and
  lost connections together: two allow a lost answer followed by a dead tab.
  `MaxVersion` bounds how often a note is deleted, nothing else.
* *Accounts.* Three requests are two that race and the one that comes after, or
  disable, set-up and enable, one after the other; three PINs an old one, a new
  one and the other account's. People are at the panel and the sign-in form, or at
  both PIN forms and the sign-in form, since a page cannot be watched with every
  other at once within the bounds.
* *Sync.* Two accounts so that an etag of the one meets the other; three commits,
  of which `Keep = 2` fit, so that pruning has a choice.
* *Site and tools.* Three entries of the history are Back past and Forward to the
  page in the middle; two renders in flight one that is overtaken. The counter of
  clicks is 2 with warnings below 2 (10 and 6 in the code). Two pointers, which
  nothing tells apart (the run uses that symmetry), are one that draws and one that
  presses the power button meanwhile; a mount misses one release, stated in the guard
  of `Releases`. Four countries, of which two
  share a capital's name and two a GDP, are a subject, two that look alike and one
  more. The snake has a board of nine cells, cron a calendar of nine days in three months, a week of three
  days, hours and minutes of two and three; pixel sides 3, 6 and 9 are odd, even
  and large enough for a hollow.

## Fairness

* *`LiveRooms.Fairness`.* Pages handle the frames they have been given (the
  browser's event loop), hyper drops a body whose connection is dead (the
  keepalive write fails), lobby pages do the same, and the keepalive task, a
  loop around an interval, runs. Nobody is obliged to join, speak or leave.
* *`LiveMesh`, `WF(Work)`.* While a frame can be handled, an awaited promise can
  settle, a request can reach the server or a dead body can be dropped, one of
  these happens. It is weaker than fairness for each of them. `PairsConnect` holds
  with it because each of these steps uses up something of which there is a
  finite amount between two arrivals. Candidates need not be found; requests need
  not fail, and when one between the pair does the property asks for nothing,
  since nothing repeats it.
* *`NotesIndex.Fairness`.* A handler that can go on does (tokio, and a database
  that answers), a deadlock is ended (`deadlock_timeout`), the boot finishes.
* *`CommitSync`, `WF(Local)`.* The loop takes its next step where that is its own or the
  database's: its interval elapses, a statement is done. An answer of GitHub
  (`Answered`) is under no fairness, because `https_get` waits for it without a limit:
  `SyncCatchesUp` excepts a request that is never answered.
  Failures are finitely many in the instance, and the property asks for nothing until
  the feed and the profile rest.
* The others state no liveness. The one `NotesEditor` should have, that what was
  typed comes to be saved, fails: `index.ts:191` drops a save timer.

## The proofs

TLAPS checks these for all values of the constants: any number of rooms, people,
notes, requests, accounts, pages, commits, and streams of any length.

**LiveRoomsProofs**, from the assumptions of `LiveRooms` (the capacity is
positive, a process mints finitely many ids, the marks for "none" are not values).

* `TypeCorrect`, `RoomsAreTheirPeople`, `CaughtUpPagesAreCurrent`,
  `SignalsReachKnownPeers`, `PairsMakeOneOffer`.
* The inductive invariant has two parts beside the types. `Structure` relates rooms,
  guards and sequences: a room is its people, sequences in a room are distinct and
  below `nextSeq`. It is enough for `RoomsAreTheirPeople`.
* `Coherent` is for the pages. The difficulty is that `CaughtUpIsCurrent` speaks of
  empty streams only, and a stream becomes empty one frame at a time. `Coherent`
  therefore says what a page *will* show: for each live page there is a list of
  rosters, one per unread frame, that begins with what it shows, goes from one to
  the next by `Apply`, and ends with what the registry holds (`Led`, `Leads`).
  Along that list a signal comes from somebody on the roster it meets (`Fits`), and
  whoever is on a roster has joined and has there the sequence the registry gave it
  (`Known`). A join or a departure makes each list longer by one (`PushLeads`), a
  read takes its first roster off. The list is a witness and not a recursive
  definition, so no induction over streams is needed. `CaughtUpIsCurrent` is the
  case of no frame, `SignalsComeFromTheRoster` the first step of the list, and
  `OneOfAPairOffers` the `Known` of both ends.

* `LobbyPagesAreCurrent`: whatever the last list on its way to a lobby page is (or,
  when none is, what the page shows) is the registry's list, which every change of
  the lobby sends and nothing else changes. `PlatesAreKept`: an action property, from
  `Structure`, by the actions that write `room`.

The second part of LiveRoomsProofs is about the refinement. `RoomsImplementMembership` is
`ImplementsMembership` for every behaviour of `Spec`: each step is one of `LiveMembership` or stutters. Joins,
changes of sources, departures and restarts are the steps of those names, a dead
browser is a page that vanishes, and reading is being shown the next membership,
except that a signal shows none. Signals sent, the lobby and the keepalive are not seen.

* `ToShow` is computed frame by frame, so what it is for `Append(s, f)` (`ShowMore`) and
  after the first frame of `s` is read (`ShowRest`) is an induction on the length of the
  stream. The library's induction rules take an operator and cannot be used; `ByInduction`
  is induction over a *set* of numbers, obtained from the library's fact that finite
  sets do not shrink for ever (`LeastOf`). With it `SomeShowing` gives the recursive
  definition a function that satisfies it.
* `LastShown` joins the two views of a stream: the last roster `ToShow` lists is the end of
  the list of `Led`, hence by `Coherent` the registry's. So a frame that is announced
  adds to what is owed exactly the new membership (`OwedMore`), which is what the
  abstract step does.
* `Minted` bounds the sequences by the number of ids drawn, which the abstract `Info` of
  the instance requires.

**LiveMeshProofs**, for any number of seats and connections.

* `NoPairOffersTwice`, `ConnectionsAreToTheRoster`, `CandidatesAreTakenUp`,
  `DescriptionsFindTheirState`.
* `NoGlare` speaks of two pages that decide from rosters of different moments. What
  makes them agree is that the sequences they compare were given out by the
  registry once and for all. `MeshInv` says so of everything on its way: `Heard`
  (a frame tells true sequences, and nobody is signalled by himself), `Greeted` (a
  page is greeted first and only once, with the sequence the registry has for it)
  and `Wired` (connections lead to people on the roster, and offers only to those
  who came later). Two ends that both offer would each be later than the other.
* Each step of the mesh is a step of the rooms or leaves them alone (`MeshMoves`),
  so the rooms' `Inductive` is available throughout and is not proved again.
* `Settled` is the part for candidates: a connection that is draining or stable
  has taken up those that came early.
* `CourtInv` is the part for descriptions, which reach their connection in the state
  that expects them (`SignalsFindTheirState`). Of the news of a latecomer, the offer
  being made, the offer on its way, the answer being made and the answer on its way,
  a pair is in one at a time (`Stages`), no description is there twice (`Single`), and the
  end that offered keeps the connection while the other has not left (`Holds`). Only one
  of the two can be about to offer (`Courts` holds in one direction), because a
  hello names earlier people only and a departure is the last that is heard of
  somebody (`Traced`, `PostsTraced`).

**LivePageProofs**, for any number of tabs, visits, tracks, people and POSTs, from the
assumptions of `LiveRooms` and `LivePage`.

* `PageTypeCorrect`, `TabsAreInOneRoom`, `TracksCanBeStopped`, `LeftTabsAreOut`,
  `ButtonsTellTheTruth`, `RoomsListTheFlags`; and `PagesKeepTheRooms`: a behaviour of the
  pages is one of `LiveRooms`, so that what is proved of the rooms holds under
  the pages.
* `TabsInv` strengthens the properties of a tab: a visit that is not shown is over
  (`Rests`), an idle tab holds no track (`Idles`), tracks were asked for by the visit
  that is shown (`Owns`), a failed visit does not try again (`Failed`), the first
  three unless the tab was left in haste. A drop that disposes of the tab may only do
  so because the visit it happens to is the one `leave` belongs to, which is
  `OneStreamPerTab`.
* `FlagsInv`: an id belongs to one visit and was minted (`IdsApart`, `Minted`), an open
  stream is in its visit's room (`AtHome`), and flags under way say what their visit
  publishes now (`PostsSay`). That the registry keeps what it was told until the next
  POST is `Endures`, shown once for everything that can happen to a room.

**AccountsProofs**, from the assumptions of `Accounts` and `AccountPages`.

* `TypeCorrect`, `CodesWorkOneTime`, `OldSessionsAreOver`: invariants without a
  condition, whoever sends how many requests. `FactorKeepsItsCodes` and
  `CodesAreWorthSaving` are proved for people who do not submit again what the page
  before them still awaits (`~Impatient`), without which the code breaks both. The
  hypothesis does not keep them on the page: the panel is left and opened again at any
  moment, and any number of its earlier requests are still at work. That an account
  has no codes of an earlier factor holds throughout; that it has those of the
  present one, and that the codes on the screen are those, holds as long as no
  request of an earlier visit has written the factor (`unheard`); the code breaks it
  [otherwise](#what-was-seen-besides).
* A step moves one request from its stage to the next and leaves the others.
  `Steps` says this once: each request is as it was, advanced, newly sent, or the
  `/auth/me` of a sign-in. The rest of the proof argues from it and not
  from the actions.
* `CodesInv`: a batch is redeemed as often as its code is marked used, which the
  conditional UPDATE makes atomic. `SessionsInv`: a session's number is that of the
  request that made it and no request is used again; a login that is about to open
  a session knows how many changes of PIN its row had seen, and has been marked
  late by any that ended sessions since. `FactorInv`: the panel
  awaits one answer at most, the factor is off while a request that is awaited is about
  to wipe its codes, so that no new codes can be among them, and of codes there are
  only those of the factor in force.
* `PanelInv` is for the codes on the screen (`ShownCodesWork`). The session of the desk is
  the administrator's; a request that enables a factor brings the secret the panel
  still has, if its page was not left, and when its answer says so the factor is on with
  that secret and codes of that batch (`Asked`), or `unheard` holds (`Stands`). While the
  panel shows codes it awaits nothing, and only the panel's handlers touch the
  administrator's factor, those of a page that was left not without a note of it
  (`FactorIsLeft`).

**CommitSyncProofs**. `TypeCorrect`; `EtagCorrect` is `EtagIsEarned`, from
`IInv == TypeOK /\ HistoryInv /\ AnswerInv /\ EtagInv`: no row, answer or feed is older than the
first push of its commit; of the answer being stored, every commit is
waiting for its insert or is kept; of the stored etag, every commit is kept.
`PruneKeeps` and `KeptStays` are the two lemmas on sets: pruning to the newest
rows keeps what is kept, and so do inserts.

**NotesIndexProofs**, from the assumptions of `NotesIndex`.

* `TypeCorrect`, `NamesStaySound`, `NamesFollowTheText`: invariants.
* `SavesReplaceWhatTheyRead` and `OldNamesSurvive`: action properties, each from
  the inductive invariant at the step that commits.
* `Inductive` is the conjunction of `TypeOK`, the two invariants on names, `Boot`
  (while the process is down nothing is in flight), `InFlight(p)` for every handler
  and `Apart(p, q)` for every two. `InFlight` says what a transaction has
  established by each of its stages: the row it will write and the names it has
  claimed can be read off one text, the old name is among the aliases still to be
  inserted or already inserted, and the version it compared is still the committed
  one. `Apart` says that two transactions neither hold the same note nor have
  claimed the same name, which is what the database's row locks and its unique key
  give; without it neither claim survives the other's commit.

**NotesEditorProofs**, for any number of pages, notes, words and saves, from
`NothingAssumption` (the mark for "no text" is not a text).

* `EditorInvariant` (the types and all of what follows), `NothingTypedIsLost`,
  `TextsStayInTheirNotes`, `BuffersAreTheirNotes`, `NothingLeftToRestore`, each for
  `Patient /\ Spec`. The hypothesis is not for the prover's sake: people who do not wait
  lose words, as the `clobber` run and the section on Patience show, and the model with
  `Patient` still has tabs that die, saves that fail or whose answer is lost,
  conflicts, the note changed from elsewhere, and drafts restored or discarded.
* What was typed is kept by three kinds of copies: the notes on the server, the drafts and
  the buffers. `EditorInv` says that none ever gives way to one that is worth less. A
  text `Covers` another when it lacks no word of it that nobody gave up: a buffer covers
  the draft it will be written over and the version of the note it will be saved
  over, and the version is what makes the second lasting, since the server refuses a save
  made from any other. `Fits` says that the words of a text were typed into the note it
  is kept for, `Faithful` what an old answer or a cached note is still worth. One page at
  a time has anything to do (`Alone`): this is what Patience gives, and what the rest leans on.

**PagesProofs**, for any board, text, question, code, filter, shape and address, from the
assumptions the page modules make of their constants.

* `PagesKeepTheirInvariants`, and from it `GamesStayFair`, `LatestIsAlwaysShown`,
  `PixelsStayRight`, `TimesAreAlwaysTold`, `BoardAlwaysGoesOn`, `KeysAlwaysComeBack`. A
  behaviour of `MCPages` is
  the life of one page; `PagesInv` is that page's own invariant, and `PageSteps` that
  only its own actions happen to it.
* *Snake* (`SnakeInv`). While the game runs its head is one step in `dir` from its second
  cell, and the turn that waits is not the opposite of `dir`. Two turns between two
  ticks cannot undo it, because a turn is compared with the last step and not with
  the last turn.
* *Quizzes, Morse.* The pools of `BuildQuestion` hold what looks alike once, but that of the
  capitals (`OneIsRight`). Of the rounds asked, one that is not answered is not counted, and one
  that is has its timer; a challenge and its clock begin and end together.
* *Motions.* `WordMotionsAreVims` compares the trainer's scan over a flat text with the least
  beginning (or the last, or an end) of a word after (before) the cursor. `Starting` and
  `SomeStarting` give the recursive definition of where lines begin a function that
  satisfies it; `LinesAreApart` and `PosFromFlatIs` say that an index leads back to the
  cell it came from, for which it must not be the gap between two lines. `NextWordIs`,
  `PrevWordIs` and `EndWordIs` are the three scans.
* *Codes and visits.* An answer under way that has the last number is for what was asked
  last (`CodeInv`, `LoadsInv`); when none has it, the last was shown or has failed, unless
  it was shown and then written over by a late refusal (`LateRefusal`). The button to the next
  page of visits is bounded by the count for the filter, not by the rows that are shown.
* *Pixels* (`PixelInv`: what is shown is what the settings make, unless a frame is still
  to draw it). The rest is geometry, for all sides and biases of the page's inputs.
  - A disc of radius *r* lies with its four neighbours in the disc of radius *r + 1*
    (`WiderDisc`, `DiscBeside`, an inequality of squares), so the hole of a circle is
    enclosed by what is drawn (`CircleHole`), and so is that of a square.
    `OutlineIsClosed` walks by recursion. `SomeWalk` shows that the recursion defines
    something, `ReachedOnly` that where a step leads nowhere new nothing is added, and
    `RasterIsClosed` that from outside no step leads in. `CloseDiagonals` fills every corner the
    diagonal walk could use (`ClosingFills`).
  - An ellipse and a square are their own mirror images (`WholeMirrored`), and contain no
    two cells that touch in a corner only (`WholeNoSaddle`). Without such a saddle it does not
    matter in which order `CloseDiagonals` goes through the cells, which is why a closed
    outline is still symmetric (`ClosedMirrored`); trimming keeps mirror images
    (`TrimMirrored`).
  - `RunsOfRow` shows that every cell of a row is in one run, `CellSizeIs` and
    `GridRuled` that the picture and its rules are in the middle, `DeepestIs` that the
    deepest wall leaves no hole.
* *Cron* (`CronInv`: the preview is that of the expression at some moment, and the boxes
  hold its fields).
  - The calendar is `MonthStart`, recursive over the months, and divisions by products of
    its lengths; `DivDiv`, `ClockIs` and `DayIs` say what a moment's day, hour and minute
    are, and `SameDay`, `SameHour`, `SameMinute`, `MonthLeft` that a jump lands where the
    next one begins. From these `SkippedIs`: between a moment that is no run
    and where the search goes from there, nothing is due. That is the property a jump past
    midnight would break.
  - The search is a recursion over moments and runs still to list. `SomeWent` shows,
    by induction on what is left of the search's horizon, that there is a function it
    defines. `RunsAreListed` and `RunsAreDue` show that the list holds the first
    times that are due, ascending, and all of them when there are fewer than it has room for.
  - `DescribedIs`: "every n" and a list of values both name the field's values.
    `Flattened` gives the library's fold over boxes the recursion it follows, from which
    `SyncedAgree` and `JoinAgree` have the boxes say what the expression says.
  - `SecondsMean`: the schedule with a 0 before it parses as well, and is due at the same
    moments (`FollowsDue`); dropping the seconds asks that they were 0, as the page has it.
* *Time* (`TimeInv`). The zones shown are never two of the same (`ApartAppended`,
  `ApartRemoved`), and the last one stays; `OffsetIs` is the argument that one correction
  is enough wherever the offset does not change nearby; `RoundedIs` bounds the rounding
  on both sides of zero; the panel's schedule is the engine's (`TabTold`).
* *The board* (`BoardInv`). `MountIsRight` says how the fields of a mount go together: the
  loop is on just for the board that is up and not disabled, a game that still loads has
  asked for no frame, and a mount that was left asks for none. One lemma per operation.
* *Keys* (`SiteInv`). A document either has nothing to do with the Vim page (`NoVim`) or was
  opened there (`VimDocument`), where the page is in the document as long as it is up and
  a game on its panel has its listener. The renders under way are a bag, so that any
  number of them may be overtaken.

Some assumptions were added or made stronger for these proofs; each is what the code's own
values and inputs satisfy. The snake starts as two or more cells on its board, headed
right (`SnakeConstants`); every text of the trainer has lines and every line has a character
(`MotionConstants`); a page of visits has a row (`VisitConstants`); sides of pixel shapes are 1 to
512 and biases -20 to 20, which are the limits of the inputs (`PixelConstants`); what is
typed into cron is an expression of fields or a macro, presets have five fields
(`CronPageConstants`); the zones first shown are distinct and not none, the table of a
zone is finite and knows the dates that are typed, a relative unit has a length
(`TimeConstants`).

**Only model-checked.** Liveness (`NoGhosts`, `ClosedWatchersAreForgotten`,
`PairsConnect`, `EveryRequestEnds`, `SyncCatchesUp`) is outside what the prover does.
Every
invariant of every run that is expected to pass has a theorem; the runs check the
liveness, the findings, and that the invariants are about something that happens.

## Findings

Runs that are expected to find a violation, each of a sentence the repository
says about itself.

* `candidates` (`mesh.ts:154`). A list keeps "candidates that arrived before the
  remote description they belong to". It belongs to a connection, and a candidate
  whose request overtakes the offer's finds none and is dropped.
* `left` (`secret_live_room.ts:315`). Closing the stream and stopping the tracks on
  the way out are "neither optional tidying". A page that is left while its relay
  list or a permission is awaited joins, or turns the camera on, after
  its disposal.
* `blocked` (`notes/index.rs:102`). "An index problem never blocks a save", yet two
  saves that pick the same free name collide at the insert, and the second one's
  transaction fails with its text.
* `clobber` (`index.ts:476`). A draft does not know which version it was made
  from. Restored over a newer note it is saved with the newer version as its base,
  and what was added elsewhere is gone "silently", the very word of `api.ts`.

## What was seen besides

Behaviour of the code that was met while modelling. What the models show is
marked *(model)*: it is reachable in them, and the property next to it
excludes or does not speak of it.

* *Notes page.* The cases listed under Patience above *(model)*, among them: words
  typed while a note is being created lose their draft to the answer
  (`index.ts:208`), although `api.ts` says that nothing typed is ever lost; and the
  answer to a save becomes the open note, whichever note is open by then, with the
  buffer of that one taken for what was typed since (`index.ts:203`; the code says
  "Adopt its version only when nothing was typed during the request").
* *Room page.* A page's own ghost can fill its room: the reconnect is answered 400,
  the event source is closed for good, and the page goes on saying
  "Reconnecting…" (`live/api.ts:36`, `secret_live_room.ts:388`) *(model)*. A hello
  after a reconnect makes a new mesh and leaves the old one open
  (`secret_live_room.ts:319`). Source flags overtake one another and are not
  repeated when lost (`live/api.ts:99`) *(model)*. The late join of a visit that
  was left closes the stream of the visit after it *(model)*. Buttons stay on after
  "Could not join" *(model)*.
* *Accounts.* Enter pressed twice in the confirmation field enables the second factor
  twice, and answers in the other order show codes already replaced
  (`secret_admin.ts:423`; `Impatient = TRUE`) *(model)*. The codes a panel says to
  save, since they "won't be shown again", are deleted by the second statement of a
  disabling that was left half way, its page opened again and the factor set up anew
  (`auth.rs:1075`) *(model)*. A login verified against an old
  PIN opens a session after the change that should have ended it (`late`) *(model)*.
  When the statement that ends the sessions fails, the PIN is changed, the answer is
  500 and the old sessions stay *(model)*. Two concurrent changes can choose the
  same PIN *(model)*, and creating an account does not compare PINs. A recovery
  code is spent also when a later check refuses the request *(model)*.
* *Commit sync.* A commit pushed again keeps its first date: the insert does nothing
  on a conflict, where the comment says "upserted" (`github.rs:6`) *(model)*. The loop is "one fetch at
  startup, then one per interval" (`github.rs:162`), and has no more of them once a peer
  falls silent on an open connection: `https_get` has no time limit
  (`http_client.rs:75`) *(model)*.
* *Front page.* The power button pressed while another pointer draws hides the board
  before that pointer is released; the release is not heard, and the stroke lasts until the
  pointer is released over the board once more (`secret_canvas.ts:183`) *(model)*.
* *Router.* A chunk that arrives late mounts its page over the newer one, and the
  gate's bounce comes before its stale check (`main.ts:40`) *(model)*. An unknown
  path pushes an entry, so that Back leads to it and forth again *(model)*.
* *Vim page.* What was typed in the playground is lost when the page is left from a
  challenge (`secret_vim.ts:498`) *(model)*. Enter on the focused button of the snake is
  also a click: two intervals run (not modelled).
* *Visits.* The id that "guards against a slow fetch landing after a newer one"
  (`secret_admin_visits.ts:200`) is compared before the text of a refusal is awaited and
  not after (line 221): the error of an older load may replace newer rows *(model)*.
* *Quizzes.* Choices are "distinct distractors" (`secret_countries.ts:3`), but two
  capitals of one name are two choices (line 153) *(model)*. An answer lingers "so the
  revealed answer is readable" (line 377), but the timer of a question that a change of
  the settings has replaced takes the next one's answer away (line 379) *(model)*.
* *Tools.* The trainer has "the actual semantics of h j k l" (`secret_motion.ts:3`), but
  over a shorter line `j` and `k` forget the column, where Vim's come back to it (line 252)
  *(model)*. Shift clears a pending `f` of the motion trainer, so `f` never finds a
  shifted character. A key bounce under 20 ms leaves a Morse letter without
  its timer *(model)*. The barcode is saved under the kind that is selected at
  that moment, not the one drawn. In cron, `0-7` as days of the week means Sunday
  only, `*/n` counts as restricted in the rule for days, and switching
  seconds off drops seconds other than zero, "so the meaning is preserved"
  (`secret_cron.ts:482`) *(model)*. The time page is an hour off near a change of
  the clock (`secret_time.ts:569`) *(model)*. Very flat ellipses have gaps in
  the "diagonal" mode (`secret_pixels.ts:42`).
* *Admin pages* (not modelled). A late answer to a save replaces the editor of
  another post (`secret_admin_posts.ts:225`); a failed reload after a save leaves the
  old post on the page, from which a further save reverts it; a profile
  that failed to load can be saved blank; `update_profile` and `update_details`
  write key by key without a transaction.

## What is left out

* *LiveRooms*: `create_room`, which only picks an id; encoding; the rendering of
  names. *LiveMesh*: tracks, transceivers, the contents of descriptions, the path
  report, and what the browser's ICE agent does with candidates. *LivePage*: tiles,
  speaking indicators, diagnostics, the link.
* *NotesIndex*: tags, properties and links, which the same transaction rebuilds
  per note and which collide with nothing; reads; failures of statements other
  than by crash, collision or deadlock, all of which roll a transaction back as
  these do.
* *NotesEditor*: the address bar, the mode, filters, the index (it only finds
  notes), taking words out of a text, the moment between a deletion and its answer.
  The answer of a fetch is the note as it is when the answer arrives.
* *Accounts*: the expiry of sessions, the log of attempts (a ban is a choice of the
  answer), making and deleting accounts, the list of users.
* *Site and tools*: layout, colours, files, sounds, counts of keystrokes, stars
  (sines), what a chart looks like, the payload of a Wi-Fi or contact code.
* Not modelled, and why (`PROJECT.json` has each): text processing with unit tests
  beside it (Markdown, frontmatter, links, word patches, passwords, the WebAssembly
  helpers, the calculators); the row-per-request parts (posts, projects, visits,
  statistics, account administration and their forms), whose handlers are one
  statement or one transaction each; wiring without state (responses,
  configuration, pool, boot, schema, deployment, TURN credentials).

## The plan

1. **Content**: posts with their slugs and first publication, and the admin pages
   over them, where late answers and failed reloads meet an open editor; the profile
   saved key by key.
2. **Account administration**: accounts that are created and deleted under
   running requests, composed with `Accounts`.
3. **Proofs**: for what the points above add. The invariants there are have theirs.
4. **Algorithms**: link resolution, password templates and visit classes, each
   against a reference definition.
