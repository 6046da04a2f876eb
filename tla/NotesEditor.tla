---------------------------- MODULE NotesEditor ----------------------------
(***************************************************************************)
(* The notes page (notes/index.ts) and what a browser keeps for it         *)
(* (notes/api.ts): an editor that saves by itself, mirrors what is typed   *)
(* into drafts, and caches the notes it has read.                          *)
(*                                                                         *)
(* A page is one instance of notesPage, from its boot to its teardown.     *)
(* Pages of one browser share drafts and cache: tabs beside one another,   *)
(* or instances one after the other in one tab.  A page that has been left *)
(* still has its timers and the answers it awaits.  Other browsers are the *)
(* action Elsewhere.                                                       *)
(*                                                                         *)
(* A text is the set of words typed into it, with -w for the old name the  *)
(* server adds to the frontmatter when word w is a new title.  People add  *)
(* words here and never take one out.  Reading and editing mode, layout,   *)
(* the tag and name filters and the index, which only finds notes, are     *)
(* left out: a note can be typed in whenever the page is not offline, and  *)
(* a note that has no id yet even then, since such a page has no reader.   *)
(***************************************************************************)
EXTENDS Integers, FiniteSets

CONSTANTS
  Note,         \* ids of notes
  Page,         \* instances of the page
  Existing,     \* the notes there are at first
  MaxWords,     \* bound on the words typed
  Titles,       \* the words that are a new title of their note
  MaxTroubles,  \* bound on lost requests, killed tabs and lost connections
  MaxVersion,   \* bound on the versions of a note that is deleted
  Patient,      \* whether people wait for "saved" before they go elsewhere
  Nothing       \* no note, no draft, nothing cached

ASSUME EditorAssumption ==
  /\ Existing \subseteq Note /\ "new" \notin Note /\ Nothing \notin Note
  /\ MaxWords \in Nat /\ Titles \subseteq 1..MaxWords /\ MaxTroubles \in Nat /\ MaxVersion \in Nat
  /\ Patient \in BOOLEAN

VARIABLES
  notes,      \* notes[n]: the server's note, live or in the trash
  drafts,     \* drafts[k]: the draft of a note, or of "new", the unsaved one
  cache,      \* cache[n]: the note as this browser last read it
  page,       \* page[p]: the variables of notesPage
  save,       \* save[p]: the save p awaits
  asked,      \* asked[p]: the notes p has asked for and not been given
  home,       \* home[w]: where word w was typed, a note or "new"
  forgone,    \* words somebody gave up in a dialogue, or typed as the tab died
  overruled,  \* words somebody was shown in a conflict and did not take over
  troubles
vars == <<notes, drafts, cache, page, save, asked, home, forgone, overruled, troubles>>
history == <<home, forgone, overruled>>

Word == 1..MaxWords
Body == SUBSET ((0 - MaxWords)..MaxWords)
Empty == {}       \* no text at all
Stub == {0}       \* fm.stub: an empty note's frontmatter

Stored == [body : Body, version : Nat, live : BOOLEAN]
Copy == [id : Note, body : Body, version : Nat]
Key == Note \cup {"new"}

\* The mark is none of what it stands in for.
ASSUME NothingAssumption ==
  Nothing \notin Stored /\ Nothing \notin Copy /\ \A body \in Body : body # Nothing

View == [at : {"none", "open", "left", "killed"}, note : Copy \cup {Nothing},
         buffer : Body, dirty : BOOLEAN, saveTimer : BOOLEAN, draftTimer : BOOLEAN,
         offline : BOOLEAN, shown : {"no", "yes", "stray"}]
Blank == [at |-> "none", note |-> Nothing, buffer |-> Empty, dirty |-> FALSE,
          saveTimer |-> FALSE, draftTimer |-> FALSE, offline |-> FALSE, shown |-> "no"]
NoSave == [stage |-> "idle", into |-> "new", body |-> Empty, base |-> 0,
           reply |-> "none", given |-> Nothing]

Typed == DOMAIN home
CopyOf(n, row) == [id |-> n, body |-> row.body, version |-> row.version]
Drafted(k) == IF drafts[k] = Nothing THEN {} ELSE drafts[k]
KeyOf(v) == IF v.note = Nothing THEN "new" ELSE v.note.id
Saving(p) == save[p].stage # "idle"
Trouble == troubles < MaxTroubles /\ troubles' = troubles + 1

\* Patience: nobody goes to another note before the page says "saved", and
\* nobody works in one page while another is open or has still to save.
CanSwitch(p) ==
  Patient =>
    /\ ~page[p].dirty /\ asked[p] = {}
    /\ \A q \in Page : page[q].at \in {"open", "left"} =>
         /\ ~Saving(q) /\ ~page[q].draftTimer /\ ~page[q].saveTimer
         /\ q # p => page[q].at # "open"

-----------------------------------------------------------------------------
(* Drafts and saves. *)

\* writeDraft.
WithDraft(v) == IF v.dirty THEN [drafts EXCEPT ![KeyOf(v)] = v.buffer] ELSE drafts

\* What flushSave sends.
Request(v) ==
  [stage |-> "sent", into |-> KeyOf(v), body |-> v.buffer,
   base |-> IF v.note = Nothing THEN 0 ELSE v.note.version,
   reply |-> "none", given |-> Nothing]

\* flushSave up to its first await, on a page that reads v by then.
Flush(p, v) ==
  /\ page' = [page EXCEPT ![p] = [v EXCEPT !.saveTimer = FALSE]]
  /\ save' = IF v.dirty /\ ~Saving(p) /\ ~v.offline
             THEN [save EXCEPT ![p] = Request(v)] ELSE save

\* markDirty.
Marked(v, w) ==
  [v EXCEPT !.buffer = @ \cup {w}, !.dirty = TRUE,
            !.draftTimer = TRUE, !.saveTimer = ~v.offline]

\* The buffer is on the screen, and may be typed in.
Writable(v) == v.at = "open" /\ v.shown # "no" /\ (v.note # Nothing => ~v.offline)

\* The next word, typed into k.  It is a new title if it is one of Titles.
Types(w, k) == w = Cardinality(Typed) + 1 /\ w \in Word
               /\ home' = [x \in Typed \cup {w} |-> IF x = w THEN k ELSE home[x]]

\* A patient person waits while a note is being created or fetched, and does not
\* type into a text that belongs to none.
CanType(p) ==
  /\ Writable(page[p])
  /\ Patient => /\ asked[p] = {} /\ page[p].shown # "stray"
                /\ Saving(p) => save[p].into # "new"

\* A word in the text.
Type(p, w) ==
  /\ CanType(p) /\ w \notin Titles
  /\ Types(w, KeyOf(page[p]))
  /\ page' = [page EXCEPT ![p] = Marked(@, w)]
  /\ UNCHANGED <<notes, drafts, cache, save, asked, forgone, overruled, troubles>>

\* onRename: a new title is saved at once.
Rename(p, w) ==
  /\ CanType(p) /\ w \in Titles
  /\ Types(w, KeyOf(page[p]))
  /\ Flush(p, Marked(page[p], w))
  /\ UNCHANGED <<notes, drafts, cache, asked, forgone, overruled, troubles>>

\* 400 ms after the last word.
DraftTimer(p) ==
  /\ page[p].at \in {"open", "left"} /\ page[p].draftTimer
  /\ drafts' = WithDraft(page[p])
  /\ page' = [page EXCEPT ![p].draftTimer = FALSE]
  /\ UNCHANGED <<notes, cache, save, asked, history, troubles>>

\* 1.5 s after the last word, or after an answer that words were typed before.
\* The draft's timer is the shorter one, and the two are never set apart.
SaveTimer(p) ==
  /\ page[p].at \in {"open", "left"} /\ page[p].saveTimer /\ ~page[p].draftTimer
  /\ Flush(p, page[p])
  /\ UNCHANGED <<notes, drafts, cache, asked, history, troubles>>

\* Ctrl-S.
SaveNow(p) ==
  /\ page[p].at = "open"
  /\ Flush(p, page[p])
  /\ UNCHANGED <<notes, drafts, cache, asked, history, troubles>>

\* visibilitychange, and teardown when the router leaves the page.
Hide(p) ==
  /\ page[p].at = "open"
  /\ drafts' = WithDraft(page[p])
  /\ \E at \in {"open", "left"} :
       Flush(p, [page[p] EXCEPT !.at = at, !.draftTimer = FALSE])
  /\ UNCHANGED <<notes, cache, asked, history, troubles>>

\* The tab dies.  Words of the last 400 ms die with it; a request may live on.
Kill(p) ==
  /\ page[p].at \in {"open", "left"} /\ Trouble
  /\ page' = [page EXCEPT ![p] = [Blank EXCEPT !.at = "killed"]]
  /\ asked' = [asked EXCEPT ![p] = {}]
  /\ forgone' = IF page[p].draftTimer
                THEN forgone \cup (page[p].buffer \ Drafted(KeyOf(page[p]))) ELSE forgone
  /\ UNCHANGED <<notes, drafts, cache, save, home, overruled>>

-----------------------------------------------------------------------------
(* The server, and the answers. *)

\* The body stored for one that was sent: a new title's predecessor becomes an
\* alias (notes/mod.rs, update_note).
Rewritten(old, sent) == sent \cup {0 - w : w \in (sent \ old) \cap Titles}

Answered(p, reply, given) ==
  save' = [save EXCEPT ![p].stage = "answered", ![p].reply = reply, ![p].given = given]

\* create_note and update_note.  Bound: there are no more notes than ids.
ServerSave(p) ==
  LET s == save[p] IN
  /\ s.stage = "sent"
  /\ \/ \E n \in Note :
          /\ s.into = "new" /\ notes[n] = Nothing
          /\ notes' = [notes EXCEPT ![n] = [body |-> s.body, version |-> 1, live |-> TRUE]]
          /\ Answered(p, "saved", CopyOf(n, notes'[n]))
     \/ /\ s.into # "new" /\ ~notes[s.into].live
        /\ Answered(p, "error", Nothing) /\ UNCHANGED notes
     \/ /\ s.into # "new" /\ notes[s.into].live /\ s.base # notes[s.into].version
        /\ Answered(p, "conflict", CopyOf(s.into, notes[s.into])) /\ UNCHANGED notes
     \/ /\ s.into # "new" /\ notes[s.into].live /\ s.base = notes[s.into].version
        /\ notes' = [notes EXCEPT ![s.into].body = Rewritten(@, s.body),
                                  ![s.into].version = @ + 1]
        /\ Answered(p, "saved", CopyOf(s.into, notes'[s.into]))
  /\ UNCHANGED <<drafts, cache, page, asked, history, troubles>>

\* A request, or its answer, is lost.
Lose(p) ==
  /\ save[p].stage \in {"sent", "answered"} /\ save[p].reply # "error" /\ Trouble
  /\ Answered(p, "error", Nothing)
  /\ UNCHANGED <<notes, drafts, cache, page, asked, history>>

\* Mutant of Adopted: the text the server rewrote is not taken over.
AdoptedAsSent(v, s) ==
  IF v.buffer = s.body
  THEN [v EXCEPT !.note = s.given, !.dirty = FALSE, !.draftTimer = FALSE]
  ELSE [v EXCEPT !.note = s.given, !.saveTimer = TRUE]

\* The page after a save: the server's version, unless words were typed since.
Adopted(v, s) ==
  IF v.buffer = s.body
  THEN [v EXCEPT !.note = s.given, !.buffer = s.given.body, !.dirty = FALSE, !.draftTimer = FALSE]
  ELSE [v EXCEPT !.note = s.given, !.saveTimer = TRUE]

\* Mutant of Undrafted: the note's own draft is left behind.
UndraftedIfNew(v, s) == [k \in Key |-> IF s.into = "new" /\ k = "new" THEN Nothing ELSE drafts[k]]

\* Mutant of Undrafted: the note's draft goes although words were typed since.
UndraftedAlways(v, s) ==
  [k \in Key |-> IF k \in {s.into, s.given.id} THEN Nothing ELSE drafts[k]]

\* The drafts after a save: that of a note being created goes, whatever it
\* holds, and the note's own once nothing is left to save.
Undrafted(v, s) ==
  [k \in Key |-> IF \/ s.into = "new" /\ k = "new"
                    \/ v.buffer = s.body /\ k = s.given.id
                 THEN Nothing ELSE drafts[k]]

Saved(p) ==
  LET s == save[p] IN
  /\ s.reply = "saved"
  /\ page' = [page EXCEPT ![p] = Adopted(@, s)]
  /\ drafts' = Undrafted(page[p], s)
  /\ cache' = [cache EXCEPT ![s.given.id] = s.given]
  /\ save' = [save EXCEPT ![p] = [NoSave EXCEPT !.stage = "indexing"]]
  /\ UNCHANGED <<forgone, overruled>>

\* showConflict, and OK.
Discard(p) ==
  LET s == save[p] IN
  /\ s.reply = "conflict"
  /\ page' = [page EXCEPT ![p].note = s.given, ![p].buffer = s.given.body, ![p].dirty = FALSE]
  /\ drafts' = [drafts EXCEPT ![s.given.id] = Nothing]
  /\ forgone' = forgone \cup ((page[p].buffer \cup Drafted(s.given.id)) \ s.given.body)
  /\ save' = [save EXCEPT ![p] = NoSave]
  /\ UNCHANGED <<cache, overruled>>

\* showConflict, and Cancel: the next save will win.
Keep(p) ==
  LET s == save[p] IN
  /\ s.reply = "conflict"
  /\ page' = [page EXCEPT ![p].note =
       IF @ = Nothing THEN @ ELSE [s.given EXCEPT !.body = page[p].buffer]]
  /\ overruled' = overruled \cup (s.given.body \ page[p].buffer)
  /\ save' = [save EXCEPT ![p] = NoSave]
  /\ UNCHANGED <<cache, drafts, forgone>>

\* The rest of flushSave, once the answer is there.
SaveDone(p) ==
  /\ page[p].at \in {"open", "left"} /\ save[p].stage = "answered"
  /\ \/ Saved(p) \/ Discard(p) \/ Keep(p)
     \/ /\ save[p].reply = "error"
        /\ save' = [save EXCEPT ![p] = NoSave]
        /\ UNCHANGED <<page, drafts, cache, forgone, overruled>>
  /\ UNCHANGED <<notes, asked, home, troubles>>

\* refreshIndex has come back; only now is the page not `saving` any more.
IndexDone(p) ==
  /\ page[p].at \in {"open", "left"} /\ save[p].stage = "indexing"
  /\ save' = [save EXCEPT ![p] = NoSave]
  /\ \/ page' = [page EXCEPT ![p].offline = FALSE] /\ UNCHANGED troubles
     \/ page' = [page EXCEPT ![p].offline = TRUE] /\ Trouble
  /\ UNCHANGED <<notes, drafts, cache, asked, history>>

-----------------------------------------------------------------------------
(* Going from note to note. *)

\* notesPage up to its first index, which may not come.
OpenPage(p) ==
  /\ page[p].at = "none" /\ CanSwitch(p)
  /\ \E offline \in BOOLEAN :
       /\ page' = [page EXCEPT ![p].at = "open", ![p].offline = offline]
       /\ IF offline THEN Trouble ELSE UNCHANGED troubles
  /\ UNCHANGED <<notes, drafts, cache, save, asked, history>>

\* Mutant of StartNew: the buffer is not replaced.
StartNewKeepsBuffer(p) ==
  /\ page[p].at = "open" /\ CanSwitch(p)
  /\ page' = [page EXCEPT ![p].note = Nothing, ![p].shown = "yes"]
  /\ forgone' = forgone \cup Drafted("new")
  /\ UNCHANGED <<notes, drafts, cache, save, asked, home, overruled, troubles>>

\* startNew; an unsaved note may be taken up again.
StartNew(p) ==
  LET draft == drafts["new"]
      Begins(text, dirty) == page' = [page EXCEPT ![p].note = Nothing, ![p].buffer = text,
                                        ![p].dirty = dirty, ![p].shown = "yes"]
  IN /\ page[p].at = "open" /\ CanSwitch(p)
     /\ \/ draft \notin {Nothing, Stub} /\ Begins(draft, TRUE) /\ UNCHANGED forgone
        \/ /\ Begins(Stub, FALSE)
           /\ forgone' = forgone \cup Drafted("new")
     /\ UNCHANGED <<notes, drafts, cache, save, asked, home, overruled, troubles>>

\* open, up to the request.
Open(p, n) ==
  /\ page[p].at = "open" /\ CanSwitch(p) /\ notes[n] # Nothing
  /\ asked' = [asked EXCEPT ![p] = @ \cup {n}]
  /\ UNCHANGED <<notes, drafts, cache, page, save, history, troubles>>

\* There is something to restore.
Restorable(copy) == drafts[copy.id] \notin {Nothing, copy.body}

\* open, once there is a note to show: what was being typed makes way for it,
\* or for the draft somebody takes up again.
Show(p, copy, offline) ==
  LET draft == drafts[copy.id]
      Shows(text, dirty) == page' = [page EXCEPT ![p].note = copy, ![p].buffer = text,
                                      ![p].dirty = dirty, ![p].offline = offline,
                                      ![p].shown = "yes"]
  IN \/ /\ ~Restorable(copy)
        /\ Shows(copy.body, FALSE) /\ UNCHANGED <<drafts, forgone>>
     \/ /\ Restorable(copy)
        /\ Shows(draft, TRUE) /\ UNCHANGED drafts
        /\ forgone' = forgone \cup (copy.body \ draft)
     \/ /\ Restorable(copy)
        /\ Shows(copy.body, FALSE)
        /\ drafts' = [drafts EXCEPT ![copy.id] = Nothing]
        /\ forgone' = forgone \cup (draft \ copy.body)

\* getNote answers: with the note; or not, and the cached one is shown, or none.
OpenDone(p, n) ==
  /\ page[p].at \in {"open", "left"} /\ n \in asked[p]
  /\ asked' = [asked EXCEPT ![p] = @ \ {n}]
  /\ \/ /\ notes[n].live
        /\ Show(p, CopyOf(n, notes[n]), FALSE)
        /\ cache' = [cache EXCEPT ![n] = CopyOf(n, notes[n])]
        /\ UNCHANGED troubles
     \/ /\ IF notes[n].live THEN Trouble ELSE UNCHANGED troubles
        /\ IF cache[n] # Nothing THEN Show(p, cache[n], TRUE)
           ELSE /\ page' = [page EXCEPT ![p].note = Nothing, ![p].offline = TRUE,
                                        ![p].shown = "no"]
                /\ UNCHANGED <<drafts, forgone>>
        /\ UNCHANGED cache
  /\ UNCHANGED <<notes, save, home, overruled>>

\* The mode button, or the next render, brings the buffer back: after a note that
\* was not cached, the text open before it, which now belongs to no note.
Resume(p) ==
  /\ page[p].at = "open" /\ page[p].shown = "no"
  /\ page[p].note # Nothing \/ page[p].buffer # Empty
  /\ page' = [page EXCEPT ![p].shown = IF page[p].note = Nothing THEN "stray" ELSE "yes"]
  /\ UNCHANGED <<notes, drafts, cache, save, asked, history, troubles>>

\* onDelete, confirmed and carried out, and the index after it, in one step.  The
\* page stays dirty, and its timers set.
Delete(p) ==
  LET n == page[p].note.id IN
  /\ page[p].at = "open" /\ page[p].note # Nothing /\ ~page[p].offline
  /\ CanSwitch(p) /\ asked[p] = {}
  /\ notes[n].live /\ notes[n].version < MaxVersion
  /\ notes' = [notes EXCEPT ![n].live = FALSE, ![n].version = @ + 1]
  /\ drafts' = [drafts EXCEPT ![n] = Nothing]
  /\ page' = [page EXCEPT ![p].note = Nothing, ![p].buffer = Empty, ![p].shown = "no"]
  /\ forgone' = forgone \cup ((page[p].buffer \cup Drafted(n)) \ notes[n].body)
  /\ UNCHANGED <<cache, save, asked, home, overruled, troubles>>

\* onRestore, from the trash.
Restore(p, n) ==
  /\ page[p].at = "open" /\ notes[n] # Nothing /\ ~notes[n].live
  /\ notes' = [notes EXCEPT ![n].live = TRUE, ![n].version = @ + 1]
  /\ page' = [page EXCEPT ![p].offline = FALSE]
  /\ UNCHANGED <<drafts, cache, save, asked, history, troubles>>

\* The browser loses its connection, or the index cannot be had.
GoOffline(p) ==
  /\ page[p].at = "open" /\ ~page[p].offline /\ Trouble
  /\ page' = [page EXCEPT ![p].offline = TRUE]
  /\ UNCHANGED <<notes, drafts, cache, save, asked, history>>

\* It has one again.  What was not saved meanwhile waits for another word.
GoOnline(p) ==
  /\ page[p].at = "open" /\ page[p].offline
  /\ page' = [page EXCEPT ![p].offline = FALSE]
  /\ UNCHANGED <<notes, drafts, cache, save, asked, history, troubles>>

\* Somebody types into a note in another browser, and it is saved.
Elsewhere(n, w) ==
  /\ notes[n] # Nothing /\ notes[n].live /\ w \notin Titles
  /\ Types(w, n)
  /\ notes' = [notes EXCEPT ![n].body = @ \cup {w}, ![n].version = @ + 1]
  /\ UNCHANGED <<drafts, cache, page, save, asked, forgone, overruled, troubles>>

-----------------------------------------------------------------------------
Init ==
  /\ notes = [n \in Note |-> IF n \in Existing
                THEN [body |-> Stub, version |-> 1, live |-> TRUE] ELSE Nothing]
  /\ drafts = [k \in Key |-> Nothing]
  /\ cache = [n \in Note |-> Nothing]
  /\ page = [p \in Page |-> Blank]
  /\ save = [p \in Page |-> NoSave]
  /\ asked = [p \in Page |-> {}]
  /\ home = [w \in {} |-> "new"]
  /\ forgone = {} /\ overruled = {} /\ troubles = 0

Next ==
  \/ \E p \in Page : \E w \in Word : Type(p, w) \/ Rename(p, w)
  \/ \E p \in Page : DraftTimer(p) \/ SaveTimer(p) \/ SaveNow(p) \/ Hide(p) \/ Kill(p)
  \/ \E p \in Page : ServerSave(p) \/ Lose(p) \/ SaveDone(p) \/ IndexDone(p)
  \/ \E p \in Page : OpenPage(p) \/ StartNew(p) \/ Resume(p) \/ Delete(p) \/ GoOffline(p) \/ GoOnline(p)
  \/ \E p \in Page, n \in Note : Open(p, n) \/ OpenDone(p, n) \/ Restore(p, n)
  \/ \E n \in Note, w \in Word : Elsewhere(n, w)

Spec == Init /\ [][Next]_vars

-----------------------------------------------------------------------------
\* "Nothing you typed is ever lost" (api.ts): a word is on the server, in a
\* draft, or in an open page that is about to write its draft, whatever crashes,
\* conflicts and lost answers there were, unless somebody gave it up.  Holds for
\* patient people.
TypingIsKept ==
  \A w \in Typed \ (forgone \cup overruled) :
    \/ \E n \in Note : notes[n] # Nothing /\ w \in notes[n].body
    \/ \E k \in Key : drafts[k] # Nothing /\ w \in drafts[k]
    \/ \E p \in Page : page[p].at \in {"open", "left"} /\ page[p].draftTimer /\ w \in page[p].buffer

\* A word typed into one note is never stored, nor drafted, as another's: the
\* buffer, the note and the key it is saved under change hands together through
\* conflicts, restored drafts, deletions and dying tabs.  Holds for patient
\* people, who let no answer of a save find another note open.
TextStaysInItsNote ==
  \A w \in Typed, n \in Note :
    \/ notes[n] # Nothing /\ w \in notes[n].body
    \/ drafts[n] # Nothing /\ w \in drafts[n]
    => home[w] \in {n, "new"}

\* "The editor buffer. Diverges from note.body while there are edits" (index.ts,
\* line 54): without edits it is the open note's body, also when the server
\* rewrote that, and after a conflict, a deletion or a draft taken up again.
\* Holds for patient people only: the answer of a save is adopted whatever note
\* is open by then (index.ts, line 203), and breaks it then.
BufferIsTheNote ==
  \A p \in Page :
    page[p].at = "open" /\ page[p].note # Nothing /\ ~page[p].dirty
      => page[p].buffer = page[p].note.body

\* A note without unsaved words has no draft that differs from it: nobody is
\* offered, next time, to restore what is already saved (index.ts, flushSave).
NothingToRestore ==
  \A p \in Page :
    page[p].at = "open" /\ page[p].note # Nothing /\ ~page[p].dirty
      => drafts[page[p].note.id] \in {Nothing, page[p].note.body}

\* "So the editor can warn instead of silently clobbering another tab": a save
\* takes a word out of a note only when somebody was shown it in a conflict.
NoSilentClobber ==
  [][\A n \in Note, w \in Word :
       notes[n] # Nothing /\ w \in notes[n].body /\ w \notin notes'[n].body
         => w \in overruled]_vars
=============================================================================
