------------------------- MODULE NotesEditorProofs -------------------------
(***************************************************************************)
(* What is typed on the notes page is kept, proved for any number of       *)
(* pages, notes, words, lost requests and killed tabs, of people who wait  *)
(* for "saved" before they go to another note.                             *)
(*                                                                         *)
(* What was typed is said to be kept by three kinds of copies: the notes   *)
(* on the server, the drafts, and the buffers.  None of them is ever worth *)
(* less than the other it replaces: Covers says that a text lacks no word  *)
(* of another that nobody gave up.  A buffer covers the draft it will be   *)
(* written over, and the version of the note it will be saved over; the    *)
(* version is what makes the second so, since the server refuses a save    *)
(* from any other.  Fits says that all words of a text were typed into the *)
(* note it is kept for, and Faithful what an old answer is worth: it is    *)
(* still covered by what the server has.  Only one page at a time has      *)
(* anything to do (Alone), so nobody writes under the feet of another.     *)
(***************************************************************************)
EXTENDS NotesEditor, FiniteSetTheorems, TLAPS

USE EditorAssumption, NothingAssumption

-----------------------------------------------------------------------------
(* Types. *)

Save == [stage : {"idle", "sent", "answered", "indexing"}, into : Key, body : Body, base : Nat,
         reply : {"none", "saved", "conflict", "error"}, given : Copy \cup {Nothing}]

EditorTypeOK ==
  /\ notes \in [Note -> Stored \cup {Nothing}]
  /\ drafts \in [Key -> Body \cup {Nothing}]
  /\ cache \in [Note -> Copy \cup {Nothing}]
  /\ page \in [Page -> View]
  /\ save \in [Page -> Save]
  /\ asked \in [Page -> SUBSET Note]
  /\ home \in [Typed -> Key]
  /\ Typed = 1..Cardinality(Typed) /\ Typed \subseteq Word
  /\ forgone \subseteq Int /\ overruled \subseteq Int
  /\ troubles \in Nat

-----------------------------------------------------------------------------
(* What holds besides. *)

Alive(p) == page[p].at \in {"open", "left"}
Active(p) ==
  /\ Alive(p)
  /\ page[p].at = "open" \/ Saving(p) \/ page[p].saveTimer \/ page[p].draftTimer
Awaits(p) == save[p].stage \in {"sent", "answered"}

GivenUp == forgone \cup overruled
OnServer == {w \in Word : \E n \in Note : notes[n] # Nothing /\ w \in notes[n].body}

\* Of the words of a text none is missing that nobody gave up.
Covers(other, body) == \A w \in Word : w \in body => w \in other \/ w \in GivenUp

\* Every word of a text was typed into k, or into a note without an id.
Fits(body, k) == \A w \in Word : w \in body => w \in Typed /\ home[w] \in {k, "new"}

\* What the server said of a note, now or before.
Faithful(c) ==
  /\ notes[c.id] # Nothing
  /\ c.version <= notes[c.id].version
  /\ c.version = notes[c.id].version => c.body = notes[c.id].body
  /\ Covers(OnServer, c.body)
  /\ Fits(c.body, c.id)

NoteOK(n) ==
  /\ notes[n] # Nothing => Fits(notes[n].body, n)
  /\ notes[n] = Nothing => drafts[n] = Nothing
  /\ cache[n] # Nothing => cache[n].id = n /\ Faithful(cache[n])

\* A request, whether its page lives or not: one that the server would accept
\* takes no word out of the note that nobody gave up.
SaveOK(p) ==
  LET s == save[p] IN
  /\ Awaits(p) => Fits(s.body, s.into) /\ (s.into # "new" => notes[s.into] # Nothing)
  /\ s.stage = "sent" /\ s.into # "new" =>
       /\ s.base <= notes[s.into].version
       /\ s.base = notes[s.into].version => Covers(s.body, notes[s.into].body)
  /\ s.stage = "answered" /\ s.reply \in {"saved", "conflict"} =>
       /\ s.given # Nothing /\ Faithful(s.given)
       /\ s.into # "new" => s.given.id = s.into
  /\ s.stage = "answered" /\ s.reply = "saved" =>
       s.body \subseteq s.given.body /\ (\A w \in Word : w \in s.given.body => w \in s.body)
  /\ s.stage = "answered" /\ s.reply = "conflict" => s.into # "new"

\* A page not opened has done nothing, one that was left or died does no more
\* than is on its way.
Ended(p) ==
  /\ page[p].at = "none" => page[p] = Blank /\ save[p].stage = "idle"
  /\ ~Alive(p) => asked[p] = {}
  /\ page[p].at = "left" => ~page[p].draftTimer

\* The buffer is of the page's note: it fits it, and lacks nothing of the version
\* the page has; or of the note that has no id yet.
Texts(p) ==
  LET v == page[p] IN
  /\ v.note # Nothing =>
       /\ notes[v.note.id] # Nothing
       /\ v.note.version <= notes[v.note.id].version
       /\ v.note.version = notes[v.note.id].version => Covers(v.buffer, notes[v.note.id].body)
       /\ Fits(v.buffer, v.note.id)
  /\ v.note = Nothing /\ (v.dirty \/ v.shown = "yes") => Fits(v.buffer, "new")

\* A page that waits for a note has nothing to save.
Asks(p) ==
  asked[p] # {} =>
    /\ ~page[p].dirty /\ ~Saving(p) /\ ~page[p].saveTimer /\ ~page[p].draftTimer
    /\ \E n \in Note : asked[p] = {n} /\ notes[n] # Nothing

\* A page that waits for an answer still has what it asked for.
Expects(p) ==
  LET v == page[p] IN
  Awaits(p) =>
    /\ v.dirty /\ save[p].into = KeyOf(v) /\ save[p].body \subseteq v.buffer
    /\ v.note # Nothing => save[p].base = v.note.version
    /\ v.note = Nothing => v.buffer = save[p].body

Screen(p) ==
  LET v == page[p] IN
  v.at = "open" =>
    /\ v.dirty => v.shown = "yes"
    /\ v.note # Nothing /\ ~v.dirty => v.buffer = v.note.body

PageOK(p) == Ended(p) /\ (Alive(p) => Texts(p) /\ Asks(p) /\ Expects(p)) /\ Screen(p)

\* A page and the drafts.
DraftOK(p) ==
  LET v == page[p] IN
  /\ Active(p) /\ (v.dirty \/ v.shown = "yes") => Covers(v.buffer, Drafted(KeyOf(v)))
  /\ Alive(p) /\ save[p].stage = "answered" /\ save[p].reply = "saved" /\ save[p].into = "new"
       => save[p].given # Nothing /\ drafts[save[p].given.id] = Nothing
  /\ v.at = "open" /\ v.note # Nothing /\ ~v.dirty => drafts[v.note.id] \in {Nothing, v.note.body}

\* One page at a time has anything to do.
Alone == \A p, q \in Page : Active(p) /\ Active(q) => p = q

Kept(w) ==
  \/ w \in OnServer
  \/ \E k \in Key : w \in Drafted(k)
  \/ \E p \in Page : Alive(p) /\ page[p].draftTimer /\ page[p].dirty /\ w \in page[p].buffer

EditorInv ==
  /\ EditorTypeOK
  /\ \A n \in Note : NoteOK(n)
  /\ \A k \in Key : drafts[k] # Nothing => Fits(drafts[k], k)
  /\ \A p \in Page : SaveOK(p) /\ PageOK(p) /\ DraftOK(p)
  /\ Alone
  /\ \A w \in Typed : w \in GivenUp \/ Kept(w)

-----------------------------------------------------------------------------
(* What a step leaves as it was.                                              *)

\* Words are typed once and given up for good; a note is not forgotten, and its
\* body changes with its version; a word that leaves the server was given up.
Onward ==
  /\ \A w \in Typed : w \in Typed' /\ home'[w] = home[w]
  /\ \A w \in GivenUp : w \in GivenUp'
  /\ \A n \in Note : notes[n] # Nothing =>
       /\ notes'[n] # Nothing
       /\ notes'[n] = notes[n] \/ notes[n].version < notes'[n].version
  /\ \A w \in Word : w \in OnServer => w \in OnServer' \/ w \in GivenUp'

LEMMA FitsStays ==
  ASSUME NEW body, NEW k, Fits(body, k), Onward PROVE Fits(body, k)'
BY DEF Fits, Onward

LEMMA CoversStays ==
  ASSUME NEW other, NEW body, Covers(other, body), Onward PROVE Covers(other, body)'
BY DEF Covers, Onward

LEMMA FaithfulStays ==
  ASSUME EditorTypeOK, EditorTypeOK', Onward, NEW c \in Copy, Faithful(c) PROVE Faithful(c)'
<1>1. c.id \in Note /\ c.version \in Nat
  BY DEF Copy
<1>2. /\ notes[c.id] # Nothing /\ notes'[c.id] # Nothing
      /\ notes[c.id] \in Stored /\ notes'[c.id] \in Stored
      /\ notes'[c.id] = notes[c.id] \/ notes[c.id].version < notes'[c.id].version
  BY <1>1 DEF Faithful, Onward, EditorTypeOK
<1>3. notes[c.id].version \in Nat /\ notes'[c.id].version \in Nat
  BY <1>2 DEF Stored
<1>4. Covers(OnServer, c.body)'
  BY DEF Faithful, Covers, Onward
<1>5. Fits(c.body, c.id)'
  BY FitsStays DEF Faithful
<1> QED
  BY <1>1, <1>2, <1>3, <1>4, <1>5 DEF Faithful

LEMMA SaveStays ==
  ASSUME EditorTypeOK, EditorTypeOK', Onward, NEW p \in Page, SaveOK(p), save'[p] = save[p]
  PROVE  SaveOK(p)'
<1>1. PICK s \in Save : s = save[p]
  BY DEF EditorTypeOK
<1>2. s.into \in Key /\ s.given \in Copy \cup {Nothing} /\ s.base \in Nat
  BY DEF Save
<1>3. Awaits(p) => Fits(s.body, s.into)'
  BY <1>1, FitsStays DEF SaveOK
<1>4. s.stage = "answered" /\ s.reply \in {"saved", "conflict"} => s.given # Nothing /\ Faithful(s.given)'
  BY <1>1, <1>2, FaithfulStays DEF SaveOK
<1>5. s.into # "new" => s.into \in Note
  BY <1>2 DEF Key
<1>6. \A n \in Note : notes[n] # Nothing =>
        /\ notes'[n] # Nothing /\ notes[n].version \in Nat /\ notes'[n].version \in Nat
        /\ notes'[n] = notes[n] \/ notes[n].version < notes'[n].version
  BY DEF Onward, EditorTypeOK, Stored
<1>7. s.stage = "sent" /\ s.into # "new" =>
        /\ s.base <= notes'[s.into].version
        /\ s.base = notes'[s.into].version => Covers(s.body, notes[s.into].body)' /\ notes'[s.into] = notes[s.into]
  BY <1>1, <1>2, <1>5, <1>6, CoversStays DEF SaveOK, Awaits
<1>8. Awaits(p)' <=> Awaits(p)
  BY DEF Awaits
<1> QED
  BY <1>1, <1>3, <1>4, <1>5, <1>6, <1>7, <1>8 DEF SaveOK, Awaits

\* What a page has still suits the notes.
LEMMA TextsStay ==
  ASSUME EditorTypeOK, EditorTypeOK', Onward, NEW p \in Page, Texts(p),
         page'[p].note = page[p].note, page'[p].buffer = page[p].buffer,
         page'[p].dirty => page[p].dirty,
         page'[p].shown = "yes" => page[p].shown = "yes"
  PROVE  Texts(p)'
<1>1. PICK v \in View : v = page[p]
  BY DEF EditorTypeOK
<1>2. v.note \in Copy \cup {Nothing}
  BY DEF View
<1>3. ASSUME v.note # Nothing
      PROVE  /\ notes'[v.note.id] # Nothing
             /\ v.note.version <= notes'[v.note.id].version
             /\ v.note.version = notes'[v.note.id].version => Covers(v.buffer, notes[v.note.id].body)'
             /\ Fits(v.buffer, v.note.id)'
  <2>1. v.note.id \in Note /\ v.note.version \in Nat
    BY <1>2, <1>3 DEF Copy
  <2>2. notes[v.note.id] # Nothing
    BY <1>1, <1>3 DEF Texts
  <2>3. /\ notes'[v.note.id] # Nothing
        /\ notes[v.note.id].version \in Nat /\ notes'[v.note.id].version \in Nat
        /\ notes'[v.note.id] = notes[v.note.id] \/ notes[v.note.id].version < notes'[v.note.id].version
    BY <2>1, <2>2 DEF Onward, EditorTypeOK, Stored
  <2>4. Fits(v.buffer, v.note.id)'
    BY <1>1, <1>3, FitsStays DEF Texts
  <2>5. v.note.version <= notes'[v.note.id].version
    BY <1>1, <1>3, <2>1, <2>3 DEF Texts
  <2>6. ASSUME v.note.version = notes'[v.note.id].version
        PROVE  Covers(v.buffer, notes[v.note.id].body)'
    <3>1. notes'[v.note.id] = notes[v.note.id] /\ Covers(v.buffer, notes[v.note.id].body)
      BY <1>1, <1>3, <2>1, <2>3, <2>6 DEF Texts
    <3> QED
      BY <3>1 DEF Covers, Onward
  <2> QED
    BY <2>3, <2>4, <2>5, <2>6
<1>4. v.note = Nothing /\ (page'[p].dirty \/ page'[p].shown = "yes") => Fits(v.buffer, "new")'
  BY <1>1, FitsStays DEF Texts
<1> QED
  BY <1>1, <1>3, <1>4 DEF Texts

LEMMA AsksStay ==
  ASSUME Onward, NEW p \in Page, Asks(p), asked'[p] = asked[p],
         page'[p].dirty => page[p].dirty, page'[p].saveTimer => page[p].saveTimer,
         page'[p].draftTimer => page[p].draftTimer, Saving(p)' => Saving(p)
  PROVE  Asks(p)'
BY DEF Asks, Onward

LEMMA PageStays ==
  ASSUME EditorTypeOK, EditorTypeOK', Onward, NEW p \in Page, PageOK(p),
         UNCHANGED <<page[p], save[p], asked[p]>>
  PROVE  PageOK(p)'
<1>1. Alive(p)' = Alive(p) /\ Saving(p)' = Saving(p) /\ Awaits(p)' = Awaits(p)
  BY DEF Alive, Saving, Awaits
<1>2. Ended(p)' /\ Screen(p)'
  BY <1>1 DEF PageOK, Ended, Screen
<1>3. Texts(p) => Texts(p)'
  BY TextsStay
<1>4. Asks(p) => Asks(p)'
  BY <1>1, AsksStay
<1>5. Expects(p) => Expects(p)'
  BY <1>1 DEF Expects
<1> QED
  BY <1>1, <1>2, <1>3, <1>4, <1>5 DEF PageOK

LEMMA NoteStays ==
  ASSUME EditorTypeOK, EditorTypeOK', Onward, NEW n \in Note, NoteOK(n),
         notes'[n] = notes[n], cache'[n] = cache[n], drafts'[n] \in {drafts[n], Nothing}
  PROVE  NoteOK(n)'
<1>1. notes[n] # Nothing => Fits(notes[n].body, n)'
  BY FitsStays DEF NoteOK
<1>2. cache[n] \in Copy \cup {Nothing}
  BY DEF EditorTypeOK
<1>3. cache[n] # Nothing => Faithful(cache[n])'
  BY <1>2, FaithfulStays DEF NoteOK
<1> QED
  BY <1>1, <1>3 DEF NoteOK

LEMMA DraftStays ==
  ASSUME EditorTypeOK, EditorTypeOK', Onward, NEW p \in Page, DraftOK(p),
         UNCHANGED <<page[p], save[p]>>,
         Active(p) => \A k \in Key : drafts'[k] \in {drafts[k], Nothing}
  PROVE  DraftOK(p)'
<1>1. PICK v \in View : v = page[p]
  BY DEF EditorTypeOK
<1>2. PICK s \in Save : s = save[p]
  BY DEF EditorTypeOK
<1>3. KeyOf(v) \in Key
  BY DEF View, Copy, Key, KeyOf
<1>4. /\ v.note # Nothing => v.note.id \in Key
      /\ s.given # Nothing => s.given.id \in Key
  BY DEF View, Copy, Key, Save
<1>5. Active(p)' = Active(p) /\ Alive(p)' = Alive(p)
  BY DEF Active, Alive, Saving
<1>6. Active(p) => \A w : w \in Drafted(KeyOf(v))' => w \in Drafted(KeyOf(v))
  BY <1>3 DEF Drafted
<1>7. Active(p) /\ (v.dirty \/ v.shown = "yes") => Covers(v.buffer, Drafted(KeyOf(v)))'
  BY <1>1, <1>6 DEF DraftOK, Covers, Onward
<1>8. /\ Alive(p) /\ s.stage = "answered" => Active(p)
      /\ v.at = "open" => Active(p)
  BY <1>1, <1>2 DEF Active, Alive, Saving
<1>9. Alive(p) /\ s.stage = "answered" /\ s.reply = "saved" /\ s.into = "new"
        => s.given # Nothing /\ drafts'[s.given.id] = Nothing
  BY <1>2, <1>4, <1>8 DEF DraftOK
<1>10. v.at = "open" /\ v.note # Nothing /\ ~v.dirty => drafts'[v.note.id] \in {Nothing, v.note.body}
  BY <1>1, <1>4, <1>8 DEF DraftOK
<1> QED
  BY <1>1, <1>2, <1>5, <1>7, <1>9, <1>10 DEF DraftOK

LEMMA KeptStays ==
  ASSUME Onward, NEW p, \A q \in Page : q # p => UNCHANGED page[q],
         \A w \in Typed : w \in GivenUp \/ Kept(w), Typed \subseteq Word,
         \A w \in Word, k \in Key : w \in Drafted(k) => w \in GivenUp' \/ Kept(w)',
         p \in Page /\ Alive(p) /\ page[p].draftTimer /\ page[p].dirty =>
           \A w \in Word : w \in page[p].buffer => w \in GivenUp' \/ Kept(w)'
  PROVE  \A w \in Typed : w \in GivenUp' \/ Kept(w)'
<1> SUFFICES ASSUME NEW w \in Typed PROVE w \in GivenUp' \/ Kept(w)'
  OBVIOUS
<1>1. w \in Word
  OBVIOUS
<1>2. CASE w \in GivenUp
  BY <1>2 DEF Onward
<1>3. CASE w \in OnServer
  BY <1>1, <1>3 DEF Onward, Kept
<1>4. CASE \E k \in Key : w \in Drafted(k)
  BY <1>1, <1>4
<1>5. ASSUME NEW q \in Page, Alive(q), page[q].draftTimer, page[q].dirty, w \in page[q].buffer
      PROVE  w \in GivenUp' \/ Kept(w)'
  <2>1. CASE q = p
    BY <1>1, <1>5, <2>1
  <2>2. CASE q # p
    <3>1. page'[q] = page[q]
      BY <2>2
    <3> QED
      BY <1>5, <3>1 DEF Kept, Alive
  <2> QED
    BY <2>1, <2>2
<1> QED
  BY <1>2, <1>3, <1>4, <1>5 DEF Kept

\* One page does something, and the others look on.
LEMMA Proceeds ==
  ASSUME EditorInv, EditorTypeOK', Onward, NEW p,
         \A q \in Page : q # p => UNCHANGED <<page[q], save[q], asked[q]>>,
         \A q \in Page : q # p /\ Active(q) => \A k \in Key : drafts'[k] \in {drafts[k], Nothing},
         \A n \in Note : NoteOK(n)',
         \A k \in Key : drafts'[k] # Nothing => Fits(drafts[k], k)',
         p \in Page => /\ SaveOK(p)' /\ PageOK(p)' /\ DraftOK(p)'
                       /\ Active(p)' => Active(p) \/ \A q \in Page : q # p => ~Active(q),
         \A w \in Typed' : w \in GivenUp' \/ Kept(w)'
  PROVE  EditorInv'
<1>1. ASSUME NEW q \in Page, q # p
      PROVE  SaveOK(q)' /\ PageOK(q)' /\ DraftOK(q)' /\ (Active(q)' => Active(q))
  <2>1. UNCHANGED <<page[q], save[q], asked[q]>>
    BY <1>1
  <2>2. SaveOK(q)'
    BY <2>1, SaveStays DEF EditorInv
  <2>3. PageOK(q)'
    BY <2>1, PageStays DEF EditorInv
  <2>4. DraftOK(q)'
    BY <1>1, <2>1, DraftStays DEF EditorInv
  <2>5. Active(q)' => Active(q)
    BY <2>1 DEF Active, Alive, Saving
  <2> QED
    BY <2>2, <2>3, <2>4, <2>5
<1>2. \A q \in Page : SaveOK(q)' /\ PageOK(q)' /\ DraftOK(q)'
  BY <1>1
<1>3. Alone'
  <2> SUFFICES ASSUME NEW a \in Page, NEW b \in Page, Active(a)', Active(b)', a # b
               PROVE  FALSE
    BY DEF Alone
  <2>1. CASE a # p /\ b # p
    BY <1>1, <2>1 DEF EditorInv, Alone
  <2>2. CASE a = p
    BY <1>1, <2>2 DEF EditorInv, Alone
  <2>3. CASE b = p
    BY <1>1, <2>3 DEF EditorInv, Alone
  <2> QED
    BY <2>1, <2>2, <2>3
<1> QED
  BY <1>2, <1>3 DEF EditorInv

\* writeDraft: the draft of the page's note is the buffer, if there is unsaved work.
LEMMA Writes ==
  ASSUME EditorInv, EditorTypeOK', NEW p \in Page, Active(p),
         drafts' = WithDraft(page[p]), UNCHANGED <<notes, cache, home, forgone, overruled>>
  PROVE  /\ \A n \in Note : NoteOK(n)'
         /\ \A k \in Key : drafts'[k] # Nothing => Fits(drafts[k], k)'
         /\ \A w \in Word, k \in Key : w \in Drafted(k) => w \in GivenUp' \/ w \in Drafted(k)'
         /\ page[p].dirty => \A w \in Word : w \in page[p].buffer => \E k \in Key : w \in Drafted(k)'
         /\ ~page[p].dirty => drafts' = drafts
         /\ page[p].dirty => drafts'[KeyOf(page[p])] = page[p].buffer
<1>1. PICK v \in View : v = page[p]
  BY DEF EditorInv, EditorTypeOK
<1>2. PICK own \in Key : own = KeyOf(v)
  BY DEF View, Copy, Key, KeyOf
<1>3. Onward
  BY DEF Onward, GivenUp, OnServer, Typed
<1>4. CASE ~v.dirty
  <2>1. drafts' = drafts
    BY <1>1, <1>4 DEF WithDraft
  <2>2. \A n \in Note : NoteOK(n)'
    <3> TAKE n \in Note
    <3>1. NoteOK(n) /\ notes'[n] = notes[n] /\ cache'[n] = cache[n] /\ drafts'[n] = drafts[n]
      BY <2>1 DEF EditorInv
    <3> QED
      BY <1>3, <3>1, NoteStays DEF EditorInv
  <2>3. \A k \in Key : drafts'[k] # Nothing => Fits(drafts[k], k)'
    <3> TAKE k \in Key
    <3>1. PICK d : d = drafts[k]
      OBVIOUS
    <3>2. d # Nothing => Fits(d, k)'
      BY <1>3, <3>1, FitsStays DEF EditorInv
    <3> QED
      BY <2>1, <3>1, <3>2
  <2> QED
    BY <1>1, <1>4, <2>1, <2>2, <2>3 DEF Drafted
<1>5. CASE v.dirty
  <2>1. drafts' = [drafts EXCEPT ![own] = v.buffer] /\ v.buffer # Nothing /\ v.buffer \in Body
    BY <1>1, <1>2, <1>5 DEF WithDraft, View
  <2>2. /\ drafts'[own] = v.buffer
        /\ \A k \in Key : k # own => drafts'[k] = drafts[k]
    BY <2>1 DEF EditorInv, EditorTypeOK
  <2>3. Texts(p) /\ Covers(v.buffer, Drafted(own))
    BY <1>1, <1>2, <1>5 DEF EditorInv, PageOK, Active, DraftOK
  <2>4. Fits(v.buffer, own)
    BY <1>1, <1>2, <1>5, <2>3 DEF Texts, KeyOf
  <2>5. \A n \in Note : NoteOK(n)'
    <3> TAKE n \in Note
    <3>1. NoteOK(n) /\ notes'[n] = notes[n] /\ cache'[n] = cache[n] /\ n \in Key
      BY DEF EditorInv, Key
    <3>2. CASE n # own
      BY <1>3, <2>2, <3>1, <3>2, NoteStays DEF EditorInv
    <3>3. CASE n = own
      <4>1. notes[n] # Nothing
        BY <1>1, <1>2, <2>3, <3>3 DEF Texts, KeyOf
      <4>2. notes[n] # Nothing => Fits(notes[n].body, n)'
        BY <1>3, <3>1, FitsStays DEF NoteOK
      <4>3. cache[n] \in Copy \cup {Nothing}
        BY DEF EditorInv, EditorTypeOK
      <4>4. cache[n] # Nothing => Faithful(cache[n])'
        BY <1>3, <3>1, <4>3, FaithfulStays DEF NoteOK, EditorInv
      <4> QED
        BY <3>1, <4>1, <4>2, <4>4 DEF NoteOK
    <3> QED
      BY <3>2, <3>3
  <2>6. \A k \in Key : drafts'[k] # Nothing => Fits(drafts[k], k)'
    <3> TAKE k \in Key
    <3>1. PICK d : d = drafts[k]
      OBVIOUS
    <3>2. d # Nothing => Fits(d, k)'
      BY <1>3, <3>1, FitsStays DEF EditorInv
    <3>3. Fits(v.buffer, own)'
      BY <1>3, <2>4, FitsStays
    <3> QED
      BY <2>2, <3>1, <3>2, <3>3
  <2>7. \A w \in Word, k \in Key : w \in Drafted(k) => w \in GivenUp' \/ w \in Drafted(k)'
    <3> TAKE w \in Word, k \in Key
    <3>1. CASE k # own
      BY <2>2, <3>1 DEF Drafted
    <3>2. CASE k = own
      BY <2>1, <2>2, <2>3, <3>2 DEF Drafted, Covers, GivenUp
    <3> QED
      BY <3>1, <3>2
  <2>8. \A w \in Word : w \in v.buffer => w \in Drafted(own)'
    BY <2>1, <2>2 DEF Drafted
  <2> QED
    BY <1>1, <1>2, <1>5, <2>2, <2>5, <2>6, <2>7, <2>8
<1> QED
  BY <1>4, <1>5

\* A step that writes no draft, but may remove one.
LEMMA Rests ==
  ASSUME EditorInv, EditorTypeOK', Onward, \A k \in Key : drafts'[k] \in {drafts[k], Nothing}
  PROVE  /\ \A k \in Key : drafts'[k] # Nothing => Fits(drafts[k], k)'
         /\ \A n \in Note : notes'[n] = notes[n] /\ cache'[n] = cache[n] => NoteOK(n)'
<1>1. ASSUME NEW k \in Key PROVE drafts'[k] # Nothing => Fits(drafts[k], k)'
  <2>1. PICK d : d = drafts[k]
    OBVIOUS
  <2>2. d # Nothing => Fits(d, k)'
    BY <2>1, FitsStays DEF EditorInv
  <2> QED
    BY <2>1, <2>2
<1>2. ASSUME NEW n \in Note, notes'[n] = notes[n], cache'[n] = cache[n] PROVE NoteOK(n)'
  <2>1. n \in Key /\ NoteOK(n)
    BY DEF Key, EditorInv
  <2>2. drafts'[n] \in {drafts[n], Nothing}
    BY <2>1
  <2> QED
    BY <1>2, <2>1, <2>2, NoteStays DEF EditorInv
<1> QED
  BY <1>1, <1>2

-----------------------------------------------------------------------------
(* What the operators make.                                                  *)

LEMMA MarkedMakes ==
  ASSUME NEW v \in View, NEW w \in Word
  PROVE  LET m == Marked(v, w) IN
           /\ m \in View /\ m.at = v.at /\ m.note = v.note /\ m.buffer = v.buffer \cup {w}
           /\ m.dirty = TRUE /\ m.draftTimer = TRUE /\ m.offline = v.offline /\ m.shown = v.shown
<1>1. v.buffer \cup {w} \in Body
  BY DEF View, Body, Word
<1> QED
  BY <1>1 DEF Marked, View

LEMMA KeyOfType ==
  ASSUME NEW v \in View PROVE KeyOf(v) \in Key
BY DEF View, Copy, Key, KeyOf

LEMMA RequestMakes ==
  ASSUME NEW v \in View
  PROVE  LET s == Request(v) IN
           /\ s \in Save /\ s.stage = "sent" /\ s.into = KeyOf(v) /\ s.body = v.buffer
           /\ s.base = IF v.note = Nothing THEN 0 ELSE v.note.version
<1>1. (IF v.note = Nothing THEN 0 ELSE v.note.version) \in Nat
  BY DEF View, Copy
<1>2. v.buffer \in Body
  BY DEF View
<1> QED
  BY <1>1, <1>2, KeyOfType DEF Request, Save

LEMMA NoSaveType == NoSave \in Save /\ [NoSave EXCEPT !.stage = "indexing"] \in Save
<1>1. {} \in Body
  BY DEF Body
<1> QED
  BY <1>1 DEF NoSave, Save, Empty, Key

LEMMA BlankType == Blank \in View /\ [Blank EXCEPT !.at = "killed"] \in View
<1>1. {} \in Body
  BY DEF Body
<1> QED
  BY <1>1 DEF Blank, View, Empty

LEMMA CopyOfMakes ==
  ASSUME NEW n \in Note, NEW row \in Stored
  PROVE  /\ CopyOf(n, row) \in Copy /\ CopyOf(n, row).id = n
         /\ CopyOf(n, row).body = row.body /\ CopyOf(n, row).version = row.version
BY DEF CopyOf, Copy, Stored

LEMMA RewrittenMakes ==
  ASSUME NEW old \in Body, NEW sent \in Body
  PROVE  /\ Rewritten(old, sent) \in Body
         /\ sent \subseteq Rewritten(old, sent)
         /\ \A w \in Word : w \in Rewritten(old, sent) => w \in sent
<1>1. PICK names : names = {0 - w : w \in (sent \ old) \cap Titles}
  OBVIOUS
<1>2. \A x \in names : x \in (0 - MaxWords)..MaxWords /\ x \notin Word
  <2>1. \A w \in Titles : w \in 1..MaxWords
    OBVIOUS
  <2>2. \A w \in 1..MaxWords : 0 - w \in (0 - MaxWords)..MaxWords /\ 0 - w \notin 1..MaxWords
    OBVIOUS
  <2> QED
    BY <1>1, <2>1, <2>2 DEF Word
<1>3. Rewritten(old, sent) = sent \cup names
  BY <1>1 DEF Rewritten
<1> QED
  BY <1>2, <1>3 DEF Body

\* A new word.
LEMMA TypesMakes ==
  ASSUME EditorTypeOK, NEW w, NEW k \in Key, Types(w, k)
  PROVE  /\ w \in Word /\ w \notin Typed /\ Typed' = Typed \cup {w}
         /\ home'[w] = k /\ \A x \in Typed : home'[x] = home[x]
         /\ home' \in [Typed' -> Key]
         /\ Typed' = 1..Cardinality(Typed') /\ Typed' \subseteq Word
<1>1. PICK m : m = Cardinality(Typed)
  OBVIOUS
<1>2. Typed = 1..m /\ Typed \subseteq Word
  BY <1>1 DEF EditorTypeOK
<1>3. m \in Nat
  <2>1. IsFiniteSet(Word)
    BY FS_Interval DEF Word
  <2>2. IsFiniteSet(Typed)
    BY <1>2, <2>1, FS_Subset
  <2> QED
    BY <1>1, <2>2, FS_CardinalityType
<1>4. w = m + 1 /\ w \in Word /\ w \notin Typed
  <2>1. w = m + 1 /\ w \in Word
    BY <1>1 DEF Types
  <2> QED
    BY <1>2, <1>3, <2>1
<1>5. home' = [x \in Typed \cup {w} |-> IF x = w THEN k ELSE home[x]]
  BY DEF Types
<1>6. Typed' = Typed \cup {w}
  BY <1>5 DEF Typed
<1>7. Typed' = 1..(m + 1)
  BY <1>2, <1>3, <1>4, <1>6
<1>8. Cardinality(Typed') = m + 1
  <2>1. PICK b \in Int : b = m + 1 /\ b >= 1
    BY <1>3
  <2>2. Cardinality(1..b) = IF 1 > b THEN 0 ELSE b - 1 + 1
    BY FS_Interval
  <2> QED
    BY <1>7, <2>1, <2>2
<1>9. home \in [Typed -> Key]
  BY DEF EditorTypeOK
<1>10. home'[w] = k /\ \A x \in Typed : home'[x] = home[x]
  BY <1>4, <1>5
<1>11. home' \in [Typed' -> Key]
  BY <1>5, <1>6, <1>9
<1> QED
  BY <1>2, <1>4, <1>6, <1>7, <1>8, <1>10, <1>11

-----------------------------------------------------------------------------
(* Every step keeps the types.                                                *)

LEMMA InitEditorType == Init => EditorTypeOK
<1> SUFFICES ASSUME Init PROVE EditorTypeOK
  OBVIOUS
<1>1. Typed = {}
  BY DEF Init, Typed
<1>2. Typed = 1..Cardinality(Typed)
  BY <1>1, FS_EmptySet
<1>3. Stub \in Body
  BY DEF Stub, Body
<1>4. notes \in [Note -> Stored \cup {Nothing}]
  BY <1>3 DEF Init, Stored
<1>5. home \in [Typed -> Key] /\ Typed \subseteq Word
  BY <1>1 DEF Init
<1> QED
  BY <1>2, <1>4, <1>5, BlankType, NoSaveType DEF Init, EditorTypeOK

LEMMA FlushType ==
  ASSUME EditorTypeOK, NEW p \in Page, NEW v \in View, Flush(p, v)
  PROVE  page' \in [Page -> View] /\ save' \in [Page -> Save]
<1>1. [v EXCEPT !.saveTimer = FALSE] \in View
  BY DEF View
<1>2. Request(v) \in Save
  BY RequestMakes
<1> QED
  BY <1>1, <1>2 DEF Flush, EditorTypeOK

LEMMA WithDraftType ==
  ASSUME EditorTypeOK, NEW v \in View PROVE WithDraft(v) \in [Key -> Body \cup {Nothing}]
<1>1. v.buffer \in Body
  BY DEF View
<1> QED
  BY <1>1 DEF WithDraft, EditorTypeOK

\* The variables a step of a page does not touch keep their types.
LEMMA WordsKeepType ==
  ASSUME EditorTypeOK, UNCHANGED home
  PROVE  /\ home' \in [Typed' -> Key]
         /\ Typed' = 1..Cardinality(Typed') /\ Typed' \subseteq Word
<1>1. Typed' = Typed
  BY DEF Typed
<1> QED
  BY <1>1 DEF EditorTypeOK

LEMMA TypeType ==
  ASSUME EditorTypeOK, NEW p \in Page, NEW w \in Word, Type(p, w) \/ Rename(p, w) PROVE EditorTypeOK'
<1>1. PICK v \in View : v = page[p]
  BY DEF EditorTypeOK
<1>2. PICK m \in View : m = Marked(v, w)
  BY MarkedMakes
<1>3. Types(w, KeyOf(v)) /\ KeyOf(v) \in Key
  BY <1>1, KeyOfType DEF Type, Rename
<1>4. /\ home' \in [Typed' -> Key]
      /\ Typed' = 1..Cardinality(Typed') /\ Typed' \subseteq Word
  BY <1>3, TypesMakes
<1>5. page' \in [Page -> View] /\ save' \in [Page -> Save]
  <2>1. CASE Type(p, w)
    BY <1>1, <1>2, <2>1 DEF Type, EditorTypeOK
  <2>2. CASE Rename(p, w)
    BY <1>1, <1>2, <2>2, FlushType DEF Rename
  <2> QED
    BY <2>1, <2>2
<1> QED
  BY <1>4, <1>5 DEF Type, Rename, EditorTypeOK

LEMMA TimersType ==
  ASSUME EditorTypeOK, NEW p \in Page, DraftTimer(p) \/ SaveTimer(p) \/ SaveNow(p) \/ Hide(p)
  PROVE  EditorTypeOK'
<1>1. PICK v \in View : v = page[p]
  BY DEF EditorTypeOK
<1>2. /\ home' \in [Typed' -> Key]
      /\ Typed' = 1..Cardinality(Typed') /\ Typed' \subseteq Word
  BY WordsKeepType DEF DraftTimer, SaveTimer, SaveNow, Hide, history
<1>3. CASE DraftTimer(p)
  <2>1. drafts' \in [Key -> Body \cup {Nothing}]
    BY <1>1, <1>3, WithDraftType DEF DraftTimer
  <2>2. [v EXCEPT !.draftTimer = FALSE] \in View
    BY DEF View
  <2>3. page' \in [Page -> View]
    BY <1>1, <1>3, <2>2 DEF DraftTimer, EditorTypeOK
  <2> QED
    BY <1>2, <1>3, <2>1, <2>3 DEF DraftTimer, EditorTypeOK, history
<1>4. CASE SaveTimer(p) \/ SaveNow(p)
  <2>1. page' \in [Page -> View] /\ save' \in [Page -> Save]
    BY <1>1, <1>4, FlushType DEF SaveTimer, SaveNow
  <2> QED
    BY <1>2, <1>4, <2>1 DEF SaveTimer, SaveNow, EditorTypeOK, history
<1>5. CASE Hide(p)
  <2>1. drafts' \in [Key -> Body \cup {Nothing}]
    BY <1>1, <1>5, WithDraftType DEF Hide
  <2>2. PICK at \in {"open", "left"} : Flush(p, [v EXCEPT !.at = at, !.draftTimer = FALSE])
    BY <1>1, <1>5 DEF Hide
  <2>3. [v EXCEPT !.at = at, !.draftTimer = FALSE] \in View
    BY DEF View
  <2>4. page' \in [Page -> View] /\ save' \in [Page -> Save]
    BY <2>2, <2>3, FlushType
  <2> QED
    BY <1>2, <1>5, <2>1, <2>4 DEF Hide, EditorTypeOK, history
<1> QED
  BY <1>3, <1>4, <1>5

LEMMA BufferInts == ASSUME NEW b \in Body PROVE b \subseteq Int
BY DEF Body

LEMMA KillType == ASSUME EditorTypeOK, NEW p \in Page, Kill(p) PROVE EditorTypeOK'
<1>1. page[p].buffer \subseteq Int
  BY BufferInts DEF EditorTypeOK, View
<1>2. forgone' \subseteq Int
  BY <1>1 DEF Kill, EditorTypeOK
<1>3. /\ home' \in [Typed' -> Key]
      /\ Typed' = 1..Cardinality(Typed') /\ Typed' \subseteq Word
  BY WordsKeepType DEF Kill
<1>4. page' \in [Page -> View] /\ troubles' \in Nat
  BY BlankType DEF Kill, EditorTypeOK, Trouble
<1> QED
  BY <1>2, <1>3, <1>4 DEF Kill, EditorTypeOK

LEMMA AnsweredMakes ==
  ASSUME EditorTypeOK, NEW p \in Page, NEW reply \in {"saved", "conflict", "error"},
         NEW given \in Copy \cup {Nothing}, Answered(p, reply, given)
  PROVE  /\ save' \in [Page -> Save]
         /\ save'[p].stage = "answered" /\ save'[p].reply = reply /\ save'[p].given = given
         /\ save'[p].into = save[p].into /\ save'[p].body = save[p].body
         /\ save'[p].base = save[p].base
         /\ \A q \in Page : q # p => save'[q] = save[q]
<1>1. PICK s \in Save : s = save[p]
  BY DEF EditorTypeOK
<1>2. PICK t : t = [s EXCEPT !.stage = "answered", !.reply = reply, !.given = given]
  OBVIOUS
<1>3. /\ t \in Save /\ t.stage = "answered" /\ t.reply = reply /\ t.given = given
      /\ t.into = s.into /\ t.body = s.body /\ t.base = s.base
  BY <1>2 DEF Save
<1>4. save' = [save EXCEPT ![p] = t]
  BY <1>1, <1>2 DEF Answered
<1> QED
  BY <1>1, <1>3, <1>4 DEF EditorTypeOK

\* What the server does with a request.
LEMMA ServerSaveMakes ==
  ASSUME EditorInv, NEW p \in Page, ServerSave(p)
  PROVE  LET s == save[p] IN
         /\ s.stage = "sent" /\ UNCHANGED <<drafts, cache, page, asked, history, troubles>>
         /\ \/ \E n \in Note, row \in Stored, c \in Copy :
                 /\ s.into = "new" /\ notes[n] = Nothing
                 /\ notes' = [notes EXCEPT ![n] = row] /\ row.body = s.body
                 /\ c.id = n /\ c.body = row.body /\ c.version = row.version
                 /\ Answered(p, "saved", c)
            \/ \E row \in Stored, c \in Copy :
                 /\ s.into \in Note /\ notes[s.into] \in Stored /\ s.base = notes[s.into].version
                 /\ notes' = [notes EXCEPT ![s.into] = row]
                 /\ row.body = Rewritten(notes[s.into].body, s.body)
                 /\ row.version = notes[s.into].version + 1
                 /\ c.id = s.into /\ c.body = row.body /\ c.version = row.version
                 /\ Answered(p, "saved", c)
            \/ \E c \in Copy :
                 /\ s.into \in Note /\ notes' = notes /\ notes[s.into] \in Stored
                 /\ c.id = s.into /\ c.body = notes[s.into].body /\ c.version = notes[s.into].version
                 /\ Answered(p, "conflict", c)
            \/ notes' = notes /\ Answered(p, "error", Nothing)
<1>1. PICK s \in Save : s = save[p]
  BY DEF EditorInv, EditorTypeOK
<1>2. s.stage = "sent" /\ UNCHANGED <<drafts, cache, page, asked, history, troubles>>
  BY <1>1 DEF ServerSave
<1>3. s.into \in Key /\ s.body \in Body
  BY DEF Save
<1>4. s.into # "new" => s.into \in Note /\ notes[s.into] \in Stored
  BY <1>1, <1>2, <1>3 DEF EditorInv, SaveOK, Awaits, Key, EditorTypeOK
<1>5. ASSUME NEW n \in Note, s.into = "new", notes[n] = Nothing,
             notes' = [notes EXCEPT ![n] = [body |-> s.body, version |-> 1, live |-> TRUE]],
             Answered(p, "saved", CopyOf(n, notes'[n]))
      PROVE  \E row \in Stored, c \in Copy :
                 /\ notes' = [notes EXCEPT ![n] = row] /\ row.body = s.body
                 /\ c.id = n /\ c.body = row.body /\ c.version = row.version
                 /\ Answered(p, "saved", c)
  <2>1. PICK row \in Stored : row = [body |-> s.body, version |-> 1, live |-> TRUE]
    BY <1>3 DEF Stored
  <2>2. notes'[n] = row
    BY <1>5, <2>1 DEF EditorInv, EditorTypeOK
  <2>3. PICK c \in Copy : c = CopyOf(n, row) /\ c.id = n /\ c.body = row.body /\ c.version = row.version
    BY CopyOfMakes
  <2> QED
    BY <1>5, <2>1, <2>2, <2>3
<1>6. ASSUME s.into # "new", s.base = notes[s.into].version,
             notes' = [notes EXCEPT ![s.into].body = Rewritten(@, s.body), ![s.into].version = @ + 1],
             Answered(p, "saved", CopyOf(s.into, notes'[s.into]))
      PROVE  \E row \in Stored, c \in Copy :
                 /\ notes' = [notes EXCEPT ![s.into] = row]
                 /\ row.body = Rewritten(notes[s.into].body, s.body)
                 /\ row.version = notes[s.into].version + 1
                 /\ c.id = s.into /\ c.body = row.body /\ c.version = row.version
                 /\ Answered(p, "saved", c)
  <2>1. PICK n \in Note : n = s.into
    BY <1>4, <1>6
  <2>2. PICK old \in Stored : old = notes[n]
    BY <1>4, <1>6, <2>1
  <2>3. old.body \in Body /\ old.version \in Nat
    BY DEF Stored
  <2>4. PICK body \in Body : body = Rewritten(old.body, s.body)
    BY <1>3, <2>3, RewrittenMakes
  <2>5. PICK row : row = [old EXCEPT !.body = body, !.version = old.version + 1]
    OBVIOUS
  <2>6. row \in Stored /\ row.body = body /\ row.version = old.version + 1
    <3>1. row = [body |-> body, version |-> old.version + 1, live |-> old.live]
      BY <2>5 DEF Stored
    <3>2. old.live \in BOOLEAN /\ old.version + 1 \in Nat
      BY <2>3 DEF Stored
    <3> QED
      BY <3>1, <3>2 DEF Stored
  <2>7. notes' = [notes EXCEPT ![n] = row]
    BY <1>6, <2>1, <2>2, <2>4, <2>5 DEF EditorInv, EditorTypeOK
  <2>8. notes'[n] = row
    BY <2>7 DEF EditorInv, EditorTypeOK
  <2>9. PICK c \in Copy : c = CopyOf(n, row) /\ c.id = n /\ c.body = row.body /\ c.version = row.version
    BY <2>6, CopyOfMakes
  <2> QED
    BY <1>6, <2>1, <2>2, <2>4, <2>6, <2>7, <2>8, <2>9
<1>7. ASSUME s.into # "new", Answered(p, "conflict", CopyOf(s.into, notes[s.into]))
      PROVE  \E c \in Copy :
                 /\ c.id = s.into /\ c.body = notes[s.into].body /\ c.version = notes[s.into].version
                 /\ Answered(p, "conflict", c)
  <2>1. PICK c \in Copy : /\ c = CopyOf(s.into, notes[s.into]) /\ c.id = s.into
                          /\ c.body = notes[s.into].body /\ c.version = notes[s.into].version
    BY <1>4, <1>7, CopyOfMakes
  <2> QED
    BY <1>7, <2>1
<1>8. \/ \E n \in Note :
          /\ s.into = "new" /\ notes[n] = Nothing
          /\ notes' = [notes EXCEPT ![n] = [body |-> s.body, version |-> 1, live |-> TRUE]]
          /\ Answered(p, "saved", CopyOf(n, notes'[n]))
      \/ notes' = notes /\ Answered(p, "error", Nothing)
      \/ /\ s.into # "new" /\ notes' = notes
         /\ Answered(p, "conflict", CopyOf(s.into, notes[s.into]))
      \/ /\ s.into # "new" /\ s.base = notes[s.into].version
         /\ notes' = [notes EXCEPT ![s.into].body = Rewritten(@, s.body), ![s.into].version = @ + 1]
         /\ Answered(p, "saved", CopyOf(s.into, notes'[s.into]))
  BY <1>1 DEF ServerSave
<1> QED
  BY ZenonT(60), <1>1, <1>2, <1>4, <1>5, <1>6, <1>7, <1>8

LEMMA ServerSaveType == ASSUME EditorInv, NEW p \in Page, ServerSave(p) PROVE EditorTypeOK'
<1>1. /\ home' \in [Typed' -> Key]
      /\ Typed' = 1..Cardinality(Typed') /\ Typed' \subseteq Word
  BY WordsKeepType DEF ServerSave, history, EditorInv
<1>2. notes' \in [Note -> Stored \cup {Nothing}]
  BY ServerSaveMakes DEF EditorInv, EditorTypeOK
<1>3. save' \in [Page -> Save]
  BY ServerSaveMakes, AnsweredMakes DEF EditorInv
<1> QED
  BY <1>1, <1>2, <1>3 DEF ServerSave, history, EditorInv, EditorTypeOK

LEMMA LoseType == ASSUME EditorTypeOK, NEW p \in Page, Lose(p) PROVE EditorTypeOK'
<1>1. /\ home' \in [Typed' -> Key]
      /\ Typed' = 1..Cardinality(Typed') /\ Typed' \subseteq Word
  BY WordsKeepType DEF Lose, history
<1>2. save' \in [Page -> Save]
  BY AnsweredMakes DEF Lose
<1> QED
  BY <1>1, <1>2 DEF Lose, Trouble, history, EditorTypeOK

\* What an answered save has: the server's note, when there is one.
LEMMA GivenOf ==
  ASSUME EditorInv, NEW p \in Page, save[p].stage = "answered", save[p].reply \in {"saved", "conflict"}
  PROVE  \E c \in Copy : save[p].given = c /\ Faithful(c)
<1>1. save[p].given \in Copy \cup {Nothing}
  BY DEF EditorInv, EditorTypeOK, Save
<1> QED
  BY <1>1 DEF EditorInv, SaveOK

LEMMA AdoptedMakes ==
  ASSUME NEW v \in View, NEW s \in Save, s.given \in Copy
  PROVE  LET a == Adopted(v, s) IN
         /\ a \in View /\ a.note = s.given /\ a.at = v.at /\ a.shown = v.shown
         /\ v.buffer = s.body => a.buffer = s.given.body /\ a.dirty = FALSE /\ a.draftTimer = FALSE
         /\ v.buffer # s.body => a.buffer = v.buffer /\ a.dirty = v.dirty /\ a.draftTimer = v.draftTimer
<1>1. s.given.body \in Body
  BY DEF Copy
<1>2. CASE v.buffer = s.body
  <2>1. Adopted(v, s) = [v EXCEPT !.note = s.given, !.buffer = s.given.body, !.dirty = FALSE, !.draftTimer = FALSE]
    BY <1>2 DEF Adopted
  <2> QED
    BY <1>1, <1>2, <2>1 DEF View
<1>3. CASE v.buffer # s.body
  <2>1. Adopted(v, s) = [v EXCEPT !.note = s.given, !.saveTimer = TRUE]
    BY <1>3 DEF Adopted
  <2> QED
    BY <1>3, <2>1 DEF View
<1> QED
  BY <1>2, <1>3

LEMMA UndraftedMakes ==
  ASSUME EditorTypeOK, NEW v, NEW s, drafts' = Undrafted(v, s)
  PROVE  /\ drafts' \in [Key -> Body \cup {Nothing}]
         /\ \A k \in Key : drafts'[k] \in {drafts[k], Nothing}
         /\ s.into = "new" => drafts'["new"] = Nothing
         /\ v.buffer = s.body /\ s.given.id \in Key => drafts'[s.given.id] = Nothing
         /\ \A k \in Key : drafts'[k] = drafts[k] \/ (s.into = "new" /\ k = "new")
                             \/ (v.buffer = s.body /\ k = s.given.id)
BY DEF Undrafted, EditorTypeOK, Key

LEMMA SaveDoneType == ASSUME EditorInv, NEW p \in Page, SaveDone(p) PROVE EditorTypeOK'
<1>1. PICK v \in View : v = page[p]
  BY DEF EditorInv, EditorTypeOK
<1>2. PICK s \in Save : s = save[p]
  BY DEF EditorInv, EditorTypeOK
<1>3. /\ home' \in [Typed' -> Key]
      /\ Typed' = 1..Cardinality(Typed') /\ Typed' \subseteq Word
  BY WordsKeepType DEF SaveDone, EditorInv
<1>4. s.stage = "answered" /\ UNCHANGED <<notes, asked, home, troubles>>
  BY <1>2 DEF SaveDone
<1>5. v.buffer \in Body /\ v.buffer \subseteq Int
  BY BufferInts DEF View
<1>6. CASE Saved(p)
  <2>1. s.given \in Copy /\ s.given.id \in Note
    BY <1>2, <1>4, <1>6, GivenOf DEF Saved, Copy
  <2>2. Adopted(v, s) \in View
    BY <2>1, AdoptedMakes
  <2>3. page' \in [Page -> View] /\ save' \in [Page -> Save]
    BY <1>1, <1>2, <1>6, <2>2, NoSaveType DEF Saved, EditorInv, EditorTypeOK
  <2>4. drafts' \in [Key -> Body \cup {Nothing}]
    BY <1>1, <1>2, <1>6, UndraftedMakes DEF Saved, EditorInv
  <2>5. cache' \in [Note -> Copy \cup {Nothing}]
    BY <1>2, <1>6, <2>1 DEF Saved, EditorInv, EditorTypeOK
  <2> QED
    BY <1>3, <1>4, <1>6, <2>3, <2>4, <2>5 DEF Saved, EditorInv, EditorTypeOK
<1>7. CASE Discard(p)
  <2>1. s.given \in Copy /\ s.given.body \in Body
    BY <1>2, <1>4, <1>7, GivenOf DEF Discard, Copy
  <2>2. [v EXCEPT !.note = s.given, !.buffer = s.given.body, !.dirty = FALSE] \in View
    BY <2>1 DEF View
  <2>3. page' \in [Page -> View] /\ save' \in [Page -> Save] /\ drafts' \in [Key -> Body \cup {Nothing}]
    BY <1>1, <1>2, <1>7, <2>2, NoSaveType DEF Discard, EditorInv, EditorTypeOK
  <2>4. Drafted(s.given.id) \subseteq Int
    BY <2>1, BufferInts DEF Drafted, EditorInv, EditorTypeOK, Copy, Key
  <2>5. forgone' \subseteq Int
    BY <1>1, <1>2, <1>5, <1>7, <2>4 DEF Discard, EditorInv, EditorTypeOK
  <2> QED
    BY <1>3, <1>4, <1>7, <2>3, <2>5 DEF Discard, EditorInv, EditorTypeOK
<1>8. CASE Keep(p)
  <2>1. s.given \in Copy /\ s.given.body \in Body
    BY <1>2, <1>4, <1>8, GivenOf DEF Keep, Copy
  <2>2. [s.given EXCEPT !.body = v.buffer] \in Copy
    BY <1>5, <2>1 DEF Copy
  <2>3. [v EXCEPT !.note = IF v.note = Nothing THEN v.note ELSE [s.given EXCEPT !.body = v.buffer]] \in View
    BY <2>2 DEF View
  <2>4. page' \in [Page -> View] /\ save' \in [Page -> Save]
    BY <1>1, <1>2, <1>8, <2>3, NoSaveType DEF Keep, EditorInv, EditorTypeOK
  <2>5. overruled' \subseteq Int
    BY <1>1, <1>2, <1>8, <2>1, BufferInts DEF Keep, EditorInv, EditorTypeOK
  <2> QED
    BY <1>3, <1>4, <1>8, <2>4, <2>5 DEF Keep, EditorInv, EditorTypeOK
<1>9. CASE save' = [save EXCEPT ![p] = NoSave] /\ UNCHANGED <<page, drafts, cache, forgone, overruled>>
  BY <1>3, <1>4, <1>9, NoSaveType DEF EditorInv, EditorTypeOK
<1> QED
  BY <1>6, <1>7, <1>8, <1>9 DEF SaveDone

\* What Show does, whichever text is shown: the page then reads v.
ShowsAs(p, c, v) ==
  /\ page' = [page EXCEPT ![p] = v]
  /\ v.at = page[p].at /\ v.note = c /\ v.shown = "yes"
  /\ v.saveTimer = page[p].saveTimer /\ v.draftTimer = page[p].draftTimer
  /\ \A k \in Key : k # c.id => drafts'[k] = drafts[k]
  /\ drafts' \in [Key -> Body \cup {Nothing}]
  /\ forgone' \subseteq Int /\ forgone \subseteq forgone'
  /\ \/ /\ v.buffer = c.body /\ v.dirty = FALSE /\ drafts' = drafts
        /\ drafts[c.id] \in {Nothing, c.body}
     \/ /\ v.buffer = drafts[c.id] /\ v.dirty = TRUE /\ drafts' = drafts
        /\ drafts[c.id] # Nothing /\ \A w \in c.body : w \in v.buffer \/ w \in forgone'
     \/ /\ v.buffer = c.body /\ v.dirty = FALSE /\ drafts'[c.id] = Nothing
        /\ \A w \in Drafted(c.id) : w \in c.body \/ w \in forgone'

LEMMA ShowMakes ==
  ASSUME EditorTypeOK, NEW p \in Page, NEW c \in Copy, NEW offline \in BOOLEAN, Show(p, c, offline)
  PROVE  \E v \in View : ShowsAs(p, c, v)
<1>1. PICK u \in View : u = page[p]
  BY DEF EditorTypeOK
<1>2. c.id \in Key /\ c.id \in Note /\ c.body \in Body /\ c.body \subseteq Int
  BY BufferInts DEF Copy, Key
<1>3. PICK draft \in Body \cup {Nothing} : draft = drafts[c.id]
  BY <1>2 DEF EditorTypeOK
<1>4. ASSUME NEW text \in Body, NEW dirty \in BOOLEAN,
             page' = [page EXCEPT ![p].note = c, ![p].buffer = text,
                        ![p].dirty = dirty, ![p].offline = offline, ![p].shown = "yes"]
      PROVE  \E v \in View :
               /\ page' = [page EXCEPT ![p] = v]
               /\ v.at = page[p].at /\ v.note = c /\ v.shown = "yes"
               /\ v.saveTimer = page[p].saveTimer /\ v.draftTimer = page[p].draftTimer
               /\ v.buffer = text /\ v.dirty = dirty
  <2>1. PICK v : v = [u EXCEPT !.note = c, !.buffer = text, !.dirty = dirty,
                               !.offline = offline, !.shown = "yes"]
    OBVIOUS
  <2>2. v \in View
    BY <2>1 DEF View
  <2>3. page' = [page EXCEPT ![p] = v]
    BY <1>1, <1>4, <2>1 DEF EditorTypeOK
  <2>4. /\ v.at = u.at /\ v.note = c /\ v.shown = "yes"
        /\ v.saveTimer = u.saveTimer /\ v.draftTimer = u.draftTimer
        /\ v.buffer = text /\ v.dirty = dirty
    BY <2>1 DEF View
  <2> QED
    BY <1>1, <2>2, <2>3, <2>4
<1>5. CASE /\ ~Restorable(c)
           /\ page' = [page EXCEPT ![p].note = c, ![p].buffer = c.body,
                         ![p].dirty = FALSE, ![p].offline = offline, ![p].shown = "yes"]
           /\ UNCHANGED <<drafts, forgone>>
  <2>1. drafts[c.id] \in {Nothing, c.body}
    BY <1>5 DEF Restorable
  <2>2. PICK v \in View :
               /\ page' = [page EXCEPT ![p] = v]
               /\ v.at = page[p].at /\ v.note = c /\ v.shown = "yes"
               /\ v.saveTimer = page[p].saveTimer /\ v.draftTimer = page[p].draftTimer
               /\ v.buffer = c.body /\ v.dirty = FALSE
    BY <1>2, <1>4, <1>5
  <2> WITNESS v \in View
  <2>3. drafts' \in [Key -> Body \cup {Nothing}] /\ forgone' \subseteq Int
    BY <1>5 DEF EditorTypeOK
  <2> QED
    BY <1>5, <2>1, <2>2, <2>3 DEF ShowsAs
<1>6. CASE /\ Restorable(c)
           /\ page' = [page EXCEPT ![p].note = c, ![p].buffer = draft,
                         ![p].dirty = TRUE, ![p].offline = offline, ![p].shown = "yes"]
           /\ UNCHANGED drafts /\ forgone' = forgone \cup (c.body \ draft)
  <2>1. draft \in Body /\ draft # Nothing
    BY <1>3, <1>6 DEF Restorable
  <2>2. forgone' \subseteq Int
    BY <1>2, <1>6 DEF EditorTypeOK
  <2>3. PICK v \in View :
               /\ page' = [page EXCEPT ![p] = v]
               /\ v.at = page[p].at /\ v.note = c /\ v.shown = "yes"
               /\ v.saveTimer = page[p].saveTimer /\ v.draftTimer = page[p].draftTimer
               /\ v.buffer = draft /\ v.dirty = TRUE
    BY <1>2, <1>4, <1>6, <2>1
  <2> WITNESS v \in View
  <2>4. /\ drafts' \in [Key -> Body \cup {Nothing}] /\ forgone \subseteq forgone'
        /\ \A w \in c.body : w \in draft \/ w \in forgone'
    BY <1>6 DEF EditorTypeOK
  <2> QED
    BY <1>3, <1>6, <2>1, <2>2, <2>3, <2>4 DEF ShowsAs
<1>7. CASE /\ Restorable(c)
           /\ page' = [page EXCEPT ![p].note = c, ![p].buffer = c.body,
                         ![p].dirty = FALSE, ![p].offline = offline, ![p].shown = "yes"]
           /\ drafts' = [drafts EXCEPT ![c.id] = Nothing]
           /\ forgone' = forgone \cup (draft \ c.body)
  <2>1. draft \in Body /\ draft # Nothing /\ draft \subseteq Int
    BY <1>3, <1>7, BufferInts DEF Restorable
  <2>2. forgone' \subseteq Int /\ drafts' \in [Key -> Body \cup {Nothing}]
    BY <1>2, <1>7, <2>1 DEF EditorTypeOK
  <2>3. /\ \A k \in Key : k # c.id => drafts'[k] = drafts[k]
        /\ drafts'[c.id] = Nothing /\ Drafted(c.id) = draft
    BY <1>2, <1>3, <1>7, <2>1 DEF EditorTypeOK, Drafted
  <2>4. PICK v \in View :
               /\ page' = [page EXCEPT ![p] = v]
               /\ v.at = page[p].at /\ v.note = c /\ v.shown = "yes"
               /\ v.saveTimer = page[p].saveTimer /\ v.draftTimer = page[p].draftTimer
               /\ v.buffer = c.body /\ v.dirty = FALSE
    BY <1>2, <1>4, <1>7
  <2> WITNESS v \in View
  <2>5. forgone \subseteq forgone' /\ \A w \in draft : w \in c.body \/ w \in forgone'
    BY <1>7
  <2> QED
    BY <2>2, <2>3, <2>4, <2>5 DEF ShowsAs
<1> QED
  BY <1>3, <1>5, <1>6, <1>7 DEF Show

\* getNote's answer: a note the server has or had, or none.
LEMMA OpenDoneMakes ==
  ASSUME EditorInv, NEW p \in Page, NEW n \in Note, OpenDone(p, n)
  PROVE  /\ Alive(p) /\ asked[p] = {n} /\ asked' = [asked EXCEPT ![p] = {}] /\ troubles' \in Nat
         /\ UNCHANGED <<notes, save, home, overruled>>
         /\ \/ \E c \in Copy, offline \in BOOLEAN :
                 /\ c.id = n /\ Faithful(c) /\ Show(p, c, offline)
                 /\ cache' \in {cache, [cache EXCEPT ![n] = c]}
            \/ /\ page' = [page EXCEPT ![p].note = Nothing, ![p].offline = TRUE, ![p].shown = "no"]
               /\ UNCHANGED <<drafts, forgone, cache>>
<1>1. Alive(p) /\ n \in asked[p] /\ asked' = [asked EXCEPT ![p] = @ \ {n}]
  BY DEF OpenDone, Alive
<1>2. asked[p] = {n} /\ notes[n] # Nothing
  BY <1>1 DEF EditorInv, PageOK, Asks
<1>3. asked' = [asked EXCEPT ![p] = {}]
  BY <1>1, <1>2 DEF EditorInv, EditorTypeOK
<1>4. NoteOK(n) /\ cache[n] \in Copy \cup {Nothing}
  BY DEF EditorInv, EditorTypeOK
<1>5. PICK row \in Stored : row = notes[n]
  BY <1>2 DEF EditorInv, EditorTypeOK
<1>6. PICK c \in Copy : c = CopyOf(n, row) /\ c.id = n /\ c.body = row.body /\ c.version = row.version
  BY CopyOfMakes
<1>7. Faithful(c)
  <2>1. Covers(OnServer, c.body)
    BY <1>2, <1>5, <1>6 DEF Covers, OnServer
  <2>2. row.version \in Nat
    BY DEF Stored
  <2> QED
    BY <1>2, <1>4, <1>5, <1>6, <2>1, <2>2 DEF Faithful, NoteOK
<1>8. troubles' \in Nat
  <2>1. troubles' = troubles \/ troubles' = troubles + 1
    BY DEF OpenDone, Trouble
  <2> QED
    BY <2>1 DEF EditorInv, EditorTypeOK
<1>9. UNCHANGED <<notes, save, home, overruled>>
  BY DEF OpenDone
<1>10. \/ Show(p, c, FALSE) /\ cache' = [cache EXCEPT ![n] = c]
       \/ cache[n] # Nothing /\ Show(p, cache[n], TRUE) /\ cache' = cache
       \/ /\ page' = [page EXCEPT ![p].note = Nothing, ![p].offline = TRUE, ![p].shown = "no"]
          /\ UNCHANGED <<drafts, forgone, cache>>
  BY <1>5, <1>6 DEF OpenDone
<1> QED
  BY <1>1, <1>2, <1>3, <1>4, <1>6, <1>7, <1>8, <1>9, <1>10 DEF NoteOK

LEMMA OpenDoneType ==
  ASSUME EditorInv, NEW p \in Page, NEW n \in Note, OpenDone(p, n) PROVE EditorTypeOK'
<1>1. /\ asked' = [asked EXCEPT ![p] = {}] /\ troubles' \in Nat
      /\ UNCHANGED <<notes, save, home, overruled>>
  BY OpenDoneMakes
<1>2. /\ home' \in [Typed' -> Key]
      /\ Typed' = 1..Cardinality(Typed') /\ Typed' \subseteq Word
  BY <1>1, WordsKeepType DEF EditorInv
<1>3. asked' \in [Page -> SUBSET Note]
  BY <1>1 DEF EditorInv, EditorTypeOK
<1>4. CASE \E c \in Copy, offline \in BOOLEAN :
                 /\ c.id = n /\ Faithful(c) /\ Show(p, c, offline)
                 /\ cache' \in {cache, [cache EXCEPT ![n] = c]}
  <2>1. PICK c \in Copy, offline \in BOOLEAN : Show(p, c, offline) /\ cache' \in {cache, [cache EXCEPT ![n] = c]}
    BY <1>4
  <2>2. PICK v \in View : /\ page' = [page EXCEPT ![p] = v]
                          /\ drafts' \in [Key -> Body \cup {Nothing}] /\ forgone' \subseteq Int
    <3>1. EditorTypeOK
      BY DEF EditorInv
    <3>2. Show(p, c, offline)
      BY <2>1
    <3>3. offline \in BOOLEAN /\ c \in Copy
      BY <2>1
    <3>4. \E v \in View : ShowsAs(p, c, v)
      BY <3>1, <3>2, <3>3, ShowMakes
    <3> QED
      BY <3>4 DEF ShowsAs
  <2>4. page' \in [Page -> View]
    BY <2>2 DEF EditorInv, EditorTypeOK
  <2>3. cache' \in [Note -> Copy \cup {Nothing}]
    BY <2>1 DEF EditorInv, EditorTypeOK
  <2> QED
    BY <1>1, <1>2, <1>3, <2>2, <2>3, <2>4 DEF EditorInv, EditorTypeOK
<1>5. CASE /\ page' = [page EXCEPT ![p].note = Nothing, ![p].offline = TRUE, ![p].shown = "no"]
           /\ UNCHANGED <<drafts, forgone, cache>>
  <2>1. PICK v \in View : v = page[p]
    BY DEF EditorInv, EditorTypeOK
  <2>2. [v EXCEPT !.note = Nothing, !.offline = TRUE, !.shown = "no"] \in View
    BY DEF View
  <2>3. page' \in [Page -> View]
    BY <1>5, <2>1, <2>2 DEF EditorInv, EditorTypeOK
  <2> QED
    BY <1>1, <1>2, <1>3, <1>5, <2>3 DEF EditorInv, EditorTypeOK
<1> QED
  BY <1>4, <1>5, OpenDoneMakes

\* A page's offline flag, the only thing some steps touch.
LEMMA OfflineMakes ==
  ASSUME EditorTypeOK, NEW p \in Page, NEW offline \in BOOLEAN,
         page' = [page EXCEPT ![p].offline = offline]
  PROVE  \E v \in View :
           /\ page' = [page EXCEPT ![p] = v]
           /\ v.at = page[p].at /\ v.note = page[p].note /\ v.shown = page[p].shown
           /\ v.saveTimer = page[p].saveTimer /\ v.draftTimer = page[p].draftTimer
           /\ v.buffer = page[p].buffer /\ v.dirty = page[p].dirty
<1>1. PICK u \in View : u = page[p]
  BY DEF EditorTypeOK
<1>2. PICK v : v = [u EXCEPT !.offline = offline]
  OBVIOUS
<1>3. /\ v \in View /\ v.at = u.at /\ v.note = u.note /\ v.shown = u.shown
      /\ v.saveTimer = u.saveTimer /\ v.draftTimer = u.draftTimer
      /\ v.buffer = u.buffer /\ v.dirty = u.dirty
  BY <1>2 DEF View
<1>4. page' = [page EXCEPT ![p] = v]
  BY <1>1, <1>2
<1> QED
  BY <1>1, <1>3, <1>4

LEMMA OnlineType ==
  ASSUME EditorInv, NEW p \in Page, IndexDone(p) \/ GoOffline(p) \/ GoOnline(p)
  PROVE  EditorTypeOK'
<1>1. /\ home' \in [Typed' -> Key]
      /\ Typed' = 1..Cardinality(Typed') /\ Typed' \subseteq Word
  BY WordsKeepType DEF IndexDone, GoOffline, GoOnline, history, EditorInv
<1>2. PICK offline \in BOOLEAN : page' = [page EXCEPT ![p].offline = offline]
  BY DEF IndexDone, GoOffline, GoOnline
<1>3. page' \in [Page -> View]
  BY <1>2, OfflineMakes DEF EditorInv, EditorTypeOK
<1>4. save' \in [Page -> Save] /\ troubles' \in Nat
  BY NoSaveType DEF IndexDone, GoOffline, GoOnline, Trouble, EditorInv, EditorTypeOK
<1> QED
  BY <1>1, <1>3, <1>4 DEF IndexDone, GoOffline, GoOnline, history, EditorInv, EditorTypeOK

LEMMA SwitchType ==
  ASSUME EditorInv, NEW p \in Page,
         OpenPage(p) \/ StartNew(p) \/ Resume(p) \/ \E n \in Note : Open(p, n)
  PROVE  EditorTypeOK'
<1>1. PICK v \in View : v = page[p]
  BY DEF EditorInv, EditorTypeOK
<1>2. /\ home' \in [Typed' -> Key]
      /\ Typed' = 1..Cardinality(Typed') /\ Typed' \subseteq Word
  BY WordsKeepType DEF OpenPage, StartNew, Resume, Open, history, EditorInv
<1>3. CASE OpenPage(p)
  <2>1. PICK offline \in BOOLEAN : page' = [page EXCEPT ![p].at = "open", ![p].offline = offline]
    BY <1>3 DEF OpenPage
  <2>2. [v EXCEPT !.at = "open", !.offline = offline] \in View
    BY DEF View
  <2>3. page' \in [Page -> View]
    BY <1>1, <2>1, <2>2 DEF EditorInv, EditorTypeOK
  <2>4. troubles' \in Nat
    <3>1. troubles' = troubles \/ troubles' = troubles + 1
      BY <1>3 DEF OpenPage, Trouble
    <3> QED
      BY <3>1 DEF EditorInv, EditorTypeOK
  <2> QED
    BY <1>2, <1>3, <2>3, <2>4 DEF OpenPage, history, EditorInv, EditorTypeOK
<1>4. CASE StartNew(p)
  <2>1. PICK text \in Body, dirty \in BOOLEAN :
          page' = [page EXCEPT ![p].note = Nothing, ![p].buffer = text, ![p].dirty = dirty, ![p].shown = "yes"]
    <3>1. Stub \in Body
      BY DEF Stub, Body
    <3>2. drafts["new"] \in Body \cup {Nothing}
      BY DEF EditorInv, EditorTypeOK, Key
    <3> QED
      BY <1>4, <3>1, <3>2 DEF StartNew
  <2>2. [v EXCEPT !.note = Nothing, !.buffer = text, !.dirty = dirty, !.shown = "yes"] \in View
    BY DEF View
  <2>3. page' \in [Page -> View]
    BY <1>1, <2>1, <2>2 DEF EditorInv, EditorTypeOK
  <2>4. Drafted("new") \subseteq Int
    BY BufferInts DEF Drafted, EditorInv, EditorTypeOK, Key
  <2>5. forgone' \subseteq Int
    BY <1>4, <2>4 DEF StartNew, EditorInv, EditorTypeOK
  <2> QED
    BY <1>2, <1>4, <2>3, <2>5 DEF StartNew, EditorInv, EditorTypeOK
<1>5. CASE Resume(p)
  <2>1. \A shown \in {"no", "yes", "stray"} : [v EXCEPT !.shown = shown] \in View
    BY DEF View
  <2>2. page' \in [Page -> View]
    BY <1>1, <1>5, <2>1 DEF Resume, EditorInv, EditorTypeOK
  <2> QED
    BY <1>2, <1>5, <2>2 DEF Resume, history, EditorInv, EditorTypeOK
<1>6. CASE \E n \in Note : Open(p, n)
  BY <1>2, <1>6 DEF Open, history, EditorInv, EditorTypeOK
<1> QED
  BY <1>3, <1>4, <1>5, <1>6

\* What is done to a note on the server.
LEMMA NoteType ==
  ASSUME EditorInv, NEW n \in Note, notes[n] # Nothing, NEW row \in Stored
  PROVE  [notes EXCEPT ![n] = row] \in [Note -> Stored \cup {Nothing}]
BY DEF EditorInv, EditorTypeOK

LEMMA DeleteMakes ==
  ASSUME EditorInv, NEW p \in Page, Delete(p)
  PROVE  \E n \in Note, row \in Stored, v \in View :
           /\ page[p].note # Nothing /\ n = page[p].note.id
           /\ notes[n] \in Stored /\ notes' = [notes EXCEPT ![n] = row]
           /\ row.body = notes[n].body /\ row.version = notes[n].version + 1
           /\ page' = [page EXCEPT ![p] = v]
           /\ v.at = page[p].at /\ v.note = Nothing /\ v.shown = "no" /\ v.dirty = page[p].dirty
           /\ v.saveTimer = page[p].saveTimer /\ v.draftTimer = page[p].draftTimer
<1>1. PICK u \in View : u = page[p]
  BY DEF EditorInv, EditorTypeOK
<1>2. PICK n \in Note : n = u.note.id
  BY <1>1 DEF Delete, View, Copy
<1>3. Alive(p) /\ u.note # Nothing
  BY <1>1 DEF Delete, Alive
<1>4. notes[n] # Nothing
  BY <1>1, <1>2, <1>3 DEF EditorInv, PageOK, Texts
<1>5. PICK old \in Stored : old = notes[n]
  BY <1>4 DEF EditorInv, EditorTypeOK
<1>6. PICK row : row = [old EXCEPT !.live = FALSE, !.version = old.version + 1]
  OBVIOUS
<1>7. row \in Stored /\ row.body = old.body /\ row.version = old.version + 1
  <2>1. row = [body |-> old.body, version |-> old.version + 1, live |-> FALSE]
    BY <1>6 DEF Stored
  <2>2. old.body \in Body /\ old.version + 1 \in Nat
    BY DEF Stored
  <2> QED
    BY <2>1, <2>2 DEF Stored
<1>8. notes' = [notes EXCEPT ![n] = row]
  BY <1>1, <1>2, <1>5, <1>6 DEF Delete
<1>9. PICK v : v = [u EXCEPT !.note = Nothing, !.buffer = Empty, !.shown = "no"]
  OBVIOUS
<1>10. /\ v \in View /\ v.at = u.at /\ v.note = Nothing /\ v.shown = "no" /\ v.dirty = u.dirty
       /\ v.saveTimer = u.saveTimer /\ v.draftTimer = u.draftTimer
  <2>1. Empty \in Body
    BY DEF Empty, Body
  <2> QED
    BY <1>9, <2>1 DEF View
<1>11. page' = [page EXCEPT ![p] = v]
  BY <1>1, <1>9 DEF Delete
<1> QED
  BY <1>1, <1>2, <1>3, <1>5, <1>7, <1>8, <1>10, <1>11

LEMMA DeleteType == ASSUME EditorInv, NEW p \in Page, Delete(p) PROVE EditorTypeOK'
<1>1. /\ home' \in [Typed' -> Key]
      /\ Typed' = 1..Cardinality(Typed') /\ Typed' \subseteq Word
  BY WordsKeepType DEF Delete, EditorInv
<1>2. notes' \in [Note -> Stored \cup {Nothing}] /\ page' \in [Page -> View]
  BY DeleteMakes DEF EditorInv, EditorTypeOK
<1>3. PICK n \in Note : n = page[p].note.id
  BY DeleteMakes
<1>4. drafts' \in [Key -> Body \cup {Nothing}]
  BY <1>3 DEF Delete, EditorInv, EditorTypeOK
<1>5. page[p].buffer \subseteq Int /\ Drafted(n) \subseteq Int
  BY BufferInts DEF Drafted, EditorInv, EditorTypeOK, Key, View
<1>6. forgone' \subseteq Int
  BY <1>3, <1>5 DEF Delete, EditorInv, EditorTypeOK
<1> QED
  BY <1>1, <1>2, <1>4, <1>6 DEF Delete, EditorInv, EditorTypeOK

LEMMA RestoreMakes ==
  ASSUME EditorInv, NEW p \in Page, NEW n \in Note, Restore(p, n)
  PROVE  \E row \in Stored :
           /\ notes[n] \in Stored /\ notes' = [notes EXCEPT ![n] = row]
           /\ row.body = notes[n].body /\ row.version = notes[n].version + 1
<1>1. PICK old \in Stored : old = notes[n]
  BY DEF Restore, EditorInv, EditorTypeOK
<1>2. PICK row : row = [old EXCEPT !.live = TRUE, !.version = old.version + 1]
  OBVIOUS
<1>3. row \in Stored /\ row.body = old.body /\ row.version = old.version + 1
  <2>1. row = [body |-> old.body, version |-> old.version + 1, live |-> TRUE]
    BY <1>2 DEF Stored
  <2>2. old.body \in Body /\ old.version + 1 \in Nat
    BY DEF Stored
  <2> QED
    BY <2>1, <2>2 DEF Stored
<1>4. notes' = [notes EXCEPT ![n] = row]
  BY <1>1, <1>2 DEF Restore
<1> QED
  BY <1>1, <1>3, <1>4

LEMMA RestoreType ==
  ASSUME EditorInv, NEW p \in Page, NEW n \in Note, Restore(p, n) PROVE EditorTypeOK'
<1>1. /\ home' \in [Typed' -> Key]
      /\ Typed' = 1..Cardinality(Typed') /\ Typed' \subseteq Word
  BY WordsKeepType DEF Restore, history, EditorInv
<1>2. notes' \in [Note -> Stored \cup {Nothing}]
  BY RestoreMakes DEF EditorInv, EditorTypeOK
<1>3. page' \in [Page -> View]
  BY OfflineMakes DEF Restore, EditorInv, EditorTypeOK
<1> QED
  BY <1>1, <1>2, <1>3 DEF Restore, history, EditorInv, EditorTypeOK

LEMMA ElsewhereMakes ==
  ASSUME EditorInv, NEW n \in Note, NEW w \in Word, Elsewhere(n, w)
  PROVE  \E row \in Stored :
           /\ notes[n] \in Stored /\ notes' = [notes EXCEPT ![n] = row]
           /\ row.body = notes[n].body \cup {w} /\ row.version = notes[n].version + 1
<1>1. PICK old \in Stored : old = notes[n]
  BY DEF Elsewhere, EditorInv, EditorTypeOK
<1>2. PICK row : row = [old EXCEPT !.body = old.body \cup {w}, !.version = old.version + 1]
  OBVIOUS
<1>3. old.body \cup {w} \in Body
  BY DEF Stored, Body, Word
<1>4. row \in Stored /\ row.body = old.body \cup {w} /\ row.version = old.version + 1
  <2>1. row = [body |-> old.body \cup {w}, version |-> old.version + 1, live |-> old.live]
    BY <1>2 DEF Stored
  <2>2. old.live \in BOOLEAN /\ old.version + 1 \in Nat
    BY DEF Stored
  <2> QED
    BY <1>3, <2>1, <2>2 DEF Stored
<1>5. notes' = [notes EXCEPT ![n] = row]
  BY <1>1, <1>2 DEF Elsewhere
<1> QED
  BY <1>1, <1>4, <1>5

LEMMA ElsewhereType ==
  ASSUME EditorInv, NEW n \in Note, NEW w \in Word, Elsewhere(n, w) PROVE EditorTypeOK'
<1>1. n \in Key /\ Types(w, n)
  BY DEF Elsewhere, Key
<1>2. /\ home' \in [Typed' -> Key]
      /\ Typed' = 1..Cardinality(Typed') /\ Typed' \subseteq Word
  BY <1>1, TypesMakes DEF EditorInv
<1>3. notes' \in [Note -> Stored \cup {Nothing}]
  BY ElsewhereMakes DEF EditorInv, EditorTypeOK
<1> QED
  BY <1>2, <1>3 DEF Elsewhere, EditorInv, EditorTypeOK

-----------------------------------------------------------------------------
(* Steps forward.                                                             *)

\* A step that changes no note.
LEMMA OnwardSame ==
  ASSUME UNCHANGED notes, \A w \in Typed : w \in Typed' /\ home'[w] = home[w],
         forgone \subseteq forgone', overruled \subseteq overruled'
  PROVE  Onward
BY DEF Onward, GivenUp, OnServer

\* A step that changes one note, to a later version.
LEMMA OnwardNote ==
  ASSUME EditorTypeOK, NEW n \in Note, NEW row \in Stored, notes' = [notes EXCEPT ![n] = row],
         notes[n] # Nothing =>
           /\ notes[n].version < row.version
           /\ \A w \in Word : w \in notes[n].body => w \in row.body \/ w \in GivenUp,
         \A w \in Typed : w \in Typed' /\ home'[w] = home[w],
         forgone \subseteq forgone', overruled \subseteq overruled'
  PROVE  Onward
<1>1. /\ notes'[n] = row /\ row # Nothing
      /\ \A m \in Note : m # n => notes'[m] = notes[m]
  BY DEF EditorTypeOK
<1>2. \A w \in GivenUp : w \in GivenUp'
  BY DEF GivenUp
<1>3. ASSUME NEW w \in Word, w \in OnServer
      PROVE  w \in OnServer' \/ w \in GivenUp'
  <2>1. PICK m \in Note : notes[m] # Nothing /\ w \in notes[m].body
    BY <1>3 DEF OnServer
  <2>2. CASE m = n
    BY <1>1, <1>2, <1>3, <2>1, <2>2 DEF OnServer
  <2>3. CASE m # n
    BY <1>1, <1>3, <2>1, <2>3 DEF OnServer
  <2> QED
    BY <2>2, <2>3
<1> QED
  BY <1>1, <1>2, <1>3 DEF Onward

LEMMA NoteChanges ==
  ASSUME EditorInv, EditorTypeOK', Onward, NEW n \in Note, NEW row \in Stored,
         notes' = [notes EXCEPT ![n] = row], Fits(row.body, n)', cache' = cache,
         \A k \in Key : drafts'[k] \in {drafts[k], Nothing}
  PROVE  \A m \in Note : NoteOK(m)'
<1> SUFFICES ASSUME NEW m \in Note PROVE NoteOK(m)'
  OBVIOUS
<1>1. /\ notes'[n] = row /\ row # Nothing
      /\ m # n => notes'[m] = notes[m]
  BY DEF EditorInv, EditorTypeOK
<1>2. CASE m # n
  BY <1>1, <1>2, Rests DEF EditorInv
<1>3. CASE m = n
  <2>1. cache[m] \in Copy \cup {Nothing} /\ NoteOK(m)
    BY DEF EditorInv, EditorTypeOK
  <2>2. cache[m] # Nothing => cache[m].id = m /\ Faithful(cache[m])'
    BY <2>1, FaithfulStays DEF EditorInv, NoteOK
  <2> QED
    BY <1>1, <1>3, <2>2 DEF NoteOK
<1> QED
  BY <1>2, <1>3

\* The server's note, as it is.
LEMMA CurrentFaithful ==
  ASSUME EditorTypeOK, NEW n \in Note, notes[n] # Nothing, Fits(notes[n].body, n),
         NEW c \in Copy, c.id = n, c.body = notes[n].body, c.version = notes[n].version
  PROVE  Faithful(c)
<1>1. Covers(OnServer, c.body)
  BY DEF Covers, OnServer
<1>2. c.version \in Nat
  BY DEF Copy
<1> QED
  BY <1>1, <1>2 DEF Faithful

\* A page of which no more than the offline flag changes, and the save it has
\* done with.
LEMMA SamePage ==
  ASSUME EditorInv, EditorTypeOK', Onward, NEW p \in Page,
         page'[p].at = page[p].at, page'[p].note = page[p].note, page'[p].buffer = page[p].buffer,
         page'[p].dirty = page[p].dirty, page'[p].shown = page[p].shown,
         page'[p].saveTimer = page[p].saveTimer, page'[p].draftTimer = page[p].draftTimer,
         page'[p] # page[p] => page[p].at # "none",
         asked'[p] = asked[p], save'[p] = save[p] \/ save'[p] = NoSave, UNCHANGED drafts
  PROVE  SaveOK(p)' /\ PageOK(p)' /\ DraftOK(p)' /\ (Active(p)' => Active(p))
<1>0. NoSave.stage = "idle"
  BY DEF NoSave
<1>1. SaveOK(p)'
  <2>1. CASE save'[p] = save[p]
    BY <2>1, SaveStays DEF EditorInv
  <2>2. CASE save'[p] = NoSave
    BY <1>0, <2>2 DEF SaveOK, Awaits
  <2> QED
    BY <2>1, <2>2
<1>2. /\ Alive(p)' = Alive(p)
      /\ Saving(p)' => Saving(p)
      /\ Awaits(p)' => Awaits(p) /\ save'[p] = save[p]
  BY <1>0 DEF Alive, Saving, Awaits
<1>3. Ended(p)' /\ Screen(p)'
  <2>1. Ended(p) /\ Screen(p)
    BY DEF EditorInv, PageOK
  <2> QED
    BY <1>0, <1>2, <2>1 DEF Ended, Screen
<1>4. Texts(p) => Texts(p)'
  BY TextsStay DEF EditorInv
<1>5. Asks(p) => Asks(p)'
  BY <1>2, AsksStay
<1>6. Expects(p) => Expects(p)'
  BY <1>2 DEF Expects, KeyOf
<1>7. PageOK(p)'
  BY <1>2, <1>3, <1>4, <1>5, <1>6 DEF EditorInv, PageOK
<1>8. Active(p)' => Active(p)
  BY <1>2 DEF Active
<1>9. KeyOf(page[p])' = KeyOf(page[p])
  BY DEF KeyOf
<1>10. Active(p) /\ (page[p].dirty \/ page[p].shown = "yes")
         => Covers(page[p].buffer, Drafted(KeyOf(page[p])))
  BY DEF EditorInv, DraftOK
<1>11. PICK v, k : v = page[p] /\ k = KeyOf(v)
  OBVIOUS
<1>12. Active(p)' /\ (v.dirty \/ v.shown = "yes") => Covers(v.buffer, Drafted(k))'
  BY <1>8, <1>10, <1>11 DEF Covers, Onward, Drafted
<1>13. DraftOK(p)'
  <2>1. DraftOK(p)
    BY DEF EditorInv
  <2> QED
    BY <1>0, <1>2, <1>9, <1>11, <1>12, <2>1 DEF DraftOK
<1> QED
  BY <1>1, <1>7, <1>8, <1>13

\* Steps that touch no text: the index, the connection, a save that failed.
LEMMA OfflineKeeps ==
  ASSUME EditorInv, EditorTypeOK', NEW p \in Page, page[p].at # "none",
         page' = page \/ \E offline \in BOOLEAN : page' = [page EXCEPT ![p].offline = offline],
         save' = save \/ save' = [save EXCEPT ![p] = NoSave],
         UNCHANGED <<notes, drafts, cache, asked, home, forgone, overruled>>
  PROVE  EditorInv'
<1>1. Onward
  BY OnwardSame DEF Typed
<1>2. /\ page'[p].at = page[p].at /\ page'[p].note = page[p].note /\ page'[p].buffer = page[p].buffer
      /\ page'[p].dirty = page[p].dirty /\ page'[p].shown = page[p].shown
      /\ page'[p].saveTimer = page[p].saveTimer /\ page'[p].draftTimer = page[p].draftTimer
      /\ \A q \in Page : q # p => page'[q] = page[q]
  <2>1. CASE page' = page
    BY <2>1
  <2>2. ASSUME NEW offline \in BOOLEAN, page' = [page EXCEPT ![p].offline = offline]
        PROVE <1>2!:
    <3>1. PICK v \in View :
           /\ page' = [page EXCEPT ![p] = v]
           /\ v.at = page[p].at /\ v.note = page[p].note /\ v.shown = page[p].shown
           /\ v.saveTimer = page[p].saveTimer /\ v.draftTimer = page[p].draftTimer
           /\ v.buffer = page[p].buffer /\ v.dirty = page[p].dirty
      BY <2>2, OfflineMakes DEF EditorInv
    <3> QED
      BY <3>1 DEF EditorInv, EditorTypeOK
  <2> QED
    BY <2>1, <2>2
<1>3. /\ save'[p] = save[p] \/ save'[p] = NoSave
      /\ \A q \in Page : q # p => save'[q] = save[q]
  BY DEF EditorInv, EditorTypeOK
<1>4. SaveOK(p)' /\ PageOK(p)' /\ DraftOK(p)' /\ (Active(p)' => Active(p))
  BY <1>1, <1>2, <1>3, SamePage
<1>5. /\ \A k \in Key : drafts'[k] # Nothing => Fits(drafts[k], k)'
      /\ \A n \in Note : NoteOK(n)'
  BY <1>1, Rests
<1>6. \A w \in Typed' : w \in GivenUp' \/ Kept(w)'
  <2>1. \A w \in Typed : w \in GivenUp' \/ Kept(w)'
    <3>1. \A w \in Word, k \in Key : w \in Drafted(k) => w \in GivenUp' \/ Kept(w)'
      BY DEF Drafted, Kept
    <3>2. Alive(p) /\ page[p].draftTimer /\ page[p].dirty =>
            \A w \in Word : w \in page[p].buffer => w \in GivenUp' \/ Kept(w)'
      BY <1>2 DEF Kept, Alive
    <3> QED
      BY <1>1, <1>2, <3>1, <3>2, KeptStays DEF EditorInv, EditorTypeOK
  <2> QED
    BY <2>1 DEF Typed
<1> QED
  BY <1>1, <1>2, <1>3, <1>4, <1>5, <1>6, Proceeds

\* A request asks for what the page has.
LEMMA RequestOK ==
  ASSUME EditorTypeOK', NEW p \in Page, Texts(p)', NEW v \in View, page'[p] = v, v.dirty,
         NEW s \in Save, save'[p] = s, s.stage = "sent", s.into = KeyOf(v), s.body = v.buffer,
         s.base = IF v.note = Nothing THEN 0 ELSE v.note.version
  PROVE  SaveOK(p)' /\ Expects(p)'
<1>1. Fits(v.buffer, s.into)'
  BY DEF Texts, KeyOf
<1>2. v.note # Nothing => s.into = v.note.id /\ s.into \in Note /\ s.base = v.note.version
  BY DEF KeyOf, View, Copy
<1>3. v.note = Nothing => s.into = "new"
  BY DEF KeyOf
<1>4. v.note # Nothing =>
        /\ notes'[s.into] # Nothing
        /\ s.base <= notes'[s.into].version
        /\ s.base = notes'[s.into].version => Covers(v.buffer, notes[s.into].body)'
  BY <1>2 DEF Texts
<1>5. SaveOK(p)'
  BY <1>1, <1>2, <1>3, <1>4 DEF SaveOK, Awaits
<1>6. KeyOf(page[p])' = KeyOf(v)
  BY DEF KeyOf
<1>7. Expects(p)'
  BY <1>2, <1>3, <1>6 DEF Expects
<1> QED
  BY <1>5, <1>7

\* flushSave: the page's save is as it was, or asks for what the page has.
LEMMA FlushOK ==
  ASSUME EditorInv, EditorTypeOK', Onward, NEW p \in Page, NEW v \in View, Flush(p, v), Texts(p)'
  PROVE  /\ SaveOK(p)'
         /\ page'[p] = [v EXCEPT !.saveTimer = FALSE]
         /\ \A q \in Page : q # p => page'[q] = page[q] /\ save'[q] = save[q]
         /\ save'[p] = save[p] \/ (v.dirty /\ ~Saving(p) /\ save'[p].stage = "sent" /\ Expects(p)')
<1>1. PICK u : u = [v EXCEPT !.saveTimer = FALSE]
  OBVIOUS
<1>2. /\ u \in View /\ u.note = v.note /\ u.buffer = v.buffer /\ u.dirty = v.dirty
  BY <1>1 DEF View
<1>3. page'[p] = u /\ \A q \in Page : q # p => page'[q] = page[q]
  BY <1>1 DEF Flush, EditorInv, EditorTypeOK
<1>4. CASE save' = save
  <2>1. SaveOK(p)'
    BY <1>4, SaveStays DEF EditorInv
  <2> QED
    BY <1>1, <1>3, <1>4, <2>1
<1>5. CASE v.dirty /\ ~Saving(p) /\ save' = [save EXCEPT ![p] = Request(v)]
  <2>1. PICK s \in Save : /\ s = Request(v) /\ s.stage = "sent" /\ s.into = KeyOf(v) /\ s.body = v.buffer
                          /\ s.base = IF v.note = Nothing THEN 0 ELSE v.note.version
    BY RequestMakes
  <2>2. save'[p] = s /\ \A q \in Page : q # p => save'[q] = save[q]
    BY <1>5, <2>1 DEF EditorInv, EditorTypeOK
  <2>3. KeyOf(u) = KeyOf(v)
    BY <1>2 DEF KeyOf
  <2>4. /\ s.into = KeyOf(u) /\ s.body = u.buffer /\ u.dirty
        /\ s.base = IF u.note = Nothing THEN 0 ELSE u.note.version
    BY <1>2, <1>5, <2>1, <2>3
  <2>5. SaveOK(p)' /\ Expects(p)'
    BY <1>2, <1>3, <2>1, <2>2, <2>4, RequestOK
  <2> QED
    BY <1>1, <1>3, <1>5, <2>1, <2>2, <2>5
<1> QED
  BY <1>4, <1>5 DEF Flush

\* A word typed, and a new title, on a page of somebody who waits while a note is
\* being created.
LEMMA TypeKeeps ==
  ASSUME EditorInv, Patient, NEW p \in Page, NEW w \in Word, Type(p, w) \/ Rename(p, w)
  PROVE  EditorInv'
<1>1. PICK v \in View : v = page[p]
  BY DEF EditorInv, EditorTypeOK
<1>2. PICK m \in View : /\ m = Marked(v, w) /\ m.at = v.at /\ m.note = v.note
                        /\ m.buffer = v.buffer \cup {w} /\ m.dirty = TRUE /\ m.draftTimer = TRUE
                        /\ m.shown = v.shown
  BY MarkedMakes
<1>3. PICK k \in Key : k = KeyOf(v) /\ k = KeyOf(m)
  BY <1>1, <1>2, KeyOfType DEF KeyOf
<1>4. /\ v.at = "open" /\ v.shown = "yes" /\ asked[p] = {}
      /\ Saving(p) => save[p].into # "new"
      /\ UNCHANGED <<notes, drafts, cache, asked, forgone, overruled, troubles>>
  BY <1>1 DEF Type, Rename, CanType, Writable, View
<1>5. /\ w \notin Typed /\ Typed' = Typed \cup {w} /\ home'[w] = k
      /\ \A x \in Typed : home'[x] = home[x]
  <2>1. Types(w, k)
    BY <1>1, <1>3 DEF Type, Rename
  <2> QED
    BY <2>1, TypesMakes DEF EditorInv
<1>6. EditorTypeOK' /\ EditorTypeOK
  BY TypeType DEF EditorInv
<1>7. Onward
  BY <1>4, <1>5, OnwardSame
<1>8. Active(p) /\ Alive(p)
  BY <1>1, <1>4 DEF Active, Alive
<1>9. PICK u \in View : /\ page' = [page EXCEPT ![p] = u]
                        /\ u.at = "open" /\ u.note = v.note /\ u.buffer = m.buffer
                        /\ u.dirty = TRUE /\ u.draftTimer = TRUE /\ u.shown = "yes"
  <2>1. CASE Type(p, w)
    BY <1>1, <1>2, <1>4, <2>1 DEF Type
  <2>2. CASE Rename(p, w)
    <3>1. page' = [page EXCEPT ![p] = [m EXCEPT !.saveTimer = FALSE]]
      BY <1>1, <1>2, <2>2 DEF Rename, Flush
    <3>2. PICK u : u = [m EXCEPT !.saveTimer = FALSE]
      OBVIOUS
    <3>3. /\ u \in View /\ u.at = m.at /\ u.note = m.note /\ u.buffer = m.buffer
          /\ u.dirty = m.dirty /\ u.draftTimer = m.draftTimer /\ u.shown = m.shown
      BY <3>2 DEF View
    <3> QED
      BY <1>2, <1>4, <3>1, <3>2, <3>3
  <2> QED
    BY <2>1, <2>2
<1>10. page'[p] = u /\ \A q \in Page : q # p => page'[q] = page[q]
  BY <1>6, <1>9 DEF EditorTypeOK
<1>11. PICK body : body = u.buffer
  OBVIOUS
<1>12. \A x \in Word : x \in body <=> x \in v.buffer \/ x = w
  BY <1>2, <1>9, <1>11
<1>13. Fits(v.buffer, k)
  <2>1. Texts(p)
    BY <1>8 DEF EditorInv, PageOK
  <2> QED
    BY <1>1, <1>3, <1>4, <2>1 DEF Texts, KeyOf
<1>14. Fits(body, k)'
  BY <1>5, <1>12, <1>13 DEF Fits
<1>15. Texts(p)'
  <2>1. CASE v.note = Nothing
    BY <1>3, <1>9, <1>10, <1>11, <1>14, <2>1 DEF Texts, KeyOf
  <2>2. CASE v.note # Nothing
    <3>1. /\ notes[v.note.id] # Nothing
          /\ v.note.version <= notes[v.note.id].version
          /\ v.note.version = notes[v.note.id].version => Covers(v.buffer, notes[v.note.id].body)
      BY <1>1, <1>8, <2>2 DEF EditorInv, PageOK, Texts
    <3>2. k = v.note.id
      BY <1>3, <2>2 DEF KeyOf
    <3>3. v.note.version = notes[v.note.id].version => Covers(body, notes[v.note.id].body)'
      BY <1>4, <1>12, <3>1 DEF Covers, GivenUp
    <3> QED
      BY <1>4, <1>9, <1>10, <1>11, <1>14, <2>2, <3>1, <3>2, <3>3 DEF Texts
  <2> QED
    BY <2>1, <2>2
<1>16. /\ SaveOK(p)'
       /\ \A q \in Page : q # p => save'[q] = save[q]
       /\ save'[p] = save[p] \/ (save'[p].stage = "sent" /\ Expects(p)')
  <2>1. CASE Type(p, w)
    BY <1>6, <1>7, <2>1, SaveStays DEF Type, EditorInv
  <2>2. CASE Rename(p, w)
    <3>1. Flush(p, m)
      BY <1>1, <1>2, <2>2 DEF Rename
    <3> QED
      BY <1>6, <1>7, <1>15, <3>1, FlushOK
  <2> QED
    BY <2>1, <2>2
<1>17. Expects(p)'
  <2>1. CASE save'[p] = save[p]
    <3>1. Expects(p)
      BY <1>8 DEF EditorInv, PageOK
    <3>2. Awaits(p)' => /\ v.dirty /\ save[p].into = k /\ save[p].body \subseteq v.buffer
                        /\ v.note # Nothing => save[p].base = v.note.version
                        /\ k # "new"
      BY <1>1, <1>3, <1>4, <2>1, <3>1 DEF Expects, Awaits, Saving
    <3>3. KeyOf(page[p])' = k
      BY <1>3, <1>9, <1>10 DEF KeyOf
    <3>4. v.note = Nothing => k = "new"
      BY <1>3 DEF KeyOf
    <3> QED
      BY <1>2, <1>9, <1>10, <2>1, <3>2, <3>3, <3>4 DEF Expects
  <2> QED
    BY <1>16, <2>1
<1>18. PageOK(p)'
  BY <1>4, <1>9, <1>10, <1>15, <1>17 DEF PageOK, Ended, Asks, Screen, Alive
<1>19. DraftOK(p)'
  <2>1. Covers(v.buffer, Drafted(k))
    BY <1>1, <1>3, <1>4, <1>8 DEF EditorInv, DraftOK
  <2>2. Covers(body, Drafted(k))'
    BY <1>4, <1>12, <2>1 DEF Covers, Drafted, GivenUp
  <2>3. KeyOf(page[p])' = k
    BY <1>3, <1>9, <1>10 DEF KeyOf
  <2>4. save'[p].stage = "answered" /\ save'[p].reply = "saved" /\ save'[p].into = "new"
          => save'[p].given # Nothing /\ drafts'[save'[p].given.id] = Nothing
    BY <1>4, <1>8, <1>16 DEF EditorInv, DraftOK
  <2> QED
    BY <1>9, <1>10, <1>11, <2>2, <2>3, <2>4 DEF DraftOK
<1>20. /\ \A j \in Key : drafts'[j] # Nothing => Fits(drafts[j], j)'
       /\ \A n \in Note : NoteOK(n)'
  BY <1>4, <1>6, <1>7, Rests
<1>21. \A x \in Typed' : x \in GivenUp' \/ Kept(x)'
  <2>1. Kept(w)'
    BY <1>9, <1>10, <1>11, <1>12 DEF Kept, Alive
  <2>2. \A x \in Word, j \in Key : x \in Drafted(j) => x \in GivenUp' \/ Kept(x)'
    BY <1>4 DEF Drafted, Kept
  <2>3. \A x \in Word : x \in v.buffer => Kept(x)'
    BY <1>9, <1>10, <1>11, <1>12 DEF Kept, Alive
  <2>4. \A x \in Typed : x \in GivenUp' \/ Kept(x)'
    BY <1>1, <1>6, <1>7, <1>10, <2>2, <2>3, KeptStays DEF EditorInv, EditorTypeOK
  <2> QED
    BY <1>5, <2>1, <2>4
<1> QED
  BY <1>4, <1>6, <1>7, <1>8, <1>10, <1>16, <1>18, <1>19, <1>20, <1>21, Proceeds

\* The two timers, Ctrl-S, and a page hidden or left: what is in the page goes
\* to its draft, or is sent, and stays as it is.
LEMMA TimersKeep ==
  ASSUME EditorInv, NEW p \in Page, DraftTimer(p) \/ SaveTimer(p) \/ SaveNow(p) \/ Hide(p)
  PROVE  EditorInv'
<1>1. PICK v \in View : v = page[p]
  BY DEF EditorInv, EditorTypeOK
<1>2. EditorTypeOK' /\ EditorTypeOK
  BY TimersType DEF EditorInv
<1>3. UNCHANGED <<notes, cache, asked, home, forgone, overruled>>
  BY DEF DraftTimer, SaveTimer, SaveNow, Hide, history
<1>4. Onward
  BY <1>3, OnwardSame DEF Typed
<1>5. Active(p) /\ Alive(p)
  BY DEF DraftTimer, SaveTimer, SaveNow, Hide, Active, Alive
<1>6. PICK k \in Key : k = KeyOf(v)
  BY KeyOfType
<1>7. PICK u \in View : /\ page'[p] = u
                        /\ u.note = v.note /\ u.buffer = v.buffer /\ u.dirty = v.dirty /\ u.shown = v.shown
                        /\ u.at \in {"open", "left"} /\ (u.at = "open" => v.at = "open")
                        /\ u.saveTimer => v.saveTimer
                        /\ u.draftTimer => v.draftTimer /\ u.at = v.at
                        /\ v.draftTimer /\ ~u.draftTimer => drafts' = WithDraft(v)
                        /\ drafts' = drafts \/ drafts' = WithDraft(v)
                        /\ \/ save' = save /\ \A q \in Page : q # p => page'[q] = page[q]
                           \/ \E x \in View : Flush(p, x) /\ x.note = v.note /\ x.buffer = v.buffer /\ x.dirty = v.dirty
  <2>1. CASE DraftTimer(p)
    <3>1. PICK u : u = [v EXCEPT !.draftTimer = FALSE]
      OBVIOUS
    <3>2. /\ u \in View /\ u.note = v.note /\ u.buffer = v.buffer /\ u.dirty = v.dirty /\ u.shown = v.shown
          /\ u.at = v.at /\ u.saveTimer = v.saveTimer /\ u.draftTimer = FALSE
      BY <3>1 DEF View
    <3>3. page' = [page EXCEPT ![p] = u]
      BY <1>1, <2>1, <3>1 DEF DraftTimer
    <3>4. page'[p] = u /\ \A q \in Page : q # p => page'[q] = page[q]
      BY <1>2, <3>3 DEF EditorTypeOK
    <3> QED
      BY <1>1, <2>1, <3>2, <3>4 DEF DraftTimer
  <2>2. CASE SaveTimer(p) \/ SaveNow(p)
    <3>1. PICK u : u = [v EXCEPT !.saveTimer = FALSE]
      OBVIOUS
    <3>2. /\ u \in View /\ u.note = v.note /\ u.buffer = v.buffer /\ u.dirty = v.dirty /\ u.shown = v.shown
          /\ u.at = v.at /\ u.saveTimer = FALSE /\ u.draftTimer = v.draftTimer
      BY <3>1 DEF View
    <3>3. page' = [page EXCEPT ![p] = u] /\ Flush(p, v)
      BY <1>1, <2>2, <3>1 DEF SaveTimer, SaveNow, Flush
    <3>4. page'[p] = u
      BY <1>2, <3>3 DEF EditorTypeOK
    <3>5. drafts' = drafts /\ v.at \in {"open", "left"}
      BY <1>1, <2>2 DEF SaveTimer, SaveNow
    <3> QED
      BY <3>2, <3>3, <3>4, <3>5
  <2>3. CASE Hide(p)
    <3>1. PICK at \in {"open", "left"} : Flush(p, [v EXCEPT !.at = at, !.draftTimer = FALSE])
      BY <1>1, <2>3 DEF Hide
    <3>2. PICK x : x = [v EXCEPT !.at = at, !.draftTimer = FALSE]
      OBVIOUS
    <3>3. /\ x \in View /\ x.note = v.note /\ x.buffer = v.buffer /\ x.dirty = v.dirty /\ x.shown = v.shown
          /\ x.at = at /\ x.draftTimer = FALSE
      BY <3>2 DEF View
    <3>4. PICK u : u = [x EXCEPT !.saveTimer = FALSE]
      OBVIOUS
    <3>5. /\ u \in View /\ u.note = v.note /\ u.buffer = v.buffer /\ u.dirty = v.dirty /\ u.shown = v.shown
          /\ u.at = at /\ u.draftTimer = FALSE /\ u.saveTimer = FALSE
      BY <3>3, <3>4 DEF View
    <3>6. page' = [page EXCEPT ![p] = u] /\ Flush(p, x)
      BY <3>1, <3>2, <3>4 DEF Flush
    <3>7. page'[p] = u
      BY <1>2, <3>6 DEF EditorTypeOK
    <3>8. drafts' = WithDraft(v) /\ v.at = "open"
      BY <1>1, <2>3 DEF Hide
    <3> QED
      BY <3>1, <3>3, <3>5, <3>6, <3>7, <3>8
  <2> QED
    BY <2>1, <2>2, <2>3
<1>8. /\ \A n \in Note : NoteOK(n)'
      /\ \A j \in Key : drafts'[j] # Nothing => Fits(drafts[j], j)'
      /\ \A w \in Word, j \in Key : w \in Drafted(j) => w \in GivenUp' \/ w \in Drafted(j)'
  <2>1. CASE drafts' = drafts
    BY <1>2, <1>3, <1>4, <2>1, Rests DEF Drafted
  <2>2. CASE drafts' = WithDraft(v)
    BY <1>1, <1>2, <1>3, <1>5, <2>2, Writes
  <2> QED
    BY <1>7, <2>1, <2>2
<1>9. drafts' = WithDraft(v) =>
        /\ v.dirty => \A w \in Word : w \in v.buffer => \E j \in Key : w \in Drafted(j)'
        /\ ~v.dirty => drafts' = drafts
        /\ v.dirty => drafts'[k] = v.buffer
  BY <1>1, <1>2, <1>3, <1>5, <1>6, Writes
<1>10. Texts(p)'
  <2>1. Texts(p)
    BY <1>5 DEF EditorInv, PageOK
  <2> QED
    BY <1>1, <1>2, <1>4, <1>7, <2>1, TextsStay
<1>11. /\ SaveOK(p)'
       /\ \A q \in Page : q # p => page'[q] = page[q] /\ save'[q] = save[q]
       /\ save'[p] = save[p] \/ (v.dirty /\ save'[p].stage = "sent" /\ Expects(p)')
  <2>1. CASE save' = save /\ \A q \in Page : q # p => page'[q] = page[q]
    BY <1>2, <1>4, <2>1, SaveStays DEF EditorInv
  <2>2. ASSUME NEW x \in View, Flush(p, x), x.dirty = v.dirty
        PROVE  <1>11!:
    BY <1>2, <1>4, <1>10, <2>2, FlushOK
  <2> QED
    BY <1>7, <2>1, <2>2
<1>12. KeyOf(u) = k
  BY <1>6, <1>7 DEF KeyOf
<1>13. Expects(p)'
  <2>1. Expects(p)
    BY <1>5 DEF EditorInv, PageOK
  <2>2. CASE save'[p] = save[p]
    BY <1>1, <1>6, <1>7, <1>12, <2>1, <2>2 DEF Expects, Awaits
  <2> QED
    BY <1>11, <2>2
<1>14. Asks(p)'
  <2>1. Asks(p)
    BY <1>5 DEF EditorInv, PageOK
  <2>2. asked[p] # {} => ~v.dirty
    BY <1>1, <2>1 DEF Asks
  <2>3. asked[p] # {} => save'[p] = save[p]
    BY <1>11, <2>2
  <2> QED
    BY <1>1, <1>3, <1>7, <2>1, <2>3 DEF Asks, Saving
<1>15. Ended(p)' /\ Screen(p)'
  <2>1. Ended(p) /\ Screen(p)
    BY DEF EditorInv, PageOK
  <2> QED
    BY <1>1, <1>7, <2>1 DEF Ended, Screen, Alive
<1>16. PageOK(p)'
  BY <1>10, <1>13, <1>14, <1>15 DEF PageOK
<1>17. DraftOK(p)'
  <2>1. DraftOK(p) /\ Expects(p)
    BY <1>5 DEF EditorInv, PageOK
  <2>2. v.dirty \/ v.shown = "yes" => Covers(v.buffer, Drafted(k))'
    <3>1. v.dirty \/ v.shown = "yes" => Covers(v.buffer, Drafted(k))
      BY <1>1, <1>5, <1>6, <2>1 DEF DraftOK
    <3>2. CASE drafts' = drafts
      BY <1>3, <3>1, <3>2 DEF Covers, Drafted, GivenUp
    <3>3. CASE drafts' = WithDraft(v) /\ v.dirty
      <4>1. drafts'[k] = v.buffer
        BY <1>9, <3>3
      <4> QED
        BY <4>1 DEF Covers, Drafted
    <3> QED
      BY <1>7, <1>9, <3>2, <3>3
  <2>3. drafts' = drafts \/ \A j \in Key : j # k => drafts'[j] = drafts[j]
    BY <1>2, <1>6, <1>7 DEF WithDraft, EditorTypeOK
  <2>4. save'[p].stage = "answered" /\ save'[p].reply = "saved" /\ save'[p].into = "new"
          => save'[p].given # Nothing /\ drafts'[save'[p].given.id] = Nothing
    <3> SUFFICES ASSUME save'[p].stage = "answered", save'[p].reply = "saved", save'[p].into = "new"
                 PROVE  save'[p].given # Nothing /\ drafts'[save'[p].given.id] = Nothing
      OBVIOUS
    <3>1. save'[p] = save[p]
      BY <1>11
    <3>2. PICK s \in Save : s = save[p]
      BY <1>2 DEF EditorTypeOK
    <3>3. s.given # Nothing /\ drafts[s.given.id] = Nothing /\ k = "new"
      BY <1>1, <1>5, <1>6, <2>1, <3>1, <3>2 DEF DraftOK, Expects, Awaits
    <3>4. s.given.id \in Note /\ s.given.id \in Key /\ s.given.id # "new"
      BY <3>3 DEF Save, Copy, Key
    <3> QED
      BY <2>3, <3>1, <3>2, <3>3, <3>4
  <2>5. v.at = "open" /\ v.note # Nothing /\ ~v.dirty => drafts'[v.note.id] \in {Nothing, v.note.body}
    <3>1. v.at = "open" /\ v.note # Nothing /\ ~v.dirty => drafts[v.note.id] \in {Nothing, v.note.body}
      BY <1>1, <2>1 DEF DraftOK
    <3>2. ~v.dirty => drafts' = drafts
      BY <1>7, <1>9
    <3> QED
      BY <3>1, <3>2
  <2> QED
    BY <1>7, <1>12, <2>2, <2>4, <2>5 DEF DraftOK
<1>18. \A x \in Typed' : x \in GivenUp' \/ Kept(x)'
  <2>1. \A x \in Word, j \in Key : x \in Drafted(j) => x \in GivenUp' \/ Kept(x)'
    BY <1>8 DEF Kept
  <2>2. v.draftTimer /\ v.dirty => \A x \in Word : x \in v.buffer => Kept(x)'
    <3>1. CASE u.draftTimer
      BY <1>7, <3>1 DEF Kept, Alive
    <3>2. CASE ~u.draftTimer
      BY <1>7, <1>9, <3>2 DEF Kept
    <3> QED
      BY <3>1, <3>2
  <2>3. \A x \in Typed : x \in GivenUp' \/ Kept(x)'
    BY <1>1, <1>2, <1>4, <1>11, <2>1, <2>2, KeptStays DEF EditorInv, EditorTypeOK
  <2> QED
    BY <1>3, <2>3 DEF Typed
<1>19. \A q \in Page : q # p => ~Active(q)
  BY <1>5 DEF EditorInv, Alone
<1> QED
  BY <1>2, <1>3, <1>4, <1>5, <1>8, <1>11, <1>16, <1>17, <1>18, <1>19, Proceeds

\* The tab dies: what was not written yet goes, and nothing else.
LEMMA KillKeeps == ASSUME EditorInv, NEW p \in Page, Kill(p) PROVE EditorInv'
<1>1. PICK v \in View : v = page[p]
  BY DEF EditorInv, EditorTypeOK
<1>2. EditorTypeOK' /\ EditorTypeOK
  BY KillType DEF EditorInv
<1>3. PICK k \in Key : k = KeyOf(v)
  BY KeyOfType
<1>4. PICK u : u = [Blank EXCEPT !.at = "killed"]
  OBVIOUS
<1>5. /\ UNCHANGED <<notes, drafts, cache, save, home, overruled>>
      /\ page' = [page EXCEPT ![p] = u] /\ asked' = [asked EXCEPT ![p] = {}]
      /\ forgone' = IF v.draftTimer THEN forgone \cup (v.buffer \ Drafted(k)) ELSE forgone
  BY <1>1, <1>3, <1>4 DEF Kill
<1>6. /\ page'[p] = u /\ u.at = "killed" /\ asked'[p] = {}
      /\ \A q \in Page : q # p => page'[q] = page[q] /\ asked'[q] = asked[q]
  BY <1>2, <1>4, <1>5 DEF EditorTypeOK, Blank
<1>7. Onward
  BY <1>5, OnwardSame DEF Typed
<1>8. SaveOK(p)'
  BY <1>2, <1>5, <1>7, SaveStays DEF EditorInv
<1>9. ~Alive(p)' /\ ~Active(p)'
  BY <1>6 DEF Alive, Active
<1>10. PageOK(p)' /\ DraftOK(p)'
  BY <1>6, <1>9 DEF PageOK, DraftOK, Ended, Screen
<1>11. /\ \A j \in Key : drafts'[j] # Nothing => Fits(drafts[j], j)'
       /\ \A n \in Note : NoteOK(n)'
  BY <1>2, <1>5, <1>7, Rests
<1>12. \A x \in Typed' : x \in GivenUp' \/ Kept(x)'
  <2>1. \A x \in Word, j \in Key : x \in Drafted(j) => x \in GivenUp' \/ Kept(x)'
    BY <1>5 DEF Drafted, Kept
  <2>2. v.draftTimer => \A x \in Word : x \in v.buffer => x \in GivenUp' \/ Kept(x)'
    BY <1>5, <2>1 DEF GivenUp
  <2>3. \A x \in Typed : x \in GivenUp' \/ Kept(x)'
    BY <1>1, <1>2, <1>6, <1>7, <2>1, <2>2, KeptStays DEF EditorInv, EditorTypeOK
  <2> QED
    BY <1>5, <2>3 DEF Typed
<1> QED
  BY <1>2, <1>5, <1>6, <1>7, <1>8, <1>9, <1>10, <1>11, <1>12, Proceeds

\* A request is answered, and the page has not heard of it.
LEMMA AnswerKeeps ==
  ASSUME EditorInv, EditorTypeOK', Onward, NEW p \in Page, save[p].stage \in {"sent", "answered"},
         NEW reply \in {"saved", "conflict", "error"}, NEW given \in Copy \cup {Nothing},
         Answered(p, reply, given),
         UNCHANGED <<drafts, cache, page, asked, home, forgone, overruled>>,
         \A n \in Note : NoteOK(n)',
         reply # "error" => given # Nothing /\ Faithful(given)' /\ (save[p].into # "new" => given.id = save[p].into),
         reply = "saved" =>
           /\ save[p].body \subseteq given.body
           /\ \A w \in Word : w \in given.body => w \in save[p].body
           /\ save[p].into = "new" => drafts[given.id] = Nothing,
         reply = "conflict" => save[p].into # "new"
  PROVE  EditorInv'
<1>1. PICK v \in View : v = page[p]
  BY DEF EditorInv, EditorTypeOK
<1>2. PICK s \in Save : s = save[p]
  BY DEF EditorInv, EditorTypeOK
<1>3. PICK t : t = save'[p]
  OBVIOUS
<1>4. /\ t.stage = "answered" /\ t.reply = reply /\ t.given = given
      /\ t.into = s.into /\ t.body = s.body /\ t.base = s.base
      /\ \A q \in Page : q # p => save'[q] = save[q]
  <2>1. EditorTypeOK
    BY DEF EditorInv
  <2> QED
    BY <1>2, <1>3, <2>1, AnsweredMakes
<1>5. Awaits(p) /\ Awaits(p)' /\ Saving(p) /\ Saving(p)' /\ (Alive(p)' = Alive(p)) /\ (Active(p)' = Active(p))
  BY <1>3, <1>4 DEF Awaits, Saving, Alive, Active
<1>6. SaveOK(p)'
  <2>1. SaveOK(p)
    BY DEF EditorInv
  <2>2. Fits(s.body, s.into) /\ (s.into # "new" => s.into \in Note /\ notes[s.into] # Nothing)
    BY <1>2, <1>5, <2>1 DEF SaveOK, Save, Key
  <2>3. Fits(s.body, s.into)'
    BY <2>2, FitsStays
  <2>4. s.into # "new" => notes'[s.into] # Nothing
    BY <2>2 DEF Onward
  <2>5. reply # "error" => given # Nothing /\ Faithful(given)' /\ (s.into # "new" => given.id = s.into)
    BY <1>2
  <2> QED
    BY <1>2, <1>3, <1>4, <1>5, <2>3, <2>4, <2>5 DEF SaveOK
<1>7. PageOK(p)'
  <2>1. PageOK(p)
    BY DEF EditorInv
  <2>2. Ended(p)' /\ Screen(p)'
    BY <1>2, <1>5, <2>1 DEF PageOK, Ended, Screen, Alive, Awaits
  <2>3. Texts(p) => Texts(p)'
    BY TextsStay DEF EditorInv
  <2>4. Asks(p) => Asks(p)'
    BY <1>5, AsksStay
  <2>5. Expects(p) => Expects(p)'
    BY <1>2, <1>3, <1>4, <1>5 DEF Expects
  <2> QED
    BY <1>5, <2>1, <2>2, <2>3, <2>4, <2>5 DEF PageOK
<1>8. DraftOK(p)'
  <2>1. PICK k \in Key : k = KeyOf(v)
    BY KeyOfType
  <2>2. DraftOK(p)
    BY DEF EditorInv
  <2>3. Active(p) /\ (v.dirty \/ v.shown = "yes") => Covers(v.buffer, Drafted(k))
    BY <1>1, <2>1, <2>2 DEF DraftOK
  <2>4. Active(p)' /\ (v.dirty \/ v.shown = "yes") => Covers(v.buffer, Drafted(k))'
    BY <1>5, <2>3 DEF Covers, GivenUp, Drafted
  <2>5. page'[p] = v /\ drafts' = drafts
    BY <1>1
  <2>6. t.reply = "saved" /\ t.into = "new" => t.given # Nothing /\ drafts'[t.given.id] = Nothing
    BY <1>2, <1>4, <2>5
  <2>7. v.at = "open" /\ v.note # Nothing /\ ~v.dirty => drafts[v.note.id] \in {Nothing, v.note.body}
    BY <1>1, <2>2 DEF DraftOK
  <2> QED
    BY <1>3, <2>1, <2>4, <2>5, <2>6, <2>7 DEF DraftOK
<1>9. \A k \in Key : drafts'[k] # Nothing => Fits(drafts[k], k)'
  BY Rests
<1>10. \A x \in Typed' : x \in GivenUp' \/ Kept(x)'
  <2>1. \A x \in Word, j \in Key : x \in Drafted(j) => x \in GivenUp' \/ Kept(x)'
    BY DEF Drafted, Kept
  <2>2. Alive(p) /\ v.draftTimer /\ v.dirty => \A x \in Word : x \in v.buffer => Kept(x)'
    BY <1>1, <1>5 DEF Kept
  <2>3. \A x \in Typed : x \in GivenUp' \/ Kept(x)'
    BY <1>1, <2>1, <2>2, KeptStays DEF EditorInv, EditorTypeOK
  <2> QED
    BY <2>3 DEF Typed
<1> QED
  BY <1>4, <1>5, <1>6, <1>7, <1>8, <1>9, <1>10, Proceeds

LEMMA LoseKeeps == ASSUME EditorInv, NEW p \in Page, Lose(p) PROVE EditorInv'
<1>1. EditorTypeOK'
  BY LoseType DEF EditorInv
<1>2. /\ save[p].stage \in {"sent", "answered"} /\ Answered(p, "error", Nothing)
      /\ UNCHANGED <<notes, drafts, cache, page, asked, home, forgone, overruled>>
  BY DEF Lose, history
<1>3. Onward
  BY <1>2, OnwardSame DEF Typed
<1>4. \A n \in Note : NoteOK(n)'
  BY <1>1, <1>2, <1>3, Rests
<1> QED
  BY <1>1, <1>2, <1>3, <1>4, AnswerKeeps

\* The server takes a save over only from the version it has, so nothing goes.
LEMMA ServerSaveKeeps == ASSUME EditorInv, NEW p \in Page, ServerSave(p) PROVE EditorInv'
<1>1. EditorTypeOK' /\ EditorTypeOK
  BY ServerSaveType DEF EditorInv
<1>2. PICK s \in Save : s = save[p]
  BY <1>1 DEF EditorTypeOK
<1>3. s.stage = "sent" /\ UNCHANGED <<drafts, cache, page, asked, home, forgone, overruled>>
  BY <1>2, ServerSaveMakes DEF history
<1>4. Typed' = Typed /\ GivenUp' = GivenUp
  BY <1>3 DEF Typed, GivenUp
<1>5. SaveOK(p) /\ Awaits(p)
  BY <1>2, <1>3 DEF EditorInv, Awaits
<1>6. /\ Fits(s.body, s.into) /\ s.body \in Body
      /\ s.into # "new" => notes[s.into] # Nothing
      /\ s.into # "new" /\ s.base = notes[s.into].version => Covers(s.body, notes[s.into].body)
  BY <1>2, <1>3, <1>5 DEF SaveOK, Save
<1>7. ASSUME NEW n \in Note, NEW row \in Stored, NEW c \in Copy,
             s.into = "new", notes[n] = Nothing, notes' = [notes EXCEPT ![n] = row], row.body = s.body,
             c.id = n, c.body = row.body, c.version = row.version, Answered(p, "saved", c)
      PROVE  EditorInv'
  <2>1. Onward
    BY <1>1, <1>3, <1>4, <1>7, OnwardNote
  <2>2. Fits(s.body, "new")'
    BY <1>6, <1>7, <2>1, FitsStays
  <2>3. Fits(row.body, n)'
    BY <1>7, <2>2 DEF Fits
  <2>4. \A m \in Note : NoteOK(m)'
    BY <1>1, <1>3, <1>7, <2>1, <2>3, NoteChanges
  <2>5. notes'[n] = row /\ row # Nothing
    BY <1>1, <1>7 DEF EditorTypeOK
  <2>6. Faithful(c)'
    <3>1. Covers(OnServer, c.body)'
      BY <1>7, <2>5 DEF Covers, OnServer
    <3>2. c.version \in Nat
      BY DEF Copy
    <3> QED
      BY <1>7, <2>3, <2>5, <3>1, <3>2 DEF Faithful
  <2>7. drafts[n] = Nothing
    BY <1>7 DEF EditorInv, NoteOK
  <2>8. c # Nothing
    OBVIOUS
  <2> QED
    BY <1>1, <1>2, <1>3, <1>7, <2>1, <2>4, <2>6, <2>7, <2>8, AnswerKeeps
<1>8. ASSUME NEW row \in Stored, NEW c \in Copy,
             s.into \in Note, notes[s.into] \in Stored, s.base = notes[s.into].version,
             notes' = [notes EXCEPT ![s.into] = row],
             row.body = Rewritten(notes[s.into].body, s.body), row.version = notes[s.into].version + 1,
             c.id = s.into, c.body = row.body, c.version = row.version, Answered(p, "saved", c)
      PROVE  EditorInv'
  <2>1. PICK n \in Note : n = s.into
    BY <1>8
  <2>2. PICK old \in Stored : old = notes[n]
    BY <1>8, <2>1
  <2>3. old.version \in Nat /\ old.body \in Body /\ n # "new" /\ notes[n] # Nothing
    BY <2>2 DEF Stored
  <2>4. /\ s.body \subseteq row.body
        /\ \A w \in Word : w \in row.body => w \in s.body
    BY <1>6, <1>8, <2>1, <2>2, <2>3, RewrittenMakes
  <2>5. Covers(s.body, old.body)
    BY <1>6, <1>8, <2>1, <2>2, <2>3
  <2>6. Onward
    <3>1. \A w \in Word : w \in old.body => w \in row.body \/ w \in GivenUp
      BY <2>4, <2>5 DEF Covers
    <3>2. old.version < row.version
      BY <1>8, <2>1, <2>2, <2>3
    <3> QED
      BY <1>1, <1>3, <1>4, <1>8, <2>1, <2>2, <3>1, <3>2, OnwardNote
  <2>7. Fits(s.body, n)'
    BY <1>6, <2>1, <2>6, FitsStays
  <2>8. Fits(row.body, n)'
    BY <2>4, <2>7 DEF Fits
  <2>9. \A m \in Note : NoteOK(m)'
    BY <1>1, <1>3, <1>8, <2>1, <2>6, <2>8, NoteChanges
  <2>10. notes'[n] = row /\ row # Nothing
    BY <1>1, <1>8, <2>1 DEF EditorTypeOK
  <2>11. Faithful(c)'
    <3>1. Covers(OnServer, c.body)'
      BY <1>8, <2>10 DEF Covers, OnServer
    <3>2. c.version \in Nat
      BY DEF Copy
    <3> QED
      BY <1>8, <2>1, <2>8, <2>10, <3>1, <3>2 DEF Faithful
  <2>12. c # Nothing
    OBVIOUS
  <2> QED
    BY <1>1, <1>2, <1>3, <1>8, <2>1, <2>3, <2>4, <2>6, <2>9, <2>11, <2>12, AnswerKeeps
<1>9. ASSUME NEW c \in Copy,
             s.into \in Note, notes' = notes, notes[s.into] \in Stored,
             c.id = s.into, c.body = notes[s.into].body, c.version = notes[s.into].version,
             Answered(p, "conflict", c)
      PROVE  EditorInv'
  <2>1. Onward
    BY <1>3, <1>4, <1>9, OnwardSame
  <2>2. Faithful(c)
    BY <1>1, <1>9, CurrentFaithful DEF EditorInv, NoteOK
  <2>3. Faithful(c)'
    BY <1>1, <2>1, <2>2, FaithfulStays
  <2>4. \A n \in Note : NoteOK(n)'
    BY <1>1, <1>3, <1>9, <2>1, Rests
  <2>5. c # Nothing /\ s.into # "new"
    BY <1>9
  <2> QED
    BY <1>1, <1>2, <1>3, <1>9, <2>1, <2>3, <2>4, <2>5, AnswerKeeps
<1>10. CASE notes' = notes /\ Answered(p, "error", Nothing)
  <2>1. Onward
    BY <1>3, <1>4, <1>10, OnwardSame
  <2>2. \A n \in Note : NoteOK(n)'
    BY <1>1, <1>3, <1>10, <2>1, Rests
  <2> QED
    BY <1>1, <1>2, <1>3, <1>10, <2>1, <2>2, AnswerKeeps
<1> QED
  BY <1>2, <1>7, <1>8, <1>9, <1>10, ServerSaveMakes

\* The connection comes and goes, and the index is there.
LEMMA OnlineKeeps ==
  ASSUME EditorInv, NEW p \in Page, IndexDone(p) \/ GoOffline(p) \/ GoOnline(p)
  PROVE  EditorInv'
<1>1. EditorTypeOK'
  BY OnlineType
<1>2. /\ page[p].at # "none"
      /\ \E offline \in BOOLEAN : page' = [page EXCEPT ![p].offline = offline]
      /\ save' = save \/ save' = [save EXCEPT ![p] = NoSave]
      /\ UNCHANGED <<notes, drafts, cache, asked, home, forgone, overruled>>
  BY DEF IndexDone, GoOffline, GoOnline, history
<1> QED
  BY <1>1, <1>2, OfflineKeeps

\* What the page has once it has read an answer with a note: the new state of the
\* page is u, of its save t.
LEMMA AnswerRead ==
  ASSUME EditorInv, EditorTypeOK', NEW p \in Page, Alive(p), save[p].stage = "answered",
         NEW c \in Copy, Faithful(c), NEW u \in View, NEW t \in Save,
         page' = [page EXCEPT ![p] = u], save' = [save EXCEPT ![p] = t],
         t.stage \in {"idle", "indexing"}, u.at = page[p].at, u.shown = page[p].shown,
         u.note # Nothing, u.note.id = c.id, u.note.version = c.version, u.dirty => page[p].dirty,
         u.draftTimer => page[p].draftTimer,
         Covers(u.buffer, c.body)', Fits(u.buffer, c.id),
         Covers(u.buffer, Drafted(c.id))',
         ~u.dirty => u.buffer = u.note.body /\ drafts'[c.id] = Nothing,
         UNCHANGED <<notes, asked, home>>, forgone \subseteq forgone', overruled \subseteq overruled',
         \A k \in Key : drafts'[k] \in {drafts[k], Nothing},
         cache' = cache \/ cache' = [cache EXCEPT ![c.id] = c],
         \A w \in Word, k \in Key : w \in Drafted(k) => w \in GivenUp' \/ Kept(w)',
         page[p].draftTimer /\ page[p].dirty => \A w \in Word : w \in page[p].buffer => w \in GivenUp' \/ Kept(w)'
  PROVE  EditorInv'
<1>1. EditorTypeOK /\ c.id \in Note /\ c.version \in Nat
  BY DEF EditorInv, Copy
<1>2. Onward
  BY OnwardSame DEF Typed
<1>3. /\ page'[p] = u /\ save'[p] = t
      /\ \A q \in Page : q # p => page'[q] = page[q] /\ save'[q] = save[q]
  BY <1>1 DEF EditorTypeOK
<1>4. Active(p) /\ Expects(p) /\ Awaits(p) /\ Asks(p) /\ Ended(p) /\ Screen(p)
  BY DEF EditorInv, PageOK, Active, Awaits, Saving
<1>5. asked[p] = {} /\ page[p].dirty
  BY <1>4 DEF Expects, Asks
<1>6. ~Awaits(p)'
  BY <1>3 DEF Awaits
<1>7. SaveOK(p)'
  BY <1>3, <1>6 DEF SaveOK, Awaits
<1>8. Texts(p)'
  <2>1. notes[c.id] # Nothing /\ c.version <= notes[c.id].version
    BY DEF Faithful
  <2>2. c.version = notes[c.id].version => c.body = notes[c.id].body
    BY DEF Faithful
  <2>3. c.version = notes[c.id].version => Covers(u.buffer, notes[c.id].body)'
    BY <2>2 DEF Covers
  <2>4. Fits(u.buffer, c.id)'
    BY <1>2, FitsStays
  <2> QED
    BY <1>3, <2>1, <2>3, <2>4 DEF Texts
<1>9. PageOK(p)'
  <2>1. Asks(p)'
    BY <1>5 DEF Asks
  <2>2. Ended(p)' /\ Screen(p)'
    BY <1>3, <1>4, <1>5 DEF Ended, Screen, Alive
  <2> QED
    BY <1>6, <1>8, <2>1, <2>2 DEF PageOK, Expects
<1>10. DraftOK(p)'
  <2>1. KeyOf(page[p])' = c.id
    BY <1>3 DEF KeyOf
  <2> QED
    BY <1>3, <2>1 DEF DraftOK
<1>11. /\ \A k \in Key : drafts'[k] # Nothing => Fits(drafts[k], k)'
       /\ \A n \in Note : notes'[n] = notes[n] /\ cache'[n] = cache[n] => NoteOK(n)'
  BY <1>2, Rests
<1>12. ASSUME NEW n \in Note PROVE NoteOK(n)'
  <2>1. CASE cache'[n] = cache[n]
    BY <1>11, <2>1
  <2>2. CASE cache'[n] # cache[n]
    <3>1. n = c.id /\ cache'[n] = c
      BY <1>1, <2>2 DEF EditorTypeOK
    <3>2. Faithful(c)'
      BY <1>1, <1>2, FaithfulStays
    <3>3. notes[n] # Nothing /\ Fits(notes[n].body, n)
      BY <1>1, <3>1 DEF EditorInv, NoteOK, Faithful
    <3>4. Fits(notes[n].body, n)'
      BY <3>3 DEF Fits, Typed
    <3> QED
      BY <3>1, <3>2, <3>3, <3>4 DEF NoteOK
  <2> QED
    BY <2>1, <2>2
<1>13. \A w \in Typed' : w \in GivenUp' \/ Kept(w)'
  <2>1. \A w \in Typed : w \in GivenUp' \/ Kept(w)'
    BY <1>1, <1>2, <1>3, KeptStays DEF EditorInv, EditorTypeOK
  <2> QED
    BY <2>1 DEF Typed
<1> QED
  BY <1>2, <1>3, <1>4, <1>7, <1>9, <1>10, <1>11, <1>12, <1>13, Proceeds

\* flushSave reads its answer: the page adopts the server's version, or its user
\* decides between the two.
LEMMA SaveDoneKeeps == ASSUME EditorInv, NEW p \in Page, SaveDone(p) PROVE EditorInv'
<1>1. PICK v \in View : v = page[p]
  BY DEF EditorInv, EditorTypeOK
<1>2. PICK s \in Save : s = save[p]
  BY DEF EditorInv, EditorTypeOK
<1>3. EditorTypeOK' /\ EditorTypeOK
  BY SaveDoneType DEF EditorInv
<1>4. Alive(p) /\ Active(p) /\ Awaits(p) /\ s.stage = "answered" /\ UNCHANGED <<notes, asked, home, troubles>>
  BY <1>2 DEF SaveDone, Alive, Active, Saving, Awaits
<1>5. PICK k \in Key : k = KeyOf(v)
  BY KeyOfType
<1>6. /\ v.dirty /\ s.into = k /\ s.body \subseteq v.buffer
      /\ v.note = Nothing => v.buffer = s.body
  BY <1>1, <1>2, <1>4, <1>5 DEF EditorInv, PageOK, Expects
<1>7. Texts(p) /\ Covers(v.buffer, Drafted(k))
  BY <1>1, <1>4, <1>5, <1>6 DEF EditorInv, PageOK, DraftOK
<1>8. k # "new" => v.note # Nothing /\ k = v.note.id /\ Fits(v.buffer, k)
  BY <1>1, <1>5, <1>7 DEF Texts, KeyOf
<1>9. CASE Saved(p)
  <2>1. s.reply = "saved"
    BY <1>2, <1>9 DEF Saved
  <2>2. PICK c \in Copy : s.given = c /\ Faithful(c)
    BY <1>2, <1>4, <2>1, GivenOf
  <2>3. /\ s.body \subseteq c.body
        /\ \A w \in Word : w \in c.body => w \in s.body
        /\ s.into # "new" => c.id = s.into
        /\ s.into = "new" => drafts[c.id] = Nothing
    BY <1>2, <1>4, <2>1, <2>2 DEF EditorInv, SaveOK, DraftOK
  <2>4. c.id \in Note /\ c.id \in Key /\ c.id # "new" /\ Fits(c.body, c.id) /\ Covers(OnServer, c.body)
    BY <2>2 DEF Copy, Key, Faithful
  <2>5. PICK u \in View :
           /\ u = Adopted(v, s) /\ u.note = c /\ u.at = v.at /\ u.shown = v.shown
           /\ v.buffer = s.body => u.buffer = c.body /\ u.dirty = FALSE /\ u.draftTimer = FALSE
           /\ v.buffer # s.body => u.buffer = v.buffer /\ u.dirty = v.dirty /\ u.draftTimer = v.draftTimer
    BY <2>2, AdoptedMakes
  <2>6. PICK t \in Save : t = [NoSave EXCEPT !.stage = "indexing"] /\ t.stage = "indexing"
    BY NoSaveType DEF NoSave
  <2>7. /\ page' = [page EXCEPT ![p] = u] /\ save' = [save EXCEPT ![p] = t]
        /\ cache' = [cache EXCEPT ![c.id] = c] /\ UNCHANGED <<forgone, overruled>>
        /\ drafts' = Undrafted(v, s)
    BY <1>1, <1>2, <1>9, <2>2, <2>5, <2>6 DEF Saved
  <2>8. /\ \A j \in Key : drafts'[j] \in {drafts[j], Nothing}
        /\ v.buffer = s.body => drafts'[c.id] = Nothing
        /\ \A j \in Key : drafts'[j] = drafts[j] \/ (s.into = "new" /\ j = "new")
                             \/ (v.buffer = s.body /\ j = c.id)
    BY <1>3, <2>2, <2>4, <2>7, UndraftedMakes
  <2>9. v.buffer # s.body => c.id = k /\ k # "new"
    BY <1>5, <1>6, <2>3 DEF KeyOf, View, Copy
  <2>10. Covers(u.buffer, c.body)'
    BY <1>6, <2>3, <2>5 DEF Covers
  <2>11. Fits(u.buffer, c.id)
    BY <1>8, <2>4, <2>5, <2>9
  <2>12. Covers(u.buffer, Drafted(c.id))'
    <3>1. CASE v.buffer = s.body
      BY <2>8, <3>1 DEF Covers, Drafted
    <3>2. CASE v.buffer # s.body
      <4>1. \A w \in Word : w \in Drafted(k)' => w \in Drafted(k)
        BY <2>8 DEF Drafted
      <4> QED
        BY <1>7, <2>5, <2>7, <2>9, <3>2, <4>1 DEF Covers, GivenUp
    <3> QED
      BY <3>1, <3>2
  <2>13. \A w \in Word : w \in c.body => w \in GivenUp' \/ Kept(w)'
    BY <1>4, <2>4, <2>7 DEF Covers, Kept, OnServer, GivenUp
  <2>14. \A w \in Word, j \in Key : w \in Drafted(j) => w \in GivenUp' \/ Kept(w)'
    <3> TAKE w \in Word, j \in Key
    <3>1. CASE drafts'[j] = drafts[j]
      BY <3>1 DEF Drafted, Kept
    <3>2. CASE s.into = "new" /\ j = "new"
      <4>1. v.buffer = s.body
        BY <1>5, <1>6, <2>9, <3>2
      <4> QED
        BY <1>6, <1>7, <2>3, <2>7, <2>13, <3>2, <4>1 DEF Covers, GivenUp
    <3>3. CASE v.buffer = s.body /\ j = c.id /\ s.into # "new"
      BY <1>6, <1>7, <2>3, <2>7, <2>13, <3>3 DEF Covers, GivenUp
    <3>4. CASE j = c.id /\ s.into = "new"
      BY <2>3, <3>4 DEF Drafted
    <3> QED
      BY <2>8, <3>1, <3>2, <3>3, <3>4
  <2>15. v.draftTimer => \A w \in Word : w \in v.buffer => w \in GivenUp' \/ Kept(w)'
    <3>1. CASE v.buffer = s.body
      BY <2>3, <2>13, <3>1
    <3>2. CASE v.buffer # s.body
      <4>1. page'[p] = u
        BY <1>3, <2>7 DEF EditorTypeOK
      <4>2. v.at \in {"open", "left"}
        BY <1>1, <1>4 DEF Alive
      <4> QED
        BY <1>6, <2>5, <3>2, <4>1, <4>2 DEF Kept, Alive
    <3> QED
      BY <3>1, <3>2
  <2>16. ~u.dirty => u.buffer = u.note.body /\ drafts'[c.id] = Nothing
    BY <1>6, <2>5, <2>8
  <2>17. u.note # Nothing
    BY <2>5
  <2>18. (u.dirty => v.dirty) /\ (u.draftTimer => v.draftTimer)
    BY <1>6, <2>5
  <2> QED
    BY ZenonT(60), <1>1, <1>2, <1>3, <1>4, <2>2, <2>5, <2>6, <2>7, <2>8, <2>10, <2>11, <2>12, <2>14, <2>15, <2>16, <2>17, <2>18, AnswerRead
<1>10. CASE Discard(p) \/ Keep(p)
  <2>1. s.reply = "conflict"
    BY <1>2, <1>10 DEF Discard, Keep
  <2>2. PICK c \in Copy : s.given = c /\ Faithful(c)
    BY <1>2, <1>4, <2>1, GivenOf
  <2>3. s.into # "new" /\ c.id = k /\ k # "new" /\ v.note # Nothing /\ v.note.id = k
    BY <1>2, <1>4, <1>6, <1>8, <2>1, <2>2 DEF EditorInv, SaveOK
  <2>4. Fits(c.body, c.id) /\ Covers(OnServer, c.body) /\ c.id \in Key
    BY <2>2 DEF Copy, Key, Faithful
  <2>5. PICK t \in Save : t = NoSave /\ t.stage = "idle"
    BY NoSaveType DEF NoSave
  <2>6. \A w \in Word : w \in c.body => w \in GivenUp' \/ Kept(w)'
    <3>1. \A w \in GivenUp : w \in GivenUp'
      BY <1>10 DEF Discard, Keep, GivenUp
    <3> QED
      BY <1>4, <2>4, <3>1 DEF Covers, Kept, OnServer
  <2>7. CASE Discard(p)
    <3>1. PICK u : u = [v EXCEPT !.note = c, !.buffer = c.body, !.dirty = FALSE]
      OBVIOUS
    <3>2. /\ u \in View /\ u.note = c /\ u.buffer = c.body /\ u.dirty = FALSE
          /\ u.at = v.at /\ u.shown = v.shown /\ u.draftTimer = v.draftTimer
      BY <3>1 DEF View, Copy
    <3>3. /\ page' = [page EXCEPT ![p] = u] /\ save' = [save EXCEPT ![p] = t]
          /\ drafts' = [drafts EXCEPT ![c.id] = Nothing]
          /\ forgone' = forgone \cup ((v.buffer \cup Drafted(c.id)) \ c.body)
          /\ UNCHANGED <<cache, overruled>>
      BY <1>1, <1>2, <2>2, <2>5, <2>7, <3>1 DEF Discard
    <3>4. /\ drafts'[c.id] = Nothing
          /\ \A j \in Key : j # c.id => drafts'[j] = drafts[j]
      BY <1>3, <2>4, <3>3 DEF EditorTypeOK
    <3>5. Covers(u.buffer, c.body)' /\ Covers(u.buffer, Drafted(c.id))'
      BY <3>2, <3>4 DEF Covers, Drafted
    <3>6. \A w \in Word, j \in Key : w \in Drafted(j) => w \in GivenUp' \/ Kept(w)'
      <4> TAKE w \in Word, j \in Key
      <4>1. CASE j # c.id
        BY <3>4, <4>1 DEF Drafted, Kept
      <4>2. CASE j = c.id
        BY <2>6, <3>3, <4>2 DEF GivenUp
      <4> QED
        BY <4>1, <4>2
    <3>7. \A w \in Word : w \in v.buffer => w \in GivenUp' \/ Kept(w)'
      BY <2>6, <3>3 DEF GivenUp
    <3>8. /\ u.note # Nothing /\ Fits(u.buffer, c.id) /\ forgone \subseteq forgone'
          /\ ~u.dirty /\ u.note.id = c.id /\ u.note.version = c.version /\ u.buffer = u.note.body
      BY <2>4, <3>2, <3>3
    <3>9. \A j \in Key : drafts'[j] \in {drafts[j], Nothing}
      BY <3>4
    <3>10. /\ page' = [page EXCEPT ![p] = u] /\ save' = [save EXCEPT ![p] = t]
           /\ cache' = cache /\ overruled \subseteq overruled'
           /\ u.at = page[p].at /\ u.shown = page[p].shown
      BY <1>1, <3>2, <3>3
    <3>11. /\ u.dirty => page[p].dirty
           /\ u.draftTimer => page[p].draftTimer
      BY <1>1, <3>2
    <3>12. ~u.dirty => u.buffer = u.note.body /\ drafts'[c.id] = Nothing
      BY <3>4, <3>8
    <3> QED
      BY <1>1, <1>2, <1>3, <1>4, <2>2, <2>5, <3>2, <3>5, <3>6, <3>7, <3>8, <3>9, <3>10, <3>11, <3>12, AnswerRead
  <2>8. CASE Keep(p)
    <3>1. PICK d : d = [c EXCEPT !.body = v.buffer]
      OBVIOUS
    <3>2. d \in Copy /\ d.id = c.id /\ d.version = c.version /\ d # Nothing
      BY <3>1 DEF Copy, View
    <3>3. PICK u : u = [v EXCEPT !.note = d]
      OBVIOUS
    <3>4. /\ u \in View /\ u.note = d /\ u.buffer = v.buffer /\ u.dirty = v.dirty
          /\ u.at = v.at /\ u.shown = v.shown /\ u.draftTimer = v.draftTimer
      BY <3>2, <3>3 DEF View
    <3>5. /\ page' = [page EXCEPT ![p] = u] /\ save' = [save EXCEPT ![p] = t]
          /\ overruled' = overruled \cup (c.body \ v.buffer)
          /\ UNCHANGED <<cache, drafts, forgone>>
      BY <1>1, <1>2, <2>2, <2>3, <2>5, <2>8, <3>1, <3>3 DEF Keep
    <3>6. Covers(u.buffer, c.body)'
      BY <3>4, <3>5 DEF Covers, GivenUp
    <3>7. Covers(u.buffer, Drafted(c.id))'
      BY <1>7, <2>3, <3>4, <3>5 DEF Covers, GivenUp, Drafted
    <3>8. \A w \in Word, j \in Key : w \in Drafted(j) => w \in GivenUp' \/ Kept(w)'
      BY <3>5 DEF Drafted, Kept
    <3>9. v.draftTimer => \A w \in Word : w \in v.buffer => Kept(w)'
      <4>1. page'[p] = u /\ v.at \in {"open", "left"}
        BY <1>1, <1>3, <1>4, <3>5 DEF EditorTypeOK, Alive
      <4> QED
        BY <1>6, <3>4, <4>1 DEF Kept, Alive
    <3>10. /\ u.note # Nothing /\ Fits(u.buffer, c.id) /\ overruled \subseteq overruled'
           /\ u.dirty /\ u.note.id = c.id /\ u.note.version = c.version
      BY <1>6, <1>8, <2>3, <3>2, <3>4, <3>5
    <3>11. \A j \in Key : drafts'[j] \in {drafts[j], Nothing}
      BY <3>5
    <3> QED
      BY ZenonT(60), <1>1, <1>2, <1>3, <1>4, <1>6, <2>2, <2>5, <3>4, <3>5, <3>6, <3>7, <3>8, <3>9, <3>10, <3>11, AnswerRead
  <2> QED
    BY <1>10, <2>7, <2>8
<1>11. CASE save' = [save EXCEPT ![p] = NoSave] /\ UNCHANGED <<page, drafts, cache, forgone, overruled>>
  <2>1. page[p].at # "none"
    BY <1>4 DEF Alive
  <2> QED
    BY <1>3, <1>4, <1>11, <2>1, OfflineKeeps
<1> QED
  BY <1>9, <1>10, <1>11 DEF SaveDone

\* Who waits for "saved" leaves nothing behind: the other pages are done, and so
\* is this one, if it is open.
LEMMA SwitchesWhenDone ==
  ASSUME EditorInv, Patient, NEW p \in Page, CanSwitch(p)
  PROVE  /\ ~page[p].dirty /\ asked[p] = {}
         /\ \A q \in Page : q # p => ~Active(q)
         /\ Alive(p) => ~Saving(p) /\ ~page[p].saveTimer /\ ~page[p].draftTimer
BY DEF CanSwitch, Active, Alive

LEMMA OpenPageKeeps ==
  ASSUME EditorInv, Patient, NEW p \in Page, OpenPage(p) PROVE EditorInv'
<1>1. EditorTypeOK' /\ EditorTypeOK
  BY SwitchType DEF EditorInv
<1>2. UNCHANGED <<notes, drafts, cache, save, asked, home, forgone, overruled>>
  BY DEF OpenPage, history
<1>3. PICK offline \in BOOLEAN : page' = [page EXCEPT ![p].at = "open", ![p].offline = offline]
  BY DEF OpenPage
<1>4. page[p] = Blank /\ ~Saving(p)
  BY DEF OpenPage, EditorInv, PageOK, Ended, Saving
<1>5. PICK u : u = [Blank EXCEPT !.at = "open", !.offline = offline]
  OBVIOUS
<1>6. page'[p] = u /\ \A q \in Page : q # p => page'[q] = page[q]
  BY <1>1, <1>3, <1>4, <1>5 DEF EditorTypeOK
<1>7. u.at = "open" /\ u.note = Nothing /\ ~u.dirty /\ u.shown = "no" /\ ~u.draftTimer /\ ~u.saveTimer
  BY <1>5 DEF Blank
<1>8. Onward
  BY <1>2, OnwardSame DEF Typed
<1>9. asked[p] = {} /\ \A q \in Page : q # p => ~Active(q)
  BY SwitchesWhenDone DEF OpenPage
<1>10. SaveOK(p)'
  BY <1>1, <1>2, <1>8, SaveStays DEF EditorInv
<1>11. ~Awaits(p)' /\ ~Saving(p)'
  BY <1>2, <1>4 DEF Awaits, Saving
<1>12. PageOK(p)'
  BY <1>2, <1>6, <1>7, <1>9, <1>11 DEF PageOK, Ended, Alive, Texts, Asks, Expects, Screen
<1>13. DraftOK(p)'
  BY <1>6, <1>7, <1>11 DEF DraftOK, Saving
<1>14. /\ \A k \in Key : drafts'[k] # Nothing => Fits(drafts[k], k)'
       /\ \A n \in Note : NoteOK(n)'
  BY <1>1, <1>2, <1>8, Rests
<1>15. \A w \in Typed' : w \in GivenUp' \/ Kept(w)'
  <2>1. \A w \in Word, k \in Key : w \in Drafted(k) => w \in GivenUp' \/ Kept(w)'
    BY <1>2 DEF Drafted, Kept
  <2>2. ~page[p].draftTimer
    BY <1>4 DEF Blank
  <2>3. \A w \in Typed : w \in GivenUp' \/ Kept(w)'
    BY <1>1, <1>6, <1>8, <2>1, <2>2, KeptStays DEF EditorInv, EditorTypeOK
  <2> QED
    BY <1>2, <2>3 DEF Typed
<1> QED
  BY <1>1, <1>2, <1>6, <1>8, <1>9, <1>10, <1>12, <1>13, <1>14, <1>15, Proceeds

LEMMA OpenKeeps ==
  ASSUME EditorInv, Patient, NEW p \in Page, NEW n \in Note, Open(p, n) PROVE EditorInv'
<1>1. EditorTypeOK' /\ EditorTypeOK
  BY SwitchType DEF EditorInv
<1>2. /\ UNCHANGED <<notes, drafts, cache, page, save, home, forgone, overruled>>
      /\ page[p].at = "open" /\ CanSwitch(p) /\ notes[n] # Nothing
  BY DEF Open, history
<1>3. /\ ~page[p].dirty /\ asked[p] = {}
      /\ ~Saving(p) /\ ~page[p].saveTimer /\ ~page[p].draftTimer
  BY <1>2, SwitchesWhenDone DEF Alive
<1>4. asked'[p] = {n} /\ \A q \in Page : q # p => asked'[q] = asked[q]
  BY <1>1, <1>3 DEF Open, EditorTypeOK
<1>5. Onward
  BY <1>2, OnwardSame DEF Typed
<1>6. SaveOK(p)' /\ DraftOK(p)'
  BY <1>1, <1>2, <1>5, SaveStays, DraftStays DEF EditorInv
<1>7. PageOK(p)'
  <2>1. PageOK(p) /\ Alive(p)
    BY <1>2 DEF EditorInv, Alive
  <2>2. Texts(p)'
    BY <1>1, <1>2, <1>5, <2>1, TextsStay DEF PageOK
  <2>3. Asks(p)'
    BY <1>2, <1>3, <1>4 DEF Asks, Saving
  <2>4. Expects(p)'
    BY <1>2, <2>1 DEF PageOK, Expects, Awaits
  <2>5. Ended(p)' /\ Screen(p)'
    BY <1>2, <2>1 DEF PageOK, Ended, Screen, Alive
  <2> QED
    BY <2>2, <2>3, <2>4, <2>5 DEF PageOK
<1>8. /\ \A k \in Key : drafts'[k] # Nothing => Fits(drafts[k], k)'
      /\ \A m \in Note : NoteOK(m)'
  BY <1>1, <1>2, <1>5, Rests
<1>9. \A w \in Typed' : w \in GivenUp' \/ Kept(w)'
  <2>1. \A w : Kept(w) => Kept(w)'
    BY <1>2 DEF Kept, OnServer, Drafted, Alive
  <2> QED
    BY <1>2, <2>1 DEF EditorInv, Typed, GivenUp
<1>10. Active(p)' => Active(p)
  BY <1>2 DEF Active, Alive, Saving
<1> QED
  BY <1>1, <1>2, <1>4, <1>5, <1>6, <1>7, <1>8, <1>9, <1>10, Proceeds

\* A text is put on a page that had nothing to do: what has to be shown of it.
LEMMA TextShown ==
  ASSUME EditorInv, EditorTypeOK', Onward, NEW p \in Page, Alive(p),
         ~page[p].dirty, ~Saving(p), ~page[p].saveTimer, ~page[p].draftTimer,
         NEW u \in View, page' = [page EXCEPT ![p] = u], u.at = page[p].at,
         ~u.saveTimer, ~u.draftTimer, asked'[p] = {},
         \A q \in Page : q # p => asked'[q] = asked[q],
         u.dirty => u.shown = "yes",
         Texts(p)',
         u.dirty \/ u.shown = "yes" => Covers(u.buffer, Drafted(KeyOf(u)))',
         u.note # Nothing /\ ~u.dirty => u.buffer = u.note.body /\ drafts'[u.note.id] \in {Nothing, u.note.body},
         UNCHANGED <<save, home>>,
         \A k \in Key : drafts'[k] \in {drafts[k], Nothing},
         \A n \in Note : NoteOK(n)',
         \A w \in Word, k \in Key : w \in Drafted(k) => w \in GivenUp' \/ Kept(w)'
  PROVE  EditorInv'
<1>1. EditorTypeOK
  BY DEF EditorInv
<1>2. page'[p] = u /\ \A q \in Page : q # p => page'[q] = page[q]
  BY <1>1 DEF EditorTypeOK
<1>3. SaveOK(p)'
  BY <1>1, SaveStays DEF EditorInv
<1>4. ~Saving(p)' /\ ~Awaits(p)'
  BY DEF Saving, Awaits
<1>5. PageOK(p)'
  <2>1. Ended(p)' /\ Screen(p)'
    BY <1>2 DEF Ended, Screen, Alive
  <2> QED
    BY <1>4, <2>1 DEF PageOK, Asks, Expects
<1>6. Active(p)' => Active(p)
  BY <1>2, <1>4 DEF Active, Alive
<1>7. DraftOK(p)'
  <2>1. KeyOf(page[p])' = KeyOf(u)
    BY <1>2 DEF KeyOf
  <2>2. PICK k : k = KeyOf(u)
    OBVIOUS
  <2>3. u.dirty \/ u.shown = "yes" => Covers(u.buffer, Drafted(k))'
    BY <2>2 DEF KeyOf
  <2> QED
    BY <1>2, <1>4, <2>1, <2>2, <2>3 DEF DraftOK, Saving
<1>8. \A k \in Key : drafts'[k] # Nothing => Fits(drafts[k], k)'
  BY Rests
<1>9. \A w \in Typed' : w \in GivenUp' \/ Kept(w)'
  <2>1. \A w \in Typed : w \in GivenUp' \/ Kept(w)'
    BY <1>1, <1>2, KeptStays DEF EditorInv, EditorTypeOK
  <2> QED
    BY <2>1 DEF Typed
<1> QED
  BY <1>2, <1>3, <1>5, <1>6, <1>7, <1>8, <1>9, Proceeds

LEMMA StartNewKeeps ==
  ASSUME EditorInv, Patient, NEW p \in Page, StartNew(p) PROVE EditorInv'
<1>1. EditorTypeOK' /\ EditorTypeOK
  BY SwitchType DEF EditorInv
<1>2. /\ UNCHANGED <<notes, drafts, cache, save, asked, home, overruled>>
      /\ page[p].at = "open" /\ CanSwitch(p)
  BY DEF StartNew
<1>3. /\ ~page[p].dirty /\ asked[p] = {} /\ Alive(p)
      /\ ~Saving(p) /\ ~page[p].saveTimer /\ ~page[p].draftTimer
  BY <1>2, SwitchesWhenDone DEF Alive
<1>4. "new" \in Key /\ drafts["new"] \in Body \cup {Nothing} /\ Stub \in Body
  BY <1>1 DEF EditorTypeOK, Key, Stub, Body
<1>5. PICK text \in Body, dirty \in BOOLEAN :
        /\ page' = [page EXCEPT ![p].note = Nothing, ![p].buffer = text, ![p].dirty = dirty, ![p].shown = "yes"]
        /\ \/ text = drafts["new"] /\ drafts["new"] # Nothing /\ forgone' = forgone
           \/ text = Stub /\ forgone' = forgone \cup Drafted("new")
  BY <1>4 DEF StartNew
<1>6. PICK v \in View : v = page[p]
  BY <1>1 DEF EditorTypeOK
<1>7. PICK u : u = [v EXCEPT !.note = Nothing, !.buffer = text, !.dirty = dirty, !.shown = "yes"]
  OBVIOUS
<1>8. /\ u \in View /\ u.at = v.at /\ u.note = Nothing /\ u.buffer = text /\ u.shown = "yes"
      /\ u.saveTimer = v.saveTimer /\ u.draftTimer = v.draftTimer
  BY <1>7 DEF View
<1>9. page' = [page EXCEPT ![p] = u] /\ page'[p] = u
  BY <1>1, <1>5, <1>6, <1>7 DEF EditorTypeOK
<1>10. forgone \subseteq forgone'
  BY <1>5
<1>11. Onward
  BY <1>2, <1>10, OnwardSame DEF Typed
<1>12. Fits(text, "new")
  <2>1. CASE text = drafts["new"] /\ drafts["new"] # Nothing
    BY <1>4, <2>1 DEF EditorInv
  <2>2. CASE text = Stub
    BY <2>2 DEF Fits, Stub, Word
  <2> QED
    BY <1>5, <2>1, <2>2
<1>13. Texts(p)'
  <2>1. Fits(text, "new")'
    BY <1>11, <1>12, FitsStays
  <2> QED
    BY <1>8, <1>9, <2>1 DEF Texts
<1>14. Covers(text, Drafted("new"))'
  BY <1>2, <1>5 DEF Covers, Drafted, GivenUp
<1>15. Covers(u.buffer, Drafted(KeyOf(u)))'
  <2>1. KeyOf(u) = "new"
    BY <1>8 DEF KeyOf
  <2> QED
    BY <1>8, <1>14, <2>1 DEF KeyOf
<1>16. \A n \in Note : NoteOK(n)'
  BY <1>1, <1>2, <1>11, Rests
<1>17. \A w \in Word, k \in Key : w \in Drafted(k) => Kept(w)'
  BY <1>2 DEF Drafted, Kept
<1>18. \A k \in Key : drafts'[k] \in {drafts[k], Nothing}
  BY <1>2
<1> QED
  BY <1>1, <1>2, <1>3, <1>6, <1>8, <1>9, <1>11, <1>13, <1>15, <1>16, <1>17, <1>18, TextShown

\* getNote's answer is shown, or its draft is; a page that was left shows it too.
LEMMA OpenDoneKeeps ==
  ASSUME EditorInv, NEW p \in Page, NEW n \in Note, OpenDone(p, n) PROVE EditorInv'
<1>1. EditorTypeOK' /\ EditorTypeOK
  BY OpenDoneType DEF EditorInv
<1>2. /\ Alive(p) /\ asked[p] = {n} /\ asked' = [asked EXCEPT ![p] = {}]
      /\ UNCHANGED <<notes, save, home, overruled>>
  BY OpenDoneMakes
<1>3. ~page[p].dirty /\ ~Saving(p) /\ ~page[p].saveTimer /\ ~page[p].draftTimer
  BY <1>2 DEF EditorInv, PageOK, Asks
<1>4. asked'[p] = {} /\ \A q \in Page : q # p => asked'[q] = asked[q]
  BY <1>1, <1>2 DEF EditorTypeOK
<1>5. ASSUME NEW c \in Copy, NEW offline \in BOOLEAN, c.id = n, Faithful(c), Show(p, c, offline),
             cache' \in {cache, [cache EXCEPT ![n] = c]}
      PROVE  EditorInv'
  <2>1. \E u \in View : ShowsAs(p, c, u)
    BY <1>1, <1>5, ShowMakes
  <2>2. PICK u \in View : ShowsAs(p, c, u)
    BY <2>1
  <2>3. /\ page' = [page EXCEPT ![p] = u]
        /\ u.at = page[p].at /\ u.note = c /\ u.shown = "yes"
        /\ u.saveTimer = page[p].saveTimer /\ u.draftTimer = page[p].draftTimer
        /\ \A k \in Key : k # c.id => drafts'[k] = drafts[k]
        /\ forgone \subseteq forgone'
    BY <2>2 DEF ShowsAs
  <2>4. \/ /\ u.buffer = c.body /\ u.dirty = FALSE /\ drafts' = drafts
           /\ drafts[c.id] \in {Nothing, c.body}
        \/ /\ u.buffer = drafts[c.id] /\ u.dirty = TRUE /\ drafts' = drafts
           /\ drafts[c.id] # Nothing /\ \A w \in c.body : w \in u.buffer \/ w \in forgone'
        \/ /\ u.buffer = c.body /\ u.dirty = FALSE /\ drafts'[c.id] = Nothing
           /\ \A w \in Drafted(c.id) : w \in c.body \/ w \in forgone'
    BY <2>2 DEF ShowsAs
  <2>5. c.id \in Note /\ c.id \in Key /\ c # Nothing
    BY <1>5 DEF Key
  <2>6. Onward
    BY <1>2, <2>3, OnwardSame DEF Typed
  <2>7. \A k \in Key : drafts'[k] \in {drafts[k], Nothing}
    BY <2>3, <2>4
  <2>8. page'[p] = u
    BY <1>1, <2>3 DEF EditorTypeOK
  <2>9. /\ notes[c.id] # Nothing /\ c.version <= notes[c.id].version
        /\ c.version = notes[c.id].version => c.body = notes[c.id].body
        /\ Covers(OnServer, c.body) /\ Fits(c.body, c.id)
    BY <1>5 DEF Faithful
  <2>10. Texts(p)'
    <3>1. Fits(u.buffer, c.id)
      <4>1. CASE u.buffer = c.body
        BY <2>9, <4>1
      <4>2. CASE u.buffer = drafts[c.id] /\ drafts[c.id] # Nothing
        BY <2>5, <4>2 DEF EditorInv
      <4> QED
        BY <2>4, <4>1, <4>2
    <3>2. Fits(u.buffer, c.id)'
      BY <2>6, <3>1, FitsStays
    <3>3. \A w \in Word : w \in c.body => w \in u.buffer \/ w \in GivenUp'
      BY <2>4 DEF GivenUp
    <3>4. c.version = notes[c.id].version => Covers(u.buffer, notes[c.id].body)'
      BY <1>2, <2>9, <3>3 DEF Covers
    <3> QED
      BY <1>2, <2>3, <2>5, <2>8, <2>9, <3>2, <3>4 DEF Texts
  <2>11. Covers(u.buffer, Drafted(KeyOf(u)))'
    <3>1. Covers(u.buffer, Drafted(c.id))'
      BY <2>4 DEF Covers, Drafted
    <3>2. KeyOf(u) = c.id
      BY <2>3, <2>5 DEF KeyOf
    <3> QED
      BY <3>1, <3>2 DEF KeyOf
  <2>12. ~u.dirty => u.buffer = u.note.body /\ drafts'[u.note.id] \in {Nothing, u.note.body}
    BY <2>3, <2>4
  <2>13. \A m \in Note : NoteOK(m)'
    <3>1. \A m \in Note : notes'[m] = notes[m] /\ cache'[m] = cache[m] => NoteOK(m)'
      BY <1>1, <2>6, <2>7, Rests
    <3> SUFFICES ASSUME NEW m \in Note, cache'[m] # cache[m] PROVE NoteOK(m)'
      BY <1>2, <3>1
    <3>2. m = c.id /\ cache'[m] = c
      BY <1>1, <1>5 DEF EditorTypeOK
    <3>3. Faithful(c)'
      BY <1>1, <1>5, <2>6, FaithfulStays
    <3>4. Fits(notes[m].body, m)'
      <4>1. Fits(notes[m].body, m)
        BY <2>9, <3>2 DEF EditorInv, NoteOK
      <4> QED
        BY <1>2, <4>1 DEF Fits, Typed
    <3> QED
      BY <1>2, <2>9, <3>2, <3>3, <3>4 DEF NoteOK
  <2>14. \A w \in Word, k \in Key : w \in Drafted(k) => w \in GivenUp' \/ Kept(w)'
    <3> TAKE w \in Word, k \in Key
    <3>1. CASE drafts'[k] = drafts[k]
      BY <3>1 DEF Drafted, Kept
    <3>2. ASSUME w \in c.body PROVE w \in GivenUp' \/ Kept(w)'
      <4>1. w \in OnServer \/ w \in GivenUp
        BY <2>9, <3>2 DEF Covers
      <4> QED
        BY <1>2, <2>3, <4>1 DEF Kept, OnServer, GivenUp
    <3>3. CASE /\ k = c.id
               /\ \A x \in Drafted(c.id) : x \in c.body \/ x \in forgone'
      BY <3>2, <3>3 DEF GivenUp
    <3> QED
      BY <2>3, <2>4, <3>1, <3>3
  <2> QED
    BY <1>1, <1>2, <1>3, <1>4, <2>3, <2>6, <2>7, <2>10, <2>11, <2>12, <2>13, <2>14, TextShown
<1>6. CASE /\ page' = [page EXCEPT ![p].note = Nothing, ![p].offline = TRUE, ![p].shown = "no"]
           /\ UNCHANGED <<drafts, forgone, cache>>
  <2>1. PICK v \in View : v = page[p]
    BY <1>1 DEF EditorTypeOK
  <2>2. PICK u : u = [v EXCEPT !.note = Nothing, !.offline = TRUE, !.shown = "no"]
    OBVIOUS
  <2>3. /\ u \in View /\ u.at = v.at /\ u.note = Nothing /\ u.shown = "no" /\ u.dirty = v.dirty
        /\ u.saveTimer = v.saveTimer /\ u.draftTimer = v.draftTimer
    BY <2>2 DEF View
  <2>4. page' = [page EXCEPT ![p] = u] /\ page'[p] = u
    BY <1>1, <1>6, <2>1, <2>2 DEF EditorTypeOK
  <2>5. Onward
    BY <1>2, <1>6, OnwardSame DEF Typed
  <2>6. Texts(p)'
    BY <1>3, <2>1, <2>3, <2>4 DEF Texts
  <2>7. \A m \in Note : NoteOK(m)'
    BY <1>1, <1>2, <1>6, <2>5, Rests
  <2>8. \A w \in Word, k \in Key : w \in Drafted(k) => Kept(w)'
    BY <1>6 DEF Drafted, Kept
  <2>9. \A k \in Key : drafts'[k] \in {drafts[k], Nothing}
    BY <1>6
  <2>10. ~u.dirty /\ u.shown = "no" /\ ~u.saveTimer /\ ~u.draftTimer /\ u.at = page[p].at
    BY <1>3, <2>1, <2>3
  <2> QED
    BY <1>1, <1>2, <1>3, <1>4, <2>3, <2>4, <2>5, <2>6, <2>7, <2>8, <2>9, <2>10, TextShown
<1>7. \/ \E c \in Copy, offline \in BOOLEAN :
           /\ c.id = n /\ Faithful(c) /\ Show(p, c, offline)
           /\ cache' \in {cache, [cache EXCEPT ![n] = c]}
      \/ /\ page' = [page EXCEPT ![p].note = Nothing, ![p].offline = TRUE, ![p].shown = "no"]
         /\ UNCHANGED <<drafts, forgone, cache>>
  BY OpenDoneMakes
<1> QED
  BY <1>5, <1>6, <1>7

\* The buffer comes back on the screen: it is the note's, or belongs to none.
LEMMA ResumeKeeps == ASSUME EditorInv, NEW p \in Page, Resume(p) PROVE EditorInv'
<1>1. EditorTypeOK' /\ EditorTypeOK
  BY SwitchType DEF EditorInv
<1>2. /\ UNCHANGED <<notes, drafts, cache, save, asked, home, forgone, overruled>>
      /\ page[p].at = "open" /\ page[p].shown = "no"
  BY DEF Resume, history
<1>3. PICK v \in View : v = page[p]
  BY <1>1 DEF EditorTypeOK
<1>4. PICK u : u = [v EXCEPT !.shown = IF v.note = Nothing THEN "stray" ELSE "yes"]
  OBVIOUS
<1>5. /\ u \in View /\ u.at = v.at /\ u.note = v.note /\ u.buffer = v.buffer /\ u.dirty = v.dirty
      /\ u.saveTimer = v.saveTimer /\ u.draftTimer = v.draftTimer
      /\ v.note = Nothing => u.shown = "stray"
  BY <1>4 DEF View
<1>6. page'[p] = u /\ \A q \in Page : q # p => page'[q] = page[q]
  BY <1>1, <1>3, <1>4 DEF Resume, EditorTypeOK
<1>7. Active(p) /\ PageOK(p) /\ DraftOK(p)
  BY <1>2 DEF EditorInv, Active, Alive
<1>8. ~v.dirty /\ (v.note # Nothing => v.buffer = v.note.body /\ drafts[v.note.id] \in {Nothing, v.note.body})
  BY <1>2, <1>3, <1>7 DEF PageOK, Screen, DraftOK
<1>9. Onward
  BY <1>2, OnwardSame DEF Typed
<1>10. SaveOK(p)'
  BY <1>1, <1>2, <1>9, SaveStays DEF EditorInv
<1>11. Texts(p) /\ Asks(p) /\ Expects(p) /\ Alive(p)
  BY <1>2, <1>7 DEF PageOK, Alive
<1>12. ~Awaits(p)
  BY <1>3, <1>8, <1>11 DEF Expects
<1>13. PageOK(p)'
  <2>1. Texts(p)'
    <3>1. CASE v.note = Nothing
      BY <1>5, <1>6, <1>8, <3>1 DEF Texts
    <3>2. CASE v.note # Nothing
      <4>1. PICK n \in Note : n = v.note.id
        BY <3>2 DEF View, Copy
      <4>2. /\ notes[n] # Nothing /\ v.note.version <= notes[n].version
            /\ v.note.version = notes[n].version => Covers(v.buffer, notes[n].body)
            /\ Fits(v.buffer, n)
        BY <1>3, <1>11, <3>2, <4>1 DEF Texts
      <4>3. Fits(v.buffer, n)' /\ (v.note.version = notes[n].version => Covers(v.buffer, notes[n].body)')
        BY <1>2, <1>9, <4>2, FitsStays DEF Covers, GivenUp
      <4> QED
        BY <1>2, <1>5, <1>6, <3>2, <4>1, <4>2, <4>3 DEF Texts
    <3> QED
      BY <3>1, <3>2
  <2>2. Asks(p)'
    BY <1>2, <1>3, <1>5, <1>6, <1>9, <1>11, AsksStay DEF Saving
  <2>3. ~Awaits(p)' /\ Ended(p)' /\ Screen(p)'
    BY <1>2, <1>3, <1>5, <1>6, <1>8, <1>12 DEF Awaits, Ended, Screen, Alive
  <2> QED
    BY <2>1, <2>2, <2>3 DEF PageOK, Expects
<1>14. DraftOK(p)'
  <2>1. u.shown = "yes" => v.note # Nothing
    BY <1>5
  <2>2. u.shown = "yes" => Covers(v.buffer, Drafted(KeyOf(v)))
    BY <1>8, <2>1 DEF Covers, Drafted, KeyOf
  <2>3. PICK k : k = KeyOf(v) /\ k = KeyOf(u)
    BY <1>5 DEF KeyOf
  <2>4. u.shown = "yes" => Covers(u.buffer, Drafted(k))'
    BY <1>2, <1>5, <2>2, <2>3 DEF Covers, Drafted, GivenUp
  <2>5. KeyOf(page[p])' = k
    BY <1>6, <2>3 DEF KeyOf
  <2>6. ~(save'[p].stage = "answered")
    BY <1>2, <1>12 DEF Awaits
  <2> QED
    BY <1>2, <1>5, <1>6, <1>8, <2>4, <2>5, <2>6 DEF DraftOK
<1>15. /\ \A k \in Key : drafts'[k] # Nothing => Fits(drafts[k], k)'
       /\ \A m \in Note : NoteOK(m)'
  BY <1>1, <1>2, <1>9, Rests
<1>16. \A w \in Typed' : w \in GivenUp' \/ Kept(w)'
  <2>1. \A w \in Word, k \in Key : w \in Drafted(k) => w \in GivenUp' \/ Kept(w)'
    BY <1>2 DEF Drafted, Kept
  <2>2. \A w \in Typed : w \in GivenUp' \/ Kept(w)'
    BY <1>1, <1>3, <1>6, <1>8, <1>9, <2>1, KeptStays DEF EditorInv, EditorTypeOK
  <2> QED
    BY <1>2, <2>2 DEF Typed
<1> QED
  BY <1>1, <1>2, <1>6, <1>7, <1>9, <1>10, <1>13, <1>14, <1>15, <1>16, Proceeds

\* A note goes to the trash with nothing unsaved, and its body with it.
LEMMA DeleteKeeps ==
  ASSUME EditorInv, Patient, NEW p \in Page, Delete(p) PROVE EditorInv'
<1>1. EditorTypeOK' /\ EditorTypeOK
  BY DeleteType DEF EditorInv
<1>2. PICK n \in Note, row \in Stored, u \in View :
           /\ page[p].note # Nothing /\ n = page[p].note.id
           /\ notes[n] \in Stored /\ notes' = [notes EXCEPT ![n] = row]
           /\ row.body = notes[n].body /\ row.version = notes[n].version + 1
           /\ page' = [page EXCEPT ![p] = u]
           /\ u.at = page[p].at /\ u.note = Nothing /\ u.shown = "no" /\ u.dirty = page[p].dirty
           /\ u.saveTimer = page[p].saveTimer /\ u.draftTimer = page[p].draftTimer
  BY DeleteMakes
<1>3. /\ page[p].at = "open" /\ CanSwitch(p) /\ asked[p] = {}
      /\ drafts' = [drafts EXCEPT ![n] = Nothing]
      /\ forgone' = forgone \cup ((page[p].buffer \cup Drafted(n)) \ notes[n].body)
      /\ UNCHANGED <<cache, save, asked, home, overruled, troubles>>
  BY <1>2 DEF Delete
<1>4. /\ ~page[p].dirty /\ Alive(p)
      /\ ~Saving(p) /\ ~page[p].saveTimer /\ ~page[p].draftTimer
  BY <1>3, SwitchesWhenDone DEF Alive
<1>5. PICK old \in Stored : old = notes[n]
  BY <1>2
<1>6. old.version \in Nat /\ n \in Key /\ notes[n] # Nothing
  BY <1>5 DEF Stored, Key
<1>7. Onward
  <2>1. old.version < row.version
    BY <1>2, <1>5, <1>6
  <2>2. forgone \subseteq forgone' /\ overruled \subseteq overruled' /\ Typed' = Typed
    BY <1>3 DEF Typed
  <2> QED
    BY <1>1, <1>2, <1>3, <1>5, <2>1, <2>2, OnwardNote
<1>8. Fits(row.body, n)'
  <2>1. Fits(old.body, n)
    BY <1>5, <1>6 DEF EditorInv, NoteOK
  <2> QED
    BY <1>2, <1>5, <1>7, <2>1, FitsStays
<1>9. /\ \A k \in Key : drafts'[k] \in {drafts[k], Nothing}
      /\ \A k \in Key : k # n => drafts'[k] = drafts[k]
  BY <1>1, <1>3, <1>6 DEF EditorTypeOK
<1>10. \A m \in Note : NoteOK(m)'
  BY <1>1, <1>2, <1>3, <1>7, <1>8, <1>9, NoteChanges
<1>11. page'[p] = u
  BY <1>1, <1>2 DEF EditorTypeOK
<1>12. Texts(p)'
  BY <1>2, <1>4, <1>11 DEF Texts
<1>13. \A w \in Word, k \in Key : w \in Drafted(k) => w \in GivenUp' \/ Kept(w)'
  <2> TAKE w \in Word, k \in Key
  <2>1. CASE k # n
    BY <1>9, <2>1 DEF Drafted, Kept
  <2>2. ASSUME w \in old.body PROVE w \in GivenUp' \/ Kept(w)'
    <3>1. w \in OnServer
      BY <1>5, <1>6, <2>2 DEF OnServer
    <3> QED
      BY <1>7, <3>1 DEF Onward, Kept
  <2>3. CASE k = n
    BY <1>3, <1>5, <2>2, <2>3 DEF GivenUp
  <2> QED
    BY <2>1, <2>3
<1>14. ~u.dirty /\ ~u.saveTimer /\ ~u.draftTimer
  BY <1>2, <1>4
<1> QED
  BY <1>1, <1>2, <1>3, <1>4, <1>7, <1>9, <1>10, <1>12, <1>13, <1>14, TextShown

LEMMA RestoreKeeps ==
  ASSUME EditorInv, NEW p \in Page, NEW n \in Note, Restore(p, n) PROVE EditorInv'
<1>1. EditorTypeOK' /\ EditorTypeOK
  BY RestoreType DEF EditorInv
<1>2. PICK row \in Stored :
           /\ notes[n] \in Stored /\ notes' = [notes EXCEPT ![n] = row]
           /\ row.body = notes[n].body /\ row.version = notes[n].version + 1
  BY RestoreMakes
<1>3. /\ page[p].at = "open" /\ page' = [page EXCEPT ![p].offline = FALSE]
      /\ UNCHANGED <<drafts, cache, save, asked, home, forgone, overruled>>
  BY DEF Restore, history
<1>4. PICK old \in Stored : old = notes[n]
  BY <1>2
<1>5. old.version \in Nat /\ notes[n] # Nothing /\ Typed' = Typed
  BY <1>3, <1>4 DEF Stored, Typed
<1>6. Onward
  <2>1. old.version < row.version
    BY <1>2, <1>4, <1>5
  <2> QED
    BY <1>1, <1>2, <1>3, <1>4, <1>5, <2>1, OnwardNote
<1>7. Fits(row.body, n)'
  <2>1. Fits(old.body, n)
    BY <1>4, <1>5 DEF EditorInv, NoteOK
  <2> QED
    BY <1>2, <1>4, <1>6, <2>1, FitsStays
<1>8. \A m \in Note : NoteOK(m)'
  BY <1>1, <1>2, <1>3, <1>6, <1>7, NoteChanges
<1>9. PICK v \in View :
           /\ page' = [page EXCEPT ![p] = v]
           /\ v.at = page[p].at /\ v.note = page[p].note /\ v.shown = page[p].shown
           /\ v.saveTimer = page[p].saveTimer /\ v.draftTimer = page[p].draftTimer
           /\ v.buffer = page[p].buffer /\ v.dirty = page[p].dirty
  BY <1>1, <1>3, OfflineMakes
<1>10. page'[p] = v /\ \A q \in Page : q # p => page'[q] = page[q]
  BY <1>1, <1>9 DEF EditorTypeOK
<1>11. SaveOK(p)' /\ PageOK(p)' /\ DraftOK(p)' /\ (Active(p)' => Active(p))
  BY <1>1, <1>3, <1>6, <1>9, <1>10, SamePage
<1>12. \A k \in Key : drafts'[k] # Nothing => Fits(drafts[k], k)'
  BY <1>1, <1>3, <1>6, Rests
<1>13. \A w \in Typed' : w \in GivenUp' \/ Kept(w)'
  <2>1. \A w \in Word, k \in Key : w \in Drafted(k) => w \in GivenUp' \/ Kept(w)'
    BY <1>3 DEF Drafted, Kept
  <2>2. Alive(p) /\ page[p].draftTimer /\ page[p].dirty =>
            \A w \in Word : w \in page[p].buffer => w \in GivenUp' \/ Kept(w)'
    BY <1>9, <1>10 DEF Kept, Alive
  <2>3. \A w \in Typed : w \in GivenUp' \/ Kept(w)'
    BY <1>1, <1>6, <1>10, <2>1, <2>2, KeptStays DEF EditorInv, EditorTypeOK
  <2> QED
    BY <1>5, <2>3
<1> QED
  BY <1>1, <1>3, <1>6, <1>8, <1>10, <1>11, <1>12, <1>13, Proceeds

\* No page does anything: somebody else writes, or nothing happens.
LEMMA ElsewhereKeeps ==
  ASSUME EditorInv, NEW n \in Note, NEW w \in Word, Elsewhere(n, w) PROVE EditorInv'
<1>1. EditorTypeOK' /\ EditorTypeOK
  BY ElsewhereType DEF EditorInv
<1>2. PICK row \in Stored :
           /\ notes[n] \in Stored /\ notes' = [notes EXCEPT ![n] = row]
           /\ row.body = notes[n].body \cup {w} /\ row.version = notes[n].version + 1
  BY ElsewhereMakes
<1>3. UNCHANGED <<drafts, cache, page, save, asked, forgone, overruled>> /\ Types(w, n) /\ n \in Key
  BY DEF Elsewhere, Key
<1>4. /\ w \notin Typed /\ Typed' = Typed \cup {w} /\ home'[w] = n
      /\ \A x \in Typed : home'[x] = home[x]
  BY <1>1, <1>3, TypesMakes
<1>5. PICK old \in Stored : old = notes[n]
  BY <1>2
<1>6. old.version \in Nat /\ notes[n] # Nothing
  BY <1>5 DEF Stored
<1>7. Onward
  <2>1. old.version < row.version
    BY <1>2, <1>5, <1>6
  <2> QED
    BY <1>1, <1>2, <1>3, <1>4, <1>5, <2>1, OnwardNote
<1>8. Fits(row.body, n)'
  <2>1. Fits(old.body, n)
    BY <1>5, <1>6 DEF EditorInv, NoteOK
  <2>2. Fits(old.body, n)'
    BY <1>7, <2>1, FitsStays
  <2> QED
    BY <1>2, <1>4, <1>5, <2>2 DEF Fits
<1>9. \A m \in Note : NoteOK(m)'
  BY <1>1, <1>2, <1>3, <1>7, <1>8, NoteChanges
<1>10. \A k \in Key : drafts'[k] # Nothing => Fits(drafts[k], k)'
  BY <1>1, <1>3, <1>7, Rests
<1>11. PICK p : p \notin Page
  BY NoSetContainsEverything
<1>12. \A x \in Typed' : x \in GivenUp' \/ Kept(x)'
  <2>1. \A x \in Word, k \in Key : x \in Drafted(k) => x \in GivenUp' \/ Kept(x)'
    BY <1>3 DEF Drafted, Kept
  <2>2. \A x \in Typed : x \in GivenUp' \/ Kept(x)'
    BY <1>1, <1>3, <1>7, <1>11, <2>1, KeptStays DEF EditorInv, EditorTypeOK
  <2>3. notes'[n] = row /\ row # Nothing
    BY <1>1, <1>2 DEF EditorTypeOK
  <2>4. Kept(w)'
    BY <1>2, <2>3 DEF Kept, OnServer
  <2> QED
    BY <1>4, <2>2, <2>4
<1> QED
  BY <1>1, <1>3, <1>7, <1>9, <1>10, <1>11, <1>12, Proceeds

LEMMA StutterKeeps == ASSUME EditorInv, UNCHANGED vars PROVE EditorInv'
<1>1. UNCHANGED <<notes, drafts, cache, page, save, asked, home, forgone, overruled, troubles>>
  BY DEF vars
<1>2. Typed' = Typed
  BY <1>1 DEF Typed
<1>3. EditorTypeOK' /\ EditorTypeOK
  BY <1>1, <1>2 DEF EditorInv, EditorTypeOK
<1>4. Onward
  BY <1>1, <1>2, OnwardSame
<1>5. /\ \A k \in Key : drafts'[k] # Nothing => Fits(drafts[k], k)'
      /\ \A m \in Note : NoteOK(m)'
  BY <1>1, <1>3, <1>4, Rests
<1>6. PICK p : p \notin Page
  BY NoSetContainsEverything
<1>7. \A x \in Typed' : x \in GivenUp' \/ Kept(x)'
  <2>1. \A x : Kept(x) => Kept(x)'
    BY <1>1 DEF Kept, OnServer, Drafted, Alive
  <2> QED
    BY <1>1, <1>2, <2>1 DEF EditorInv, GivenUp
<1> QED
  BY <1>1, <1>3, <1>4, <1>5, <1>6, <1>7, Proceeds

LEMMA InitEditorInv == Init => EditorInv
<1> SUFFICES ASSUME Init PROVE EditorInv
  OBVIOUS
<1>1. EditorTypeOK
  BY InitEditorType
<1>2. /\ \A k \in Key : drafts[k] = Nothing
      /\ \A n \in Note : cache[n] = Nothing
      /\ \A p \in Page : page[p] = Blank /\ save[p] = NoSave /\ asked[p] = {}
  BY DEF Init
<1>3. Blank.at = "none" /\ NoSave.stage = "idle"
  BY DEF Blank, NoSave
<1>4. \A n \in Note : NoteOK(n)
  <2>1. \A n \in Note : notes[n] # Nothing => notes[n].body = Stub
    BY DEF Init
  <2>2. \A n \in Note : n \in Key
    BY DEF Key
  <2>3. \A n \in Note : Fits(Stub, n)
    BY DEF Fits, Stub, Word
  <2> QED
    BY <1>2, <2>1, <2>2, <2>3 DEF NoteOK
<1>5. \A p \in Page : ~Active(p) /\ ~Alive(p) /\ ~Awaits(p)
  BY <1>2, <1>3 DEF Active, Alive, Awaits
<1>6. ASSUME NEW p \in Page PROVE SaveOK(p) /\ PageOK(p) /\ DraftOK(p)
  <2>1. SaveOK(p)
    BY <1>2, <1>3, <1>5 DEF SaveOK
  <2>2. Ended(p) /\ Screen(p)
    BY <1>2, <1>3 DEF Ended, Screen
  <2>3. DraftOK(p)
    BY <1>2, <1>3, <1>5 DEF DraftOK
  <2> QED
    BY <1>5, <2>1, <2>2, <2>3 DEF PageOK
<1>7. Alone
  BY <1>5 DEF Alone
<1>8. \A w \in Typed : FALSE
  BY DEF Init, Typed
<1> QED
  BY <1>1, <1>2, <1>4, <1>6, <1>7, <1>8 DEF EditorInv

LEMMA StepKeepsEditorInv == Patient /\ EditorInv /\ [Next]_vars => EditorInv'
<1> SUFFICES ASSUME Patient, EditorInv, [Next]_vars PROVE EditorInv'
  OBVIOUS
<1>1. ASSUME NEW p \in Page, NEW w \in Word, Type(p, w) \/ Rename(p, w) PROVE EditorInv'
  BY <1>1, TypeKeeps
<1>2. ASSUME NEW p \in Page, DraftTimer(p) \/ SaveTimer(p) \/ SaveNow(p) \/ Hide(p) \/ Kill(p)
      PROVE  EditorInv'
  BY <1>2, TimersKeep, KillKeeps
<1>3. ASSUME NEW p \in Page, ServerSave(p) \/ Lose(p) \/ SaveDone(p) \/ IndexDone(p)
      PROVE  EditorInv'
  BY <1>3, ServerSaveKeeps, LoseKeeps, SaveDoneKeeps, OnlineKeeps
<1>4. ASSUME NEW p \in Page,
             OpenPage(p) \/ StartNew(p) \/ Resume(p) \/ Delete(p) \/ GoOffline(p) \/ GoOnline(p)
      PROVE  EditorInv'
  BY <1>4, OpenPageKeeps, StartNewKeeps, ResumeKeeps, DeleteKeeps, OnlineKeeps
<1>5. ASSUME NEW p \in Page, NEW n \in Note, Open(p, n) \/ OpenDone(p, n) \/ Restore(p, n)
      PROVE  EditorInv'
  BY <1>5, OpenKeeps, OpenDoneKeeps, RestoreKeeps
<1>6. ASSUME NEW n \in Note, NEW w \in Word, Elsewhere(n, w) PROVE EditorInv'
  BY <1>6, ElsewhereKeeps
<1>7. CASE UNCHANGED vars
  BY <1>7, StutterKeeps
<1> QED
  BY <1>1, <1>2, <1>3, <1>4, <1>5, <1>6, <1>7 DEF Next

\* The invariant: of every run in which people wait for "saved".
THEOREM EditorInvariant == Patient /\ Spec => []EditorInv
<1> SUFFICES ASSUME Patient PROVE Spec => []EditorInv
  OBVIOUS
<1>1. Init => EditorInv
  BY InitEditorInv
<1>2. EditorInv /\ [Next]_vars => EditorInv'
  BY StepKeepsEditorInv
<1> QED
  BY <1>1, <1>2, PTL DEF Spec

-----------------------------------------------------------------------------
(* What the editor promises.                                                  *)

\* "Nothing you typed is ever lost": for any number of pages, notes and words,
\* whatever crashes, conflicts, deletions and lost answers there are, a word that
\* nobody gave up is on the server, in a draft, or in a page about to draft it,
\* as long as people wait for "saved" before they go elsewhere.
THEOREM NothingTypedIsLost == Patient /\ Spec => []TypingIsKept
<1>1. EditorInv => TypingIsKept
  BY DEF EditorInv, GivenUp, Kept, OnServer, Drafted, Alive, TypingIsKept
<1> QED
  BY <1>1, EditorInvariant, PTL

\* What is typed into one note is never stored nor drafted as another's.
THEOREM TextsStayInTheirNotes == Patient /\ Spec => []TextStaysInItsNote
<1>1. ASSUME EditorInv PROVE TextStaysInItsNote
  <2>1. Typed \subseteq Word /\ \A n \in Note : n \in Key
    BY <1>1 DEF EditorInv, EditorTypeOK, Key
  <2> QED
    BY <1>1, <2>1 DEF EditorInv, NoteOK, Fits, TextStaysInItsNote
<1> QED
  BY <1>1, EditorInvariant, PTL

\* Without edits the buffer is the note's body, however late an answer comes.
THEOREM BuffersAreTheirNotes == Patient /\ Spec => []BufferIsTheNote
<1>1. EditorInv => BufferIsTheNote
  BY DEF EditorInv, PageOK, Screen, BufferIsTheNote
<1> QED
  BY <1>1, EditorInvariant, PTL

\* Nobody is offered to restore what the note they look at already says.
THEOREM NothingLeftToRestore == Patient /\ Spec => []NothingToRestore
<1>1. EditorInv => NothingToRestore
  BY DEF EditorInv, DraftOK, NothingToRestore
<1> QED
  BY <1>1, EditorInvariant, PTL
=============================================================================
