----------------------------- MODULE NotesIndex -----------------------------
(***************************************************************************)
(* One person's notes in the database (notes/mod.rs) and the names derived *)
(* from their text (notes/index.rs).                                       *)
(*                                                                         *)
(* A request is a transaction under PostgreSQL's READ COMMITTED: it reads  *)
(* what is committed and what it wrote itself, it holds the row of its     *)
(* note from its first statement on, and an insert waits for a transaction *)
(* in flight that has inserted or deleted the same key.  The database      *)
(* breaks a circle of waiting transactions by failing one of them.         *)
(*                                                                         *)
(* A text is what the names depend on: whether it opens with a frontmatter *)
(* block, the slug of its title, and the slugs of its aliases in order and *)
(* without repetition.  A slug is a sequence: <<a, 2>> stands for "a-2".   *)
(***************************************************************************)
EXTENDS Integers, Sequences

CONSTANTS
  Last,         \* the notes are 1 .. Last, in the order they are created
  Server,       \* requests the server works on at a time
  Stem,         \* words that titles are made of
  Unusable,     \* a title without a character a slug may have
  Typed,        \* texts people save
  Legacy,       \* rows of the notes that predate the index
  MaxAttempts,  \* MAX_SLUG_ATTEMPTS
  MaxRequests   \* bound: requests taken

Note == 1 .. Last
Slug == Seq(Stem \cup Nat)
Text == [front : BOOLEAN, title : Slug \cup {Unusable}, aliases : Seq(Slug)]

\* A row of notes; `version` is updated_at, `indexed` is index_version > 0.
NoRow == [state |-> "none"]
Row   == [state : {"live", "deleted"}, title : Slug \cup {Unusable}, text : Text,
          version : Nat, indexed : BOOLEAN]

\* A row of note_names.
Name == [note : Note, slug : Slug, primary : BOOLEAN]

\* A handler, with the row it has written and the names it has inserted, neither
\* committed, and what it has still to claim.
Idle == [stage : {"idle"},
         reply : {"none", "done", "missing", "conflict", "failed", "error"}]
Busy == [stage : {"arrived", "allocate", "primary", "aliases", "commit", "reload", "conflict"},
         kind : {"create", "update", "delete", "restore"}, note : Note, base : Nat,
         text : Text, row : Row \cup {NoRow}, wanted : Slug, attempt : 1 .. MaxAttempts,
         aliases : Seq(Slug), claimed : SUBSET Name]

ASSUME LastAssumption == Last \in Nat
ASSUME AttemptsAssumption == MaxAttempts \in Nat \ {0}
ASSUME RequestsAssumption == MaxRequests \in Nat
ASSUME UnusableAssumption == Unusable \notin Slug
ASSUME TypedAssumption == Typed \subseteq Text
ASSUME LegacyAssumption == Legacy \subseteq {r \in Row : ~r.indexed /\ r.version = 1}

VARIABLES
  notes,        \* the rows of notes, committed
  names,        \* the rows of note_names, committed
  now,          \* the last version written
  taken,        \* requests taken so far
  work,         \* the handlers
  todo,         \* notes the boot has still to reindex
  serving       \* the process accepts requests

vars == <<notes, names, now, taken, work, todo, serving>>

-----------------------------------------------------------------------------
(* Names and texts. *)

fallback_slug(n) == <<n>>

\* The attempt-th name a note may get: its title, then its title numbered.
Candidate(n, title, attempt) ==
  LET base == IF title = Unusable THEN fallback_slug(n) ELSE title
  IN  IF attempt = 1 THEN base ELSE Append(base, attempt)

\* An alias counts if it repeats neither the title nor the first name given.
IsAlias(title, first, s) == s \notin {title, first}

\* Mutant of preserve_old_name: the superseded name is not written down.
forget_old_name(x, old) == x

preserve_old_name(x, old) ==
  IF \E i \in DOMAIN x.aliases : x.aliases[i] = old THEN x
  ELSE [x EXCEPT !.front = TRUE, !.aliases = Append(@, old)]

\* What is stored for what was sent: a rename writes the old name into the text.
Stored(n, x) ==
  LET superseded == {r \in names : /\ r.note = n /\ r.primary
                                   /\ x.title # Unusable /\ x.title # r.slug}
  IN  IF superseded = {} THEN x
      ELSE preserve_old_name(x, (CHOOSE r \in superseded : TRUE).slug)

legacy_frontmatter(row) == [row.text EXCEPT !.front = TRUE, !.title = row.title]

-----------------------------------------------------------------------------
(* What transactions see of each other. *)

InTx(p) == work[p].stage \in {"allocate", "primary", "aliases", "commit"}

\* Mutant of Held: the row is read without FOR UPDATE.
HeldNever(n) == FALSE

\* FOR UPDATE, and every UPDATE, waits for the transaction that holds the row.
Held(n) == \E q \in Server : InTx(q) /\ work[q].note = n

\* owner_of: a handler has cleared its own note's names.
Owned(n, s) == \E r \in names : r.slug = s /\ r.note # n

\* p is about to insert the key s.
Inserts(p, s) ==
  \/ work[p].stage = "primary" /\ s = work[p].wanted
  \/ /\ work[p].stage = "aliases" /\ work[p].aliases # <<>> /\ s = Head(work[p].aliases)
     /\ IsAlias(work[p].row.title, work[p].wanted, s)

\* q has inserted or deleted the key p is about to insert.
Blocks(q, p) ==
  /\ q # p /\ InTx(q)
  /\ \E r \in work[q].claimed \cup {r \in names : r.note = work[q].note} : Inserts(p, r.slug)

Blocked(p) == \E q \in Server : Blocks(q, p)

Deadlocked(p) ==
  \E circle \in SUBSET Server :
    /\ p \in circle
    /\ \A d \in circle : \E e, f \in circle : Blocks(e, d) /\ Blocks(d, f)

-----------------------------------------------------------------------------
(* The handlers. *)

Handler(stage, kind, n, x, base) ==
  [stage |-> stage, kind |-> kind, note |-> n, text |-> x, base |-> base, row |-> NoRow,
   wanted |-> <<>>, attempt |-> 1, aliases |-> <<>>, claimed |-> {}]
Answer(p, reply) == work' = [work EXCEPT ![p] = [stage |-> "idle", reply |-> reply]]

\* A page sends the version it has just read; a script may send none, 0.  The
\* id of a new note is one that no row has.
Arrive(p) ==
  /\ serving /\ work[p].stage = "idle" /\ taken < MaxRequests
  /\ \E kind \in {"create", "update", "delete", "restore"}, n \in Note, x \in Typed,
        blind \in BOOLEAN :
       /\ IF kind = "create"
          THEN notes[n] = NoRow /\ \A q \in Server : work[q].stage # "idle" => work[q].note # n
          ELSE notes[n] # NoRow
       /\ kind # "update" => blind
       /\ kind \in {"delete", "restore"} => x = CHOOSE y \in Typed : TRUE
       /\ work' = [work EXCEPT ![p] = Handler("arrived", kind, n, x,
                                               IF blind THEN 0 ELSE notes[n].version)]
  /\ taken' = taken + 1
  /\ UNCHANGED <<notes, names, now, todo, serving>>

\* Mutant of Written: the body that was sent is stored, not the rewritten one.
WrittenAsSent(p, x) ==
  [state |-> "live", title |-> x.title, text |-> work[p].text, version |-> now + 1,
   indexed |-> TRUE]

\* The row written for a text that reads x by now.
Written(p, x) ==
  [state |-> "live", title |-> x.title, text |-> x, version |-> now + 1, indexed |-> TRUE]

\* The statements up to the names: the row is written and the names cleared.
Write(p, x) ==
  /\ now' = now + 1
  /\ work' = [work EXCEPT ![p].stage = "allocate", ![p].row = Written(p, x),
                          ![p].wanted = Candidate(work[p].note, x.title, 1),
                          ![p].aliases = x.aliases]

CreateNote(p) == work[p].kind = "create" /\ Write(p, work[p].text)

Stale(p) == work[p].base # 0 /\ work[p].base # notes[work[p].note].version

UpdateNote(p) ==
  LET n == work[p].note
  IN  /\ work[p].kind = "update" /\ ~Held(n)
      /\ \/ notes[n].state # "live" /\ Answer(p, "missing") /\ UNCHANGED now
         \/ /\ notes[n].state = "live" /\ Stale(p)
            /\ work' = [work EXCEPT ![p].stage = "conflict"] /\ UNCHANGED now
         \/ notes[n].state = "live" /\ ~Stale(p) /\ Write(p, Stored(n, work[p].text))

DeleteNote(p) ==
  LET n == work[p].note
  IN  /\ work[p].kind = "delete" /\ ~Held(n)
      /\ \/ notes[n].state # "live" /\ Answer(p, "missing") /\ UNCHANGED now
         \/ /\ notes[n].state = "live"
            /\ now' = now + 1
            /\ work' = [work EXCEPT ![p].stage = "commit",
                 ![p].row = [notes[n] EXCEPT !.state = "deleted", !.version = now + 1]]

RestoreNote(p) ==
  LET n == work[p].note
  IN  /\ work[p].kind = "restore" /\ ~Held(n)
      /\ \/ notes[n].state # "deleted" /\ Answer(p, "missing") /\ UNCHANGED now
         \/ notes[n].state = "deleted" /\ Write(p, notes[n].text)

Begin(p) ==
  /\ work[p].stage = "arrived"
  /\ CreateNote(p) \/ UpdateNote(p) \/ DeleteNote(p) \/ RestoreNote(p)
  /\ UNCHANGED <<notes, names, taken, todo, serving>>

-----------------------------------------------------------------------------
(* sync_index, statement by statement. *)

\* Mutant of Allocate: a taken name is tried again instead of numbered.
AllocateAgain(p) ==
  /\ work[p].stage = "allocate" /\ ~Owned(work[p].note, work[p].wanted)
  /\ work' = [work EXCEPT ![p].stage = "primary"]
  /\ UNCHANGED <<notes, names, now, taken, todo, serving>>

Allocate(p) ==
  LET n == work[p].note  k == work[p].attempt
  IN  /\ work[p].stage = "allocate"
      /\ \/ /\ ~Owned(n, work[p].wanted)
            /\ work' = [work EXCEPT ![p].stage = "primary"]
         \/ /\ Owned(n, work[p].wanted) /\ k < MaxAttempts
            /\ work' = [work EXCEPT ![p].attempt = k + 1,
                                    ![p].wanted = Candidate(n, work[p].row.title, k + 1)]
         \/ /\ Owned(n, work[p].wanted) /\ k = MaxAttempts
            /\ work' = [work EXCEPT ![p].stage = "primary", ![p].wanted = fallback_slug(n)]
      /\ UNCHANGED <<notes, names, now, taken, todo, serving>>

\* Nothing resolves a collision here: the transaction fails with it.
InsertPrimary(p) ==
  LET n == work[p].note  s == work[p].wanted
  IN  /\ work[p].stage = "primary" /\ ~Blocked(p)
      /\ \/ Owned(n, s) /\ Answer(p, "failed")
         \/ /\ ~Owned(n, s)
            /\ work' = [work EXCEPT ![p].stage = "aliases",
                 ![p].claimed = {[note |-> n, slug |-> s, primary |-> TRUE]}]
      /\ UNCHANGED <<notes, names, now, taken, todo, serving>>

\* An alias that another note owns is dropped.
InsertAlias(p) ==
  LET n == work[p].note  s == Head(work[p].aliases)
  IN  /\ work[p].stage = "aliases" /\ work[p].aliases # <<>> /\ ~Blocked(p)
      /\ work' = [work EXCEPT ![p].aliases = Tail(@),
           ![p].claimed = IF Inserts(p, s) /\ ~Owned(n, s)
                          THEN @ \cup {[note |-> n, slug |-> s, primary |-> FALSE]} ELSE @]
      /\ UNCHANGED <<notes, names, now, taken, todo, serving>>

\* Mutant of Renamed: deleting a note keeps its names.
RenamedIfAny(n, claimed) ==
  IF claimed = {} THEN names ELSE {r \in names : r.note # n} \cup claimed

\* What a transaction makes of the names.
Renamed(n, claimed) == {r \in names : r.note # n} \cup claimed

Commit(p) ==
  LET n == work[p].note
  IN  /\ \/ work[p].stage = "commit"
         \/ work[p].stage = "aliases" /\ work[p].aliases = <<>>
      /\ notes' = [notes EXCEPT ![n] = work[p].row]
      /\ names' = Renamed(n, work[p].claimed)
      /\ IF work[p].kind = "delete" THEN Answer(p, "done")
         ELSE work' = [work EXCEPT ![p] =
                Handler("reload", work[p].kind, n, work[p].row.text, work[p].base)]
      /\ UNCHANGED <<now, taken, todo, serving>>

\* load_full comes after the transaction, and does not find a deleted note.
Reload(p) ==
  LET found == notes[work[p].note].state = "live"
  IN  /\ \/ /\ work[p].stage = "reload"
            /\ Answer(p, IF found THEN "done"
                         ELSE IF work[p].kind = "update" THEN "missing" ELSE "error")
         \/ /\ work[p].stage = "conflict"
            /\ Answer(p, IF found THEN "conflict" ELSE "error")
      /\ UNCHANGED <<notes, names, now, taken, todo, serving>>

Cancel(p) ==
  /\ Deadlocked(p) /\ Answer(p, "failed")
  /\ UNCHANGED <<notes, names, now, taken, todo, serving>>

-----------------------------------------------------------------------------
(* Crashes, and reindex_all, which runs alone before requests are accepted. *)

Outdated == {n \in Note : notes[n].state = "live" /\ ~notes[n].indexed}

Crash ==
  /\ serving /\ serving' = FALSE
  /\ todo' = Outdated
  /\ work' = [p \in Server |-> [stage |-> "idle", reply |-> "none"]]
  /\ UNCHANGED <<notes, names, now, taken>>

\* The text a note is reindexed by: a note of the old schema without frontmatter
\* gets a block with the title it had.
Reindexed(row) == IF row.text.front THEN row.text ELSE legacy_frontmatter(row)

\* s is the name it gets, with nothing in flight.
FirstFree(n, title, s) ==
  \/ \E k \in 1 .. MaxAttempts :
       /\ s = Candidate(n, title, k) /\ ~Owned(n, s)
       /\ \A j \in 1 .. k - 1 : Owned(n, Candidate(n, title, j))
  \/ /\ s = fallback_slug(n)
     /\ \A k \in 1 .. MaxAttempts : Owned(n, Candidate(n, title, k))

\* A note is reindexed in a transaction of its own; one that fails is left for
\* the next boot.
ReindexNote(n) ==
  LET x == Reindexed(notes[n])
      Given(s) == {a \in {x.aliases[i] : i \in DOMAIN x.aliases} :
                     IsAlias(x.title, s, a) /\ ~Owned(n, a)}
  IN  /\ todo' = todo \ {n}
      /\ \/ UNCHANGED <<notes, names>>
         \/ \E s \in {Candidate(n, x.title, k) : k \in 1 .. MaxAttempts} \cup {fallback_slug(n)} :
              /\ FirstFree(n, x.title, s) /\ ~Owned(n, s)
              /\ notes' = [notes EXCEPT ![n].title = x.title, ![n].text = x, ![n].indexed = TRUE]
              /\ names' = Renamed(n, {[note |-> n, slug |-> s, primary |-> TRUE]} \cup
                   {[note |-> n, slug |-> a, primary |-> FALSE] : a \in Given(s)})

ReindexAll ==
  /\ ~serving
  /\ \/ \E n \in todo : (\A m \in todo : n <= m) /\ ReindexNote(n) /\ UNCHANGED serving
     \/ serving' = TRUE /\ todo' = {} /\ UNCHANGED <<notes, names>>
  /\ UNCHANGED <<now, taken, work>>

-----------------------------------------------------------------------------

\* The first boot after the migration to names.
Init ==
  /\ notes \in [Note -> Legacy \cup {NoRow}]
  /\ names = {} /\ now = 1 /\ taken = 0
  /\ work = [p \in Server |-> [stage |-> "idle", reply |-> "none"]]
  /\ serving = FALSE /\ todo = Outdated

Handle(p) ==
  \/ Begin(p) \/ Allocate(p) \/ InsertPrimary(p) \/ InsertAlias(p)
  \/ Commit(p) \/ Reload(p) \/ Cancel(p)

Next ==
  \/ \E p \in Server : Arrive(p) \/ Handle(p)
  \/ Crash \/ ReindexAll

Spec == Init /\ [][Next]_vars

\* A handler that can go on does, and so does the boot.
Fairness == (\A p \in Server : WF_vars(Handle(p))) /\ WF_vars(ReindexAll)
FairSpec == Spec /\ Fairness

-----------------------------------------------------------------------------
(* What must hold. *)

TypeOK ==
  /\ notes \in [Note -> Row \cup {NoRow}]
  /\ names \subseteq Name
  /\ now \in Nat /\ taken \in Nat
  /\ work \in [Server -> Idle \cup Busy]
  /\ todo \subseteq Note
  /\ serving \in BOOLEAN

\* "A note must always end up with exactly one primary name": every live note
\* that has been indexed has one, no other note has any name, and a name leads
\* to one note (allocate_primary, sync_index, delete_note).
NamesAreSound ==
  /\ \A n \in Note :
       LET own == {r \in names : r.note = n}
       IN  IF notes[n].state = "live" /\ notes[n].indexed
           THEN \E r \in own : r.primary /\ \A q \in own : q.primary => q = r
           ELSE own = {}
  /\ \A q, r \in names : q.slug = r.slug => q = r

\* "The frontmatter block shows everything": the names of a note can be read off
\* its stored text, whatever its handlers, a crash or the reindexer went through.
NamesComeFromTheText ==
  \A r \in names :
    LET x == notes[r.note].text
    IN  IF r.primary
        THEN \/ r.slug = fallback_slug(r.note)
             \/ \E k \in 1 .. MaxAttempts : r.slug = Candidate(r.note, x.title, k)
        ELSE \E i \in DOMAIN x.aliases : x.aliases[i] = r.slug

\* "A rename keeps the old name working": no save of a live note under a usable
\* title, and no boot, takes the note's first name away from it.
OldNamesKeepWorking ==
  [][\A r \in names :
       /\ r.primary /\ notes[r.note].state = "live"
       /\ notes'[r.note].state = "live" /\ notes'[r.note].title # Unusable
       => \E s \in names' : s.note = r.note /\ s.slug = r.slug]_vars

\* A save that names the version it was made from replaces that version and no
\* later one, however the handlers interleave (update_note, FOR UPDATE).
NoLostUpdate ==
  [][\A p \in Server :
       /\ work[p].stage \in {"aliases", "commit"} /\ work'[p].stage = "reload"
       /\ work[p].kind = "update" /\ work[p].base # 0
       => work[p].base = notes[work[p].note].version]_vars

\* Handlers waiting for one another's names do not wait for ever.
EveryRequestEnds ==
  \A p \in Server : work[p].stage # "idle" ~> work[p].stage = "idle"

\* "An index problem never blocks a save" (notes/mod.rs).
SavesAreNotBlocked ==
  \A p \in Server : work[p].stage = "idle" => work[p].reply # "failed"
=============================================================================
