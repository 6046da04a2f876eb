-------------------------- MODULE NotesIndexProofs --------------------------
(***************************************************************************)
(* Theorems about the names of notes, for any number of notes, handlers,   *)
(* words, attempts and requests, and for every text and every row the old  *)
(* schema may have left.                                                   *)
(*                                                                         *)
(* Committed names are sound because of what holds of the transactions in  *)
(* flight: each has a note and slugs of its own (Apart), and each has      *)
(* claimed names that are free, that its text shows, and that include, or  *)
(* will include, the name its note had (InFlight).                         *)
(***************************************************************************)
EXTENDS NotesIndex, TLAPS

USE LastAssumption, AttemptsAssumption, RequestsAssumption, UnusableAssumption,
    TypedAssumption, LegacyAssumption

In(s, list) == \E i \in DOMAIN list : list[i] = s

Newborn(p) == work[p].stage # "idle" /\ work[p].kind = "create"
              /\ work[p].stage \notin {"reload", "conflict"}

(* The inductive invariant. *)

\* The boot runs alone, and what it has still to do is not indexed.
Boot ==
  /\ serving => todo = {}
  /\ ~serving => \A p \in Server : work[p].stage = "idle"
  /\ \A n \in todo : notes[n].state = "live" /\ ~notes[n].indexed

\* The row a transaction will commit.
RowGood(p) ==
  LET w == work[p]
  IN  /\ w.row \in Row
      /\ w.kind = "update" /\ w.base # 0 => w.base = notes[w.note].version
      /\ w.stage = "commit" => w.row.state = "deleted" /\ w.claimed = {} /\ w.kind = "delete"
      /\ w.stage # "commit" => /\ w.row.state = "live" /\ w.row.indexed
                               /\ w.row.title = w.row.text.title

\* The names it will commit.
ClaimGood(p) ==
  LET w == work[p]
  IN  /\ \/ w.wanted = fallback_slug(w.note)
         \/ \E k \in 1 .. MaxAttempts : w.wanted = Candidate(w.note, w.row.title, k)
      /\ \A i \in DOMAIN w.aliases : In(w.aliases[i], w.row.text.aliases)
      /\ w.stage # "aliases" => w.claimed = {}
      /\ w.stage = "aliases" => [note |-> w.note, slug |-> w.wanted, primary |-> TRUE] \in w.claimed
      /\ \A c \in w.claimed :
           /\ c.note = w.note
           /\ c.primary => c.slug = w.wanted
           /\ ~c.primary => c.slug # w.wanted /\ In(c.slug, w.row.text.aliases)
           /\ \A r \in names : r.slug = c.slug => r.note = w.note

\* The name its note had is among those it has claimed or will claim.
OldGood(p) ==
  LET w == work[p]
  IN  \A r \in names :
        r.primary /\ r.note = w.note /\ notes[w.note].state = "live" /\ w.row.title # Unusable =>
          \/ r.slug = w.wanted
          \/ r.slug # w.row.title /\ (In(r.slug, w.aliases) \/ \E c \in w.claimed : c.slug = r.slug)

InFlight(p) ==
  /\ work[p].stage = "arrived" => work[p].claimed = {}
  /\ Newborn(p) => notes[work[p].note] = NoRow
  /\ InTx(p) => RowGood(p)
  /\ InTx(p) /\ work[p].stage # "commit" => ClaimGood(p) /\ OldGood(p)

\* Two handlers: a note being created is nobody else's, and transactions share
\* neither a note nor a slug.
Apart(p, q) ==
  /\ Newborn(p) /\ work[q].stage # "idle" => work[p].note # work[q].note
  /\ InTx(p) /\ InTx(q) =>
       /\ work[p].note # work[q].note
       /\ \A c \in work[p].claimed, d \in work[q].claimed : c.slug # d.slug

Inductive ==
  /\ TypeOK /\ NamesAreSound /\ NamesComeFromTheText
  /\ Boot
  /\ \A p \in Server : InFlight(p)
  /\ \A p, q \in Server : p # q => Apart(p, q)

-----------------------------------------------------------------------------
(* Operators. *)

LEMMA InAppend ==
  ASSUME NEW S, NEW list \in Seq(S), NEW e \in S, NEW s
  PROVE  In(s, Append(list, e)) <=> In(s, list) \/ s = e
BY DEF In

LEMMA InTail ==
  ASSUME NEW S, NEW list \in Seq(S), list # <<>>
  PROVE  /\ Head(list) \in S /\ Tail(list) \in Seq(S)
         /\ \A s : In(s, list) <=> s = Head(list) \/ In(s, Tail(list))
<1>1. Len(list) \in Nat /\ Len(list) > 0 /\ DOMAIN list = 1 .. Len(list)
  BY DEF In
<1>2. Tail(list) \in Seq(S) /\ Len(Tail(list)) = Len(list) - 1 /\ Head(list) = list[1]
  BY <1>1
<1>3. \A i \in 1 .. Len(list) - 1 : Tail(list)[i] = list[i + 1]
  BY <1>1
<1>4. ASSUME NEW s, In(s, list), s # Head(list) PROVE In(s, Tail(list))
  <2>1. PICK i \in 1 .. Len(list) : list[i] = s BY <1>1, <1>4 DEF In
  <2>2. i # 1 BY <2>1, <1>2, <1>4
  <2>3. i - 1 \in 1 .. Len(list) - 1 /\ list[i - 1 + 1] = s BY <2>1, <2>2, <1>1
  <2>4. Tail(list)[i - 1] = s BY <2>3, <1>3
  <2>5. i - 1 \in DOMAIN Tail(list) BY <2>3, <1>1, <1>2
  <2>. QED BY <2>4, <2>5 DEF In
<1>5. ASSUME NEW s, In(s, Tail(list)) PROVE In(s, list)
  <2>1. PICK i \in 1 .. Len(list) - 1 : Tail(list)[i] = s BY <1>2, <1>5 DEF In
  <2>2. list[i + 1] = s /\ i + 1 \in 1 .. Len(list) BY <2>1, <1>1, <1>3
  <2>. QED BY <2>2, <1>1 DEF In
<1>6. In(Head(list), list) BY <1>1, <1>2 DEF In
<1>. QED BY <1>1, <1>2, <1>4, <1>5, <1>6

LEMMA CandidateType ==
  ASSUME NEW n \in Note, NEW title \in Slug \cup {Unusable}, NEW k \in Nat
  PROVE  fallback_slug(n) \in Slug /\ Candidate(n, title, k) \in Slug
<1>1. n \in Nat /\ <<n>> \in Seq(Stem \cup Nat) BY DEF Note
<1>2. fallback_slug(n) \in Slug BY <1>1 DEF fallback_slug, Slug
<1>. QED BY <1>2 DEF Candidate, Slug

LEMMA BusyType ==
  ASSUME TypeOK, NEW p \in Server, work[p].stage # "idle"
  PROVE  work[p] \in Busy
BY DEF TypeOK, Idle

\* A note has one first name.
LEMMA OnePrimary ==
  ASSUME TypeOK, NamesAreSound, NEW q \in names, NEW r \in names,
         q.note = r.note, q.primary, r.primary
  PROVE  q = r
<1>1. r.note \in Note BY DEF TypeOK, Name
<1>. QED BY <1>1 DEF NamesAreSound

\* What a save stores: its title, and the name the note had if the title lost it.
LEMMA StoredKeepsOldName ==
  ASSUME TypeOK, NamesAreSound, NEW n \in Note, NEW x \in Text
  PROVE  /\ Stored(n, x) \in Text /\ Stored(n, x).title = x.title
         /\ \A r \in names : r.primary /\ r.note = n /\ x.title # Unusable =>
              r.slug = x.title \/ In(r.slug, Stored(n, x).aliases)
<1>. DEFINE superseded == {r \in names : /\ r.note = n /\ r.primary
                                         /\ x.title # Unusable /\ x.title # r.slug}
<1>1. CASE superseded = {}
  <2>1. Stored(n, x) = x BY <1>1 DEF Stored
  <2>. QED BY <1>1, <2>1
<1>2. ASSUME NEW r \in superseded
      PROVE  /\ Stored(n, x) = preserve_old_name(x, r.slug)
             /\ r.slug \in Slug
  <2>1. \A q \in superseded : q = r BY <1>2, OnePrimary
  <2>2. (CHOOSE q \in superseded : TRUE) = r BY <1>2, <2>1
  <2>3. Stored(n, x) = preserve_old_name(x, r.slug) BY <1>2, <2>2 DEF Stored
  <2>. QED BY <1>2, <2>3 DEF TypeOK, Name
<1>3. ASSUME NEW r \in superseded
      PROVE  /\ preserve_old_name(x, r.slug) \in Text
             /\ preserve_old_name(x, r.slug).title = x.title
             /\ In(r.slug, preserve_old_name(x, r.slug).aliases)
  <2>1. CASE \E i \in DOMAIN x.aliases : x.aliases[i] = r.slug
    BY <2>1 DEF preserve_old_name, In
  <2>2. CASE ~\E i \in DOMAIN x.aliases : x.aliases[i] = r.slug
    <3>1. x.aliases \in Seq(Slug) /\ r.slug \in Slug BY <1>2, <1>3 DEF Text
    <3>2. Append(x.aliases, r.slug) \in Seq(Slug) BY <3>1
    <3>3. preserve_old_name(x, r.slug) =
            [x EXCEPT !.front = TRUE, !.aliases = Append(x.aliases, r.slug)]
      BY <2>2 DEF preserve_old_name
    <3>4. In(r.slug, Append(x.aliases, r.slug)) BY <3>1, InAppend
    <3>. QED BY <3>2, <3>3, <3>4 DEF Text
  <2>. QED BY <2>1, <2>2
<1>4. CASE superseded # {}
  <2>1. PICK r \in superseded : TRUE BY <1>4
  <2>2. \A q \in names : q.primary /\ q.note = n /\ q.slug # x.title => q = r
    BY <2>1, OnePrimary
  <2>. QED BY <2>1, <2>2, <1>2, <1>3
<1>. QED BY <1>1, <1>4

-----------------------------------------------------------------------------
(* Steps that change one handler and commit nothing. *)

LEMMA LocalStep ==
  ASSUME Inductive, NEW p \in Server, work[p].stage # "idle",
         UNCHANGED <<notes, names, todo, serving>>, now' \in Nat, taken' \in Nat,
         work' \in [Server -> Idle \cup Busy],
         \A q \in Server \ {p} : work'[q] = work[q],
         InFlight(p)',
         \A q \in Server \ {p} : Apart(p, q)' /\ Apart(q, p)'
  PROVE  Inductive'
<1>1. TypeOK' /\ NamesAreSound' /\ NamesComeFromTheText'
  BY DEF Inductive, TypeOK, NamesAreSound, NamesComeFromTheText
<1>2. Boot' BY DEF Inductive, Boot
<1>3. ASSUME NEW q \in Server PROVE InFlight(q)'
  <2>1. CASE q = p BY <2>1
  <2>2. CASE q # p
    <3>1. InFlight(q) /\ work'[q] = work[q] BY <2>2 DEF Inductive
    <3>. QED BY <3>1 DEF InFlight, Newborn, InTx, RowGood, ClaimGood, OldGood
  <2>. QED BY <2>1, <2>2
<1>4. ASSUME NEW q \in Server, NEW r \in Server, q # r PROVE Apart(q, r)'
  <2>1. CASE q = p BY <2>1, <1>4
  <2>2. CASE r = p BY <2>2, <1>4
  <2>3. CASE q # p /\ r # p
    <3>1. Apart(q, r) /\ work'[q] = work[q] /\ work'[r] = work[r]
      BY <2>3, <1>4 DEF Inductive
    <3>. QED BY <3>1 DEF Apart, Newborn, InTx
  <2>. QED BY <2>1, <2>2, <2>3
<1>. QED BY <1>1, <1>2, <1>3, <1>4 DEF Inductive

\* It answers.
LEMMA AnswerStep ==
  ASSUME Inductive, NEW p \in Server, work[p].stage # "idle",
         UNCHANGED <<notes, names, todo, serving>>, now' \in Nat, taken' \in Nat,
         NEW reply \in {"done", "missing", "conflict", "failed", "error"}, Answer(p, reply)
  PROVE  Inductive'
<1>1. /\ work' \in [Server -> Idle \cup Busy]
      /\ work'[p].stage = "idle" /\ \A q \in Server \ {p} : work'[q] = work[q]
  BY DEF Inductive, TypeOK, Answer, Idle
<1>2. InFlight(p)' BY <1>1 DEF InFlight, Newborn, InTx
<1>3. ASSUME NEW q \in Server \ {p} PROVE Apart(p, q)' /\ Apart(q, p)'
  BY <1>1 DEF Apart, Newborn, InTx
<1>. QED BY <1>1, <1>2, <1>3, LocalStep

\* It goes on with what it has.
LEMMA OwnStep ==
  ASSUME Inductive, NEW p \in Server, work[p].stage # "idle",
         UNCHANGED <<notes, names, todo, serving>>, now' \in Nat, taken' \in Nat,
         work' \in [Server -> Idle \cup Busy],
         \A q \in Server \ {p} : work'[q] = work[q],
         work'[p].note = work[p].note,
         Newborn(p)' => Newborn(p),
         InTx(p)' => InTx(p) /\ work'[p].claimed = work[p].claimed,
         InFlight(p)'
  PROVE  Inductive'
<1>1. ASSUME NEW q \in Server \ {p} PROVE Apart(p, q)' /\ Apart(q, p)'
  <2>1. Apart(p, q) /\ Apart(q, p) BY DEF Inductive
  <2>2. work'[q] = work[q] OBVIOUS
  <2>3. Apart(p, q)' BY <2>1, <2>2 DEF Apart, Newborn, InTx
  <2>4. Apart(q, p)' BY <2>1, <2>2 DEF Apart, Newborn, InTx
  <2>. QED BY <2>3, <2>4
<1>. QED BY <1>1, LocalStep

\* A handler at work: its record, and that the process is up.
LEMMA AtWork ==
  ASSUME Inductive, NEW p \in Server, work[p].stage # "idle"
  PROVE  /\ work[p] \in Busy /\ work[p].note \in Note
         /\ serving /\ todo = {}
BY BusyType DEF Inductive, Boot, Busy, TypeOK

LEMMA ReloadStep ==
  ASSUME Inductive, NEW p \in Server, Reload(p)
  PROVE  Inductive'
<1>1. work[p].stage # "idle" /\ UNCHANGED <<notes, names, now, taken, todo, serving>>
  BY DEF Reload
<1>2. now' \in Nat /\ taken' \in Nat BY <1>1 DEF Inductive, TypeOK
<1>3. \E reply \in {"done", "missing", "conflict", "failed", "error"} : Answer(p, reply)
  BY DEF Reload
<1>. QED BY <1>1, <1>2, <1>3, AnswerStep

LEMMA CancelStep ==
  ASSUME Inductive, NEW p \in Server, Cancel(p)
  PROVE  Inductive'
<1>1. work[p].stage # "idle" BY DEF Cancel, Deadlocked, Blocks, Inserts
<1>2. now' \in Nat /\ taken' \in Nat BY DEF Cancel, Inductive, TypeOK
<1>. QED BY <1>1, <1>2, AnswerStep DEF Cancel

LEMMA ArriveStep ==
  ASSUME Inductive, NEW p \in Server, Arrive(p)
  PROVE  Inductive'
<1>1. PICK kind \in {"create", "update", "delete", "restore"}, n \in Note, x \in Typed,
           blind \in BOOLEAN :
        /\ IF kind = "create"
           THEN notes[n] = NoRow /\ \A q \in Server : work[q].stage # "idle" => work[q].note # n
           ELSE notes[n] # NoRow
        /\ kind # "update" => blind
        /\ work' = [work EXCEPT ![p] = Handler("arrived", kind, n, x,
                                                IF blind THEN 0 ELSE notes[n].version)]
  BY DEF Arrive
<1>2. /\ serving /\ work[p].stage = "idle"
      /\ UNCHANGED <<notes, names, now, todo, serving>> /\ taken' \in Nat
  BY DEF Arrive, Inductive, TypeOK
<1>. DEFINE base == IF blind THEN 0 ELSE notes[n].version
<1>3. base \in Nat BY <1>1 DEF Inductive, TypeOK, Row
<1>4. Handler("arrived", kind, n, x, base) \in Busy
  <2>1. <<>> \in Slug /\ <<>> \in Seq(Slug) BY DEF Slug
  <2>2. x \in Text /\ 1 \in 1 .. MaxAttempts OBVIOUS
  <2>. QED BY <1>3, <2>1, <2>2 DEF Handler, Busy
<1>. HIDE DEF base
<1>5. /\ work' \in [Server -> Idle \cup Busy]
      /\ work'[p] = Handler("arrived", kind, n, x, base)
      /\ \A q \in Server \ {p} : work'[q] = work[q]
  BY <1>1, <1>4 DEF Inductive, TypeOK, base
<1>6. work'[p].stage = "arrived" /\ work'[p].note = n /\ work'[p].kind = kind
  BY <1>5 DEF Handler
<1>10. work'[p].claimed = {} BY <1>5 DEF Handler
<1>7. TypeOK' /\ NamesAreSound' /\ NamesComeFromTheText' /\ Boot'
  BY <1>2, <1>5 DEF Inductive, TypeOK, NamesAreSound, NamesComeFromTheText, Boot
<1>8. ASSUME NEW q \in Server PROVE InFlight(q)'
  <2>1. CASE q = p BY <2>1, <1>1, <1>2, <1>6, <1>10 DEF InFlight, Newborn, InTx
  <2>2. CASE q # p
    <3>1. InFlight(q) /\ work'[q] = work[q] BY <2>2, <1>5 DEF Inductive
    <3>. QED BY <3>1, <1>2 DEF InFlight, Newborn, InTx, RowGood, ClaimGood, OldGood
  <2>. QED BY <2>1, <2>2
<1>9. ASSUME NEW q \in Server, NEW r \in Server, q # r PROVE Apart(q, r)'
  <2>1. CASE q = p
    <3>1. work'[r] = work[r] BY <2>1, <1>5, <1>9
    <3>. QED BY <2>1, <3>1, <1>1, <1>6 DEF Apart, Newborn, InTx
  <2>2. CASE r = p
    <3>1. work'[q] = work[q] /\ InFlight(q) BY <2>2, <1>5, <1>9 DEF Inductive
    <3>. QED BY <2>2, <3>1, <1>1, <1>6 DEF Apart, Newborn, InTx, InFlight
  <2>3. CASE q # p /\ r # p
    <3>1. Apart(q, r) /\ work'[q] = work[q] /\ work'[r] = work[r]
      BY <2>3, <1>5, <1>9 DEF Inductive
    <3>. QED BY <3>1 DEF Apart, Newborn, InTx
  <2>. QED BY <2>1, <2>2, <2>3
<1>. QED BY <1>7, <1>8, <1>9 DEF Inductive

LEMMA CrashStep ==
  ASSUME Inductive, Crash
  PROVE  Inductive'
<1>1. /\ serving' = FALSE /\ todo' = Outdated /\ UNCHANGED <<notes, names, now, taken>>
      /\ work' = [p \in Server |-> [stage |-> "idle", reply |-> "none"]]
  BY DEF Crash
<1>2. TypeOK'
  <2>1. work' \in [Server -> Idle \cup Busy] BY <1>1 DEF Idle
  <2>2. todo' \subseteq Note BY <1>1 DEF Outdated
  <2>. QED BY <1>1, <2>1, <2>2 DEF Inductive, TypeOK
<1>3. NamesAreSound' /\ NamesComeFromTheText'
  BY <1>1 DEF Inductive, NamesAreSound, NamesComeFromTheText
<1>4. \A p \in Server : work'[p].stage = "idle" BY <1>1
<1>5. Boot' BY <1>1, <1>4 DEF Boot, Outdated
<1>6. \A p \in Server : InFlight(p)' BY <1>4 DEF InFlight, Newborn, InTx
<1>7. \A p, q \in Server : Apart(p, q)' BY <1>4 DEF Apart, Newborn, InTx
<1>. QED BY <1>2, <1>3, <1>5, <1>6, <1>7 DEF Inductive

-----------------------------------------------------------------------------
(* The statements of a transaction. *)

\* A row is written under a text that keeps the note's name.
LEMMA WriteStep ==
  ASSUME Inductive, NEW p \in Server, work[p].stage = "arrived",
         UNCHANGED <<notes, names, taken, todo, serving>>,
         NEW x \in Text, Write(p, x),
         work[p].kind # "delete",
         work[p].kind # "create" => ~Held(work[p].note),
         work[p].kind = "update" /\ work[p].base # 0 => work[p].base = notes[work[p].note].version,
         \A r \in names : r.primary /\ r.note = work[p].note
                          /\ notes[work[p].note].state = "live" /\ x.title # Unusable =>
           r.slug = x.title \/ In(r.slug, x.aliases)
  PROVE  Inductive'
<1>. DEFINE n == work[p].note
            wanted == Candidate(n, x.title, 1)
            w == [work[p] EXCEPT !.stage = "allocate", !.row = Written(p, x),
                                 !.wanted = wanted, !.aliases = x.aliases]
<1>1. /\ work[p] \in Busy /\ n \in Note /\ work[p].stage = "arrived"
      /\ now \in Nat /\ taken \in Nat /\ work \in [Server -> Idle \cup Busy]
  BY AtWork DEF Inductive, TypeOK
<1>2. wanted \in Slug /\ x.title \in Slug \cup {Unusable} /\ x.aliases \in Seq(Slug)
  BY <1>1, CandidateType DEF Text
<1>3. Written(p, x) \in Row
  BY <1>1, <1>2 DEF Written, Row
<1>4. work' = [work EXCEPT ![p] = w] BY <1>1 DEF Write
<1>5. w \in Busy BY <1>1, <1>2, <1>3 DEF Busy
<1>6. /\ work' \in [Server -> Idle \cup Busy]
      /\ \A q \in Server \ {p} : work'[q] = work[q]
      /\ work'[p] = w
  BY <1>1, <1>4, <1>5
<1>7. /\ w.stage = "allocate" /\ w.note = n /\ w.kind = work[p].kind /\ w.base = work[p].base
      /\ w.row = Written(p, x) /\ w.wanted = wanted /\ w.aliases = x.aliases
      /\ w.claimed = work[p].claimed
  BY <1>1 DEF Busy
<1>. HIDE DEF w, wanted
<1>8. now' \in Nat /\ taken' \in Nat BY <1>1 DEF Write
<1>9. w.claimed = {} BY <1>1, <1>7 DEF Inductive, InFlight
<1>10. RowGood(p)'
  <2>1. Written(p, x).state = "live" /\ Written(p, x).indexed
        /\ Written(p, x).title = Written(p, x).text.title
    BY DEF Written
  <2>. QED BY <2>1, <1>3, <1>6, <1>7 DEF RowGood
<1>11. ClaimGood(p)'
  <2>1. wanted = Candidate(n, Written(p, x).title, 1) /\ 1 \in 1 .. MaxAttempts
    BY DEF wanted, Written
  <2>2. \A i \in DOMAIN x.aliases : In(x.aliases[i], Written(p, x).text.aliases)
    BY DEF In, Written
  <2>. QED BY <2>1, <2>2, <1>6, <1>7, <1>9 DEF ClaimGood
<1>12. OldGood(p)'
  <2>1. Written(p, x).title = x.title BY DEF Written
  <2>2. x.title # Unusable => wanted = x.title BY DEF wanted, Candidate
  <2>. QED BY <2>1, <2>2, <1>6, <1>7 DEF OldGood
<1>13. InFlight(p)'
  <2>1. work[p].kind = "create" => notes[n] = NoRow
    BY <1>1 DEF Inductive, InFlight, Newborn
  <2>. QED BY <2>1, <1>6, <1>7, <1>10, <1>11, <1>12 DEF InFlight, Newborn
<1>14. ASSUME NEW q \in Server \ {p} PROVE Apart(p, q)' /\ Apart(q, p)'
  <2>1. Apart(p, q) /\ Apart(q, p) /\ work'[q] = work[q] BY <1>6 DEF Inductive
  <2>2. InTx(q) => work[q].note # n
    <3>1. CASE work[p].kind = "create"
      BY <3>1, <2>1, <1>1 DEF Apart, Newborn, InTx
    <3>2. CASE work[p].kind # "create" BY <3>2 DEF Held
    <3>. QED BY <3>1, <3>2
  <2>3. Apart(p, q)' BY <2>1, <2>2, <1>1, <1>6, <1>7, <1>9 DEF Apart, Newborn, InTx
  <2>4. Apart(q, p)' BY <2>1, <2>2, <1>1, <1>6, <1>7, <1>9 DEF Apart, Newborn, InTx
  <2>. QED BY <2>3, <2>4
<1>. QED BY <1>1, <1>6, <1>8, <1>13, <1>14, LocalStep

LEMMA ConflictStep ==
  ASSUME Inductive, NEW p \in Server, work[p].stage = "arrived",
         UNCHANGED <<notes, names, now, taken, todo, serving>>,
         work' = [work EXCEPT ![p].stage = "conflict"]
  PROVE  Inductive'
<1>. DEFINE w == [work[p] EXCEPT !.stage = "conflict"]
<1>1. work[p] \in Busy /\ now \in Nat /\ taken \in Nat /\ work \in [Server -> Idle \cup Busy]
  BY AtWork DEF Inductive, TypeOK
<1>2. w \in Busy /\ w.stage = "conflict" /\ w.note = work[p].note BY <1>1 DEF Busy
<1>3. /\ work' \in [Server -> Idle \cup Busy] /\ work'[p] = w
      /\ \A q \in Server \ {p} : work'[q] = work[q]
  BY <1>1, <1>2
<1>. HIDE DEF w
<1>4. InFlight(p)' BY <1>2, <1>3 DEF InFlight, Newborn, InTx
<1>. QED BY <1>1, <1>2, <1>3, <1>4, OwnStep DEF Newborn, InTx

LEMMA DeletedRow ==
  ASSUME NEW r \in Row, NEW v \in Nat
  PROVE  /\ [r EXCEPT !.state = "deleted", !.version = v] \in Row
         /\ [r EXCEPT !.state = "deleted", !.version = v].state = "deleted"
BY DEF Row

LEMMA DeleteStep ==
  ASSUME Inductive, NEW p \in Server, work[p].stage = "arrived",
         UNCHANGED <<notes, names, taken, todo, serving>>, DeleteNote(p)
  PROVE  Inductive'
<1>. DEFINE n == work[p].note
            row == [notes[n] EXCEPT !.state = "deleted", !.version = now + 1]
            w == [work[p] EXCEPT !.stage = "commit", !.row = row]
<1>1. /\ work[p] \in Busy /\ n \in Note /\ work[p].kind = "delete" /\ ~Held(n)
      /\ now \in Nat /\ taken \in Nat /\ work \in [Server -> Idle \cup Busy]
      /\ notes \in [Note -> Row \cup {NoRow}]
  BY AtWork DEF DeleteNote, Inductive, TypeOK
<1>2. CASE Answer(p, "missing") /\ UNCHANGED now
  BY <1>1, <1>2, AnswerStep
<1>3. CASE /\ notes[n].state = "live" /\ now' = now + 1
           /\ work' = [work EXCEPT ![p].stage = "commit", ![p].row = row]
  <2>1. notes[n] \in Row BY <1>1, <1>3 DEF NoRow
  <2>2. row \in Row /\ row.state = "deleted"
    <3>1. now + 1 \in Nat BY <1>1
    <3>. QED BY <2>1, <3>1, DeletedRow, Zenon
  <2>3. w \in Busy BY <2>2, <1>1 DEF Busy
  <2>4. work' = [work EXCEPT ![p] = w] BY <1>1, <1>3
  <2>5. /\ work' \in [Server -> Idle \cup Busy] /\ work'[p] = w
        /\ \A q \in Server \ {p} : work'[q] = work[q]
    BY <1>1, <2>3, <2>4
  <2>6. /\ w.stage = "commit" /\ w.note = n /\ w.kind = "delete" /\ w.row = row
        /\ w.claimed = {}
    BY <1>1 DEF Busy, Inductive, InFlight
  <2>. HIDE DEF w, row
  <2>7. RowGood(p)' BY <2>2, <2>5, <2>6 DEF RowGood
  <2>8. InFlight(p)' BY <2>5, <2>6, <2>7 DEF InFlight, Newborn
  <2>9. ASSUME NEW q \in Server \ {p} PROVE Apart(p, q)' /\ Apart(q, p)'
    <3>1. Apart(q, p) /\ work'[q] = work[q] BY <2>5 DEF Inductive
    <3>2. InTx(q) => work[q].note # n BY <1>1 DEF Held
    <3>3. Apart(p, q)' BY <3>1, <3>2, <2>5, <2>6 DEF Apart, Newborn, InTx
    <3>4. Apart(q, p)' BY <3>1, <3>2, <2>5, <2>6 DEF Apart, Newborn, InTx
    <3>. QED BY <3>3, <3>4
  <2>. QED BY <1>1, <1>3, <2>5, <2>8, <2>9, LocalStep
<1>. QED BY <1>2, <1>3 DEF DeleteNote

LEMMA BeginStep ==
  ASSUME Inductive, NEW p \in Server, Begin(p)
  PROVE  Inductive'
<1>. DEFINE n == work[p].note
<1>1. /\ work[p].stage = "arrived" /\ UNCHANGED <<notes, names, taken, todo, serving>>
      /\ work[p] \in Busy /\ n \in Note /\ work[p].text \in Text
      /\ now \in Nat /\ taken \in Nat
      /\ notes \in [Note -> Row \cup {NoRow}] /\ TypeOK /\ NamesAreSound
  BY AtWork DEF Begin, Inductive, TypeOK, Busy
<1>2. CASE CreateNote(p)
  <2>1. notes[n] = NoRow BY <1>1, <1>2 DEF CreateNote, Inductive, InFlight, Newborn
  <2>2. notes[n].state # "live" BY <2>1 DEF NoRow
  <2>. QED BY <1>1, <1>2, <2>2, WriteStep DEF CreateNote
<1>3. CASE UpdateNote(p)
  <2>1. CASE Answer(p, "missing") /\ UNCHANGED now BY <1>1, <2>1, AnswerStep
  <2>2. CASE work' = [work EXCEPT ![p].stage = "conflict"] /\ UNCHANGED now
    BY <1>1, <2>2, ConflictStep
  <2>3. CASE ~Stale(p) /\ Write(p, Stored(n, work[p].text))
    <3>. DEFINE x == Stored(n, work[p].text)
    <3>1. /\ x \in Text
          /\ \A r \in names : r.primary /\ r.note = n /\ x.title # Unusable =>
               r.slug = x.title \/ In(r.slug, x.aliases)
      BY <1>1, StoredKeepsOldName
    <3>2. work[p].kind = "update" /\ ~Held(n) BY <1>3 DEF UpdateNote
    <3>. HIDE DEF x
    <3>3. Write(p, x) BY <2>3 DEF x
    <3>. QED BY <1>1, <2>3, <3>1, <3>2, <3>3, WriteStep DEF Stale
  <2>. QED BY <1>3, <2>1, <2>2, <2>3 DEF UpdateNote
<1>4. CASE DeleteNote(p) BY <1>1, <1>4, DeleteStep
<1>5. CASE RestoreNote(p)
  <2>1. CASE Answer(p, "missing") /\ UNCHANGED now BY <1>1, <2>1, AnswerStep
  <2>2. CASE notes[n].state = "deleted" /\ Write(p, notes[n].text)
    <3>1. notes[n].text \in Text BY <1>1, <2>2 DEF NoRow, Row
    <3>. QED BY <1>1, <1>5, <2>2, <3>1, WriteStep DEF RestoreNote
  <2>. QED BY <1>5, <2>1, <2>2 DEF RestoreNote
<1>. QED BY <1>2, <1>3, <1>4, <1>5 DEF Begin

LEMMA AllocateStep ==
  ASSUME Inductive, NEW p \in Server, Allocate(p)
  PROVE  Inductive'
<1>. DEFINE n == work[p].note
            k == work[p].attempt
            title == work[p].row.title
<1>1. /\ work[p].stage = "allocate" /\ UNCHANGED <<notes, names, now, taken, todo, serving>>
      /\ work[p] \in Busy /\ n \in Note /\ k \in 1 .. MaxAttempts
      /\ now \in Nat /\ taken \in Nat /\ work \in [Server -> Idle \cup Busy]
      /\ names \subseteq Name
  BY AtWork DEF Allocate, Inductive, TypeOK, Busy
<1>2. RowGood(p) /\ ClaimGood(p) /\ OldGood(p)
  BY <1>1 DEF Inductive, InFlight, InTx
<1>3. title \in Slug \cup {Unusable} BY <1>2 DEF RowGood, Row
\* Whatever it goes on with, its name is one that it may have.
<1>4. ASSUME NEW w \in Busy, work' = [work EXCEPT ![p] = w],
             w.stage \in {"allocate", "primary"},
             w.note = n, w.kind = work[p].kind, w.base = work[p].base, w.row = work[p].row,
             w.aliases = work[p].aliases, w.claimed = work[p].claimed,
             \/ w.wanted = work[p].wanted
             \/ /\ Owned(n, work[p].wanted)
                /\ \/ w.wanted = fallback_slug(n)
                   \/ \E j \in 1 .. MaxAttempts : w.wanted = Candidate(n, title, j)
      PROVE  Inductive'
  <2>1. /\ work' \in [Server -> Idle \cup Busy] /\ work'[p] = w
        /\ \A q \in Server \ {p} : work'[q] = work[q]
    BY <1>1, <1>4
  <2>2. RowGood(p)' BY <1>1, <1>2, <1>4, <2>1 DEF RowGood
  <2>3. ClaimGood(p)' BY <1>1, <1>2, <1>4, <2>1 DEF ClaimGood
  <2>4. OldGood(p)'
    <3>1. ASSUME NEW r \in names, r.note = n, Owned(n, work[p].wanted)
          PROVE  r.slug # work[p].wanted
      <4>1. PICK q \in names : q.slug = work[p].wanted /\ q.note # n BY <3>1 DEF Owned
      <4>2. NamesAreSound BY DEF Inductive
      <4>. QED BY <3>1, <4>1, <4>2 DEF NamesAreSound
    <3>. QED BY <1>1, <1>2, <1>4, <2>1, <3>1 DEF OldGood
  <2>5. InFlight(p)' /\ (Newborn(p)' => Newborn(p)) /\ (InTx(p)' => InTx(p))
    BY <1>1, <1>4, <2>1, <2>2, <2>3, <2>4 DEF InFlight, Newborn, InTx, Inductive
  <2>. QED BY <1>1, <1>4, <2>1, <2>5, OwnStep
<1>5. CASE work' = [work EXCEPT ![p].stage = "primary"]
  <2>. DEFINE w == [work[p] EXCEPT !.stage = "primary"]
  <2>1. work' = [work EXCEPT ![p] = w] /\ w \in Busy BY <1>1, <1>5 DEF Busy
  <2>2. /\ w.stage = "primary" /\ w.note = n /\ w.kind = work[p].kind /\ w.base = work[p].base
        /\ w.row = work[p].row /\ w.aliases = work[p].aliases /\ w.claimed = work[p].claimed
        /\ w.wanted = work[p].wanted
    BY <1>1 DEF Busy
  <2>. HIDE DEF w, n, title
  <2>. QED BY <2>1, <2>2, <1>4
<1>6. CASE /\ Owned(n, work[p].wanted) /\ k < MaxAttempts
           /\ work' = [work EXCEPT ![p].attempt = k + 1, ![p].wanted = Candidate(n, title, k + 1)]
  <2>. DEFINE wanted == Candidate(n, title, k + 1)
              w == [work[p] EXCEPT !.attempt = k + 1, !.wanted = wanted]
  <2>1. wanted \in Slug /\ k + 1 \in 1 .. MaxAttempts BY <1>1, <1>3, <1>6, CandidateType
  <2>2. work' = [work EXCEPT ![p] = w] BY <1>1, <1>6
  <2>3. w \in Busy BY <1>1, <2>1 DEF Busy
  <2>4. /\ w.stage = "allocate" /\ w.note = n /\ w.kind = work[p].kind /\ w.base = work[p].base
        /\ w.row = work[p].row /\ w.aliases = work[p].aliases /\ w.claimed = work[p].claimed
        /\ w.wanted = wanted
    BY <1>1 DEF Busy
  <2>5. \E j \in 1 .. MaxAttempts : wanted = Candidate(n, title, j) BY <2>1
  <2>. HIDE DEF w, wanted, n, title
  <2>. QED BY <2>2, <2>3, <2>4, <2>5, <1>4, <1>6
<1>7. CASE /\ Owned(n, work[p].wanted)
           /\ work' = [work EXCEPT ![p].stage = "primary", ![p].wanted = fallback_slug(n)]
  <2>. DEFINE wanted == fallback_slug(n)
              w == [work[p] EXCEPT !.stage = "primary", !.wanted = wanted]
  <2>1. wanted \in Slug BY <1>1, <1>3, CandidateType
  <2>2. work' = [work EXCEPT ![p] = w] BY <1>1, <1>7
  <2>3. w \in Busy BY <1>1, <2>1 DEF Busy
  <2>4. /\ w.stage = "primary" /\ w.note = n /\ w.kind = work[p].kind /\ w.base = work[p].base
        /\ w.row = work[p].row /\ w.aliases = work[p].aliases /\ w.claimed = work[p].claimed
        /\ w.wanted = wanted
    BY <1>1 DEF Busy
  <2>. HIDE DEF w, n, title
  <2>. QED BY <2>2, <2>3, <2>4, <1>4, <1>7
<1>. QED BY <1>5, <1>6, <1>7 DEF Allocate

\* p has claimed one more name: of those that other transactions have claimed, it
\* waited for the ones with this slug.
LEMMA ClaimApart ==
  ASSUME Inductive, NEW p \in Server, InTx(p), work[p].stage # "commit", ~Blocked(p),
         NEW s, Inserts(p, s), NEW w \in Busy, work'[p] = w,
         \A q \in Server \ {p} : work'[q] = work[q],
         w.stage = "aliases", w.note = work[p].note, w.kind = work[p].kind,
         \A c \in w.claimed : c \in work[p].claimed \/ c.slug = s
  PROVE  \A q \in Server \ {p} : Apart(p, q)' /\ Apart(q, p)'
<1>. SUFFICES ASSUME NEW q \in Server \ {p} PROVE Apart(p, q)' /\ Apart(q, p)'
  OBVIOUS
<1>1. Apart(p, q) /\ Apart(q, p) /\ work'[q] = work[q] BY DEF Inductive
<1>2. InTx(q) => \A d \in work[q].claimed : d.slug # s BY DEF Blocked, Blocks
<1>3. Newborn(p)' => Newborn(p) BY DEF Newborn, InTx
<1>4. Apart(p, q)' BY <1>1, <1>2, <1>3 DEF Apart, Newborn, InTx
<1>5. Apart(q, p)' BY <1>1, <1>2, <1>3 DEF Apart, Newborn, InTx
<1>. QED BY <1>4, <1>5

LEMMA InsertPrimaryStep ==
  ASSUME Inductive, NEW p \in Server, InsertPrimary(p)
  PROVE  Inductive'
<1>. DEFINE n == work[p].note
            s == work[p].wanted
            name == [note |-> n, slug |-> s, primary |-> TRUE]
            w == [work[p] EXCEPT !.stage = "aliases", !.claimed = {name}]
<1>1. /\ work[p].stage = "primary" /\ ~Blocked(p) /\ InTx(p) /\ s \in Slug
      /\ UNCHANGED <<notes, names, now, taken, todo, serving>>
      /\ work[p] \in Busy /\ n \in Note
      /\ now \in Nat /\ taken \in Nat /\ work \in [Server -> Idle \cup Busy]
  BY AtWork DEF InsertPrimary, Inductive, TypeOK, Busy, InTx
<1>2. RowGood(p) /\ ClaimGood(p) /\ OldGood(p)
  BY <1>1 DEF Inductive, InFlight
<1>3. CASE Answer(p, "failed") BY <1>1, <1>3, AnswerStep
<1>4. CASE ~Owned(n, s) /\ work' = [work EXCEPT ![p].stage = "aliases", ![p].claimed = {name}]
  <2>1. name \in Name BY <1>1 DEF Name
  <2>2. w \in Busy BY <1>1, <2>1 DEF Busy
  <2>3. work' = [work EXCEPT ![p] = w] BY <1>1, <1>4
  <2>4. /\ work' \in [Server -> Idle \cup Busy] /\ work'[p] = w
        /\ \A q \in Server \ {p} : work'[q] = work[q]
    BY <1>1, <2>2, <2>3
  <2>5. /\ w.stage = "aliases" /\ w.note = n /\ w.kind = work[p].kind /\ w.base = work[p].base
        /\ w.row = work[p].row /\ w.aliases = work[p].aliases /\ w.wanted = s
        /\ w.claimed = {name}
    BY <1>1 DEF Busy
  <2>. HIDE DEF w
  <2>6. RowGood(p)' BY <1>1, <1>2, <2>4, <2>5 DEF RowGood
  <2>7. ClaimGood(p)'
    <3>1. name.note = n /\ name.slug = s /\ name.primary OBVIOUS
    <3>2. \A r \in names : r.slug = s => r.note = n BY <1>4 DEF Owned
    <3>. HIDE DEF name
    <3>3. \A c \in w.claimed :
            /\ c.note = n
            /\ c.primary => c.slug = s
            /\ ~c.primary => c.slug # s /\ In(c.slug, w.row.text.aliases)
            /\ \A r \in names : r.slug = c.slug => r.note = n
      BY <3>1, <3>2, <2>5
    <3>4. [note |-> n, slug |-> s, primary |-> TRUE] \in w.claimed BY <2>5 DEF name
    <3>. HIDE DEF n, s
    <3>5. /\ \/ w.wanted = fallback_slug(w.note)
             \/ \E k \in 1 .. MaxAttempts : w.wanted = Candidate(w.note, w.row.title, k)
          /\ \A i \in DOMAIN w.aliases : In(w.aliases[i], w.row.text.aliases)
      BY <1>2, <2>5 DEF ClaimGood, n, s
    <3>. QED BY <1>1, <2>4, <2>5, <3>3, <3>4, <3>5 DEF ClaimGood
  <2>8. OldGood(p)'
    <3>1. work[p].claimed = {} BY <1>1, <1>2 DEF ClaimGood
    <3>. QED BY <1>1, <1>2, <2>4, <2>5, <3>1 DEF OldGood
  <2>9. InFlight(p)'
    BY <1>1, <2>4, <2>5, <2>6, <2>7, <2>8 DEF InFlight, Newborn, InTx, Inductive
  <2>10. Inserts(p, s) BY <1>1 DEF Inserts
  <2>11. \A c \in w.claimed : c.slug = s BY <2>5
  <2>12. \A q \in Server \ {p} : Apart(p, q)' /\ Apart(q, p)'
    BY <1>1, <2>2, <2>4, <2>5, <2>10, <2>11, ClaimApart
  <2>. QED BY <1>1, <2>4, <2>9, <2>12, LocalStep
<1>. QED BY <1>1, <1>3, <1>4 DEF InsertPrimary

LEMMA InsertAliasStep ==
  ASSUME Inductive, NEW p \in Server, InsertAlias(p)
  PROVE  Inductive'
<1>. DEFINE n == work[p].note
            s == Head(work[p].aliases)
            rest == Tail(work[p].aliases)
            name == [note |-> n, slug |-> s, primary |-> FALSE]
            new == Inserts(p, s) /\ ~Owned(n, s)
            claimed == IF new THEN work[p].claimed \cup {name} ELSE work[p].claimed
            w == [work[p] EXCEPT !.aliases = rest, !.claimed = claimed]
<1>1. /\ work[p].stage = "aliases" /\ ~Blocked(p) /\ InTx(p)
      /\ UNCHANGED <<notes, names, now, taken, todo, serving>>
      /\ work[p] \in Busy /\ n \in Note
      /\ work[p].aliases # <<>> /\ work[p].aliases \in Seq(Slug)
      /\ now \in Nat /\ taken \in Nat /\ work \in [Server -> Idle \cup Busy]
      /\ names \subseteq Name
  BY AtWork DEF InsertAlias, Inductive, TypeOK, Busy, InTx
<1>2. RowGood(p) /\ ClaimGood(p) /\ OldGood(p)
  BY <1>1 DEF Inductive, InFlight
<1>3. /\ s \in Slug /\ rest \in Seq(Slug)
      /\ \A t : In(t, work[p].aliases) <=> t = s \/ In(t, rest)
  BY <1>1, InTail
<1>4. name \in Name BY <1>1, <1>3 DEF Name
<1>5. w \in Busy BY <1>1, <1>3, <1>4 DEF Busy
<1>6. work' = [work EXCEPT ![p] = w] BY <1>1 DEF InsertAlias
<1>7. /\ work' \in [Server -> Idle \cup Busy] /\ work'[p] = w
      /\ \A q \in Server \ {p} : work'[q] = work[q]
  BY <1>1, <1>5, <1>6
<1>8. /\ w.stage = "aliases" /\ w.note = n /\ w.kind = work[p].kind /\ w.base = work[p].base
      /\ w.row = work[p].row /\ w.wanted = work[p].wanted
      /\ w.aliases = rest /\ w.claimed = claimed
  BY <1>1 DEF Busy
<1>9. name.note = n /\ name.slug = s /\ ~name.primary OBVIOUS
<1>10. /\ work[p].claimed \subseteq claimed
       /\ \A c \in claimed : c \in work[p].claimed \/ (c = name /\ new)
  OBVIOUS
<1>11. s \in {work[p].row.title, work[p].wanted} \/ Owned(n, s) \/ (new /\ name \in claimed)
  BY <1>1 DEF Inserts, IsAlias
<1>12. new => Inserts(p, s) /\ s # work[p].wanted /\ \A r \in names : r.slug = s => r.note = n
  BY <1>1 DEF Inserts, IsAlias, Owned
<1>. HIDE DEF w, claimed, name, new, rest
<1>13. RowGood(p)' BY <1>1, <1>2, <1>7, <1>8 DEF RowGood
<1>14. ClaimGood(p)'
  <2>1. In(s, work[p].row.text.aliases)
        /\ \A i \in DOMAIN rest : In(rest[i], work[p].row.text.aliases)
    <3>1. \A t : In(t, work[p].aliases) => In(t, work[p].row.text.aliases)
      BY <1>2 DEF ClaimGood, In
    <3>2. \A i \in DOMAIN rest : In(rest[i], rest) BY DEF In
    <3>. QED BY <3>1, <3>2, <1>3
  <2>2. \A c \in claimed :
          /\ c.note = n
          /\ c.primary => c.slug = work[p].wanted
          /\ ~c.primary => c.slug # work[p].wanted /\ In(c.slug, work[p].row.text.aliases)
          /\ \A r \in names : r.slug = c.slug => r.note = n
    BY <1>2, <1>9, <1>10, <1>12, <2>1 DEF ClaimGood
  <2>3. [note |-> n, slug |-> work[p].wanted, primary |-> TRUE] \in claimed
    BY <1>1, <1>2, <1>10 DEF ClaimGood
  <2>. HIDE DEF n
  <2>4. \/ work[p].wanted = fallback_slug(n)
        \/ \E k \in 1 .. MaxAttempts : work[p].wanted = Candidate(n, work[p].row.title, k)
    BY <1>2 DEF ClaimGood, n
  <2>. QED BY <1>1, <1>7, <1>8, <2>1, <2>2, <2>3, <2>4 DEF ClaimGood
<1>15. OldGood(p)'
  <2>1. ASSUME NEW r \in names, r.primary, r.note = n, notes[n].state = "live",
               work[p].row.title # Unusable, r.slug # work[p].wanted
        PROVE  /\ r.slug # work[p].row.title
               /\ In(r.slug, rest) \/ \E c \in claimed : c.slug = r.slug
    <3>1. /\ r.slug # work[p].row.title
          /\ In(r.slug, work[p].aliases) \/ \E c \in work[p].claimed : c.slug = r.slug
      BY <1>2, <2>1 DEF OldGood
    <3>2. CASE r.slug = s
      <4>1. ~Owned(n, s)
        <5>1. NamesAreSound BY DEF Inductive
        <5>. QED BY <5>1, <2>1, <3>2 DEF Owned, NamesAreSound
      <4>. QED BY <4>1, <3>1, <3>2, <2>1, <1>9, <1>11
    <3>3. CASE r.slug # s BY <3>1, <3>3, <1>3, <1>10
    <3>. QED BY <3>1, <3>2, <3>3
  <2>. QED BY <2>1, <1>1, <1>7, <1>8 DEF OldGood
<1>16. InFlight(p)'
  BY <1>1, <1>7, <1>8, <1>13, <1>14, <1>15 DEF InFlight, Newborn, InTx, Inductive
<1>17. CASE new
  <2>1. \A c \in w.claimed : c \in work[p].claimed \/ c.slug = s BY <1>8, <1>9, <1>10
  <2>2. \A q \in Server \ {p} : Apart(p, q)' /\ Apart(q, p)'
    BY <1>1, <1>5, <1>7, <1>8, <1>12, <1>17, <2>1, ClaimApart
  <2>. QED BY <1>1, <1>7, <1>16, <2>2, LocalStep
<1>18. CASE ~new
  <2>1. claimed = work[p].claimed BY <1>18 DEF claimed
  <2>. QED BY <1>1, <1>7, <1>8, <1>16, <2>1, OwnStep DEF Newborn, InTx
<1>. QED BY <1>17, <1>18

-----------------------------------------------------------------------------
(* The steps that change what is committed. *)

\* The names committed with a row of n: none with a deleted one, and with a live
\* one a first name s, and others that are free and in its text.
NamesOf(n, row, s, claimed) ==
  /\ \/ row.state = "deleted" /\ claimed = {}
     \/ /\ row.state = "live" /\ row.indexed /\ row.title = row.text.title
        /\ \/ s = fallback_slug(n)
           \/ \E k \in 1 .. MaxAttempts : s = Candidate(n, row.title, k)
        /\ [note |-> n, slug |-> s, primary |-> TRUE] \in claimed
  /\ \A c \in claimed :
       /\ c.note = n
       /\ c.primary => c.slug = s
       /\ ~c.primary => c.slug # s /\ In(c.slug, row.text.aliases)
       /\ \A r \in names : r.slug = c.slug => r.note = n

\* A note is given a row and names; the names of the others stay.
LEMMA RenameKeeps ==
  ASSUME TypeOK, NamesAreSound, NamesComeFromTheText,
         NEW n \in Note, NEW row \in Row, NEW claimed \in SUBSET Name, NEW s,
         notes' = [notes EXCEPT ![n] = row], names' = Renamed(n, claimed),
         NamesOf(n, row, s, claimed)
  PROVE  /\ notes' \in [Note -> Row \cup {NoRow}] /\ names' \subseteq Name
         /\ NamesAreSound' /\ NamesComeFromTheText'
<1>. USE DEF NamesOf
<1>1. /\ notes' \in [Note -> Row \cup {NoRow}] /\ notes'[n] = row
      /\ \A m \in Note : m # n => notes'[m] = notes[m]
  BY DEF TypeOK
<1>2. /\ names' \subseteq Name
      /\ \A r \in names' : r \in claimed \/ (r \in names /\ r.note # n)
      /\ \A r \in names : r.note # n => r \in names'
      /\ \A c \in claimed : c \in names'
  BY DEF Renamed, TypeOK
<1>3. \A q, r \in Name : q.note = r.note /\ q.slug = r.slug /\ q.primary = r.primary => q = r
  BY DEF Name
<1>4. \A q, r \in claimed : q.slug = r.slug => q = r
  <2>1. \A q \in claimed : q \in Name /\ q.primary \in BOOLEAN BY DEF Name
  <2>2. ASSUME NEW q \in claimed, NEW r \in claimed, q.slug = r.slug PROVE q.primary = r.primary
    BY <2>1, <2>2
  <2>. QED BY <2>1, <2>2, <1>3
<1>5. NamesAreSound'
  <2>1. ASSUME NEW m \in Note
        PROVE  LET own == {r \in names' : r.note = m}
               IN  IF notes'[m].state = "live" /\ notes'[m].indexed
                   THEN \E r \in own : r.primary /\ \A q \in own : q.primary => q = r
                   ELSE own = {}
    <3>1. CASE m # n
      <4>1. {r \in names' : r.note = m} = {r \in names : r.note = m} BY <3>1, <1>2
      <4>. QED BY <4>1, <3>1, <1>1 DEF NamesAreSound
    <3>2. CASE m = n
      <4>1. {r \in names' : r.note = n} = claimed BY <1>2
      <4>2. CASE row.state = "deleted" /\ claimed = {} BY <4>1, <4>2, <3>2, <1>1
      <4>3. CASE row.state = "live" /\ row.indexed
                 /\ [note |-> n, slug |-> s, primary |-> TRUE] \in claimed
        <5>. DEFINE r == [note |-> n, slug |-> s, primary |-> TRUE]
        <5>1. r \in claimed /\ r.primary /\ r.slug = s BY <4>3
        <5>. HIDE DEF r
        <5>2. \A q \in claimed : q.primary => q = r BY <5>1, <1>4
        <5>. QED BY <5>1, <5>2, <4>1, <4>3, <3>2, <1>1
      <4>. QED BY <4>2, <4>3
    <3>. QED BY <3>1, <3>2
  <2>2. ASSUME NEW q \in names', NEW r \in names', q.slug = r.slug PROVE q = r
    <3>1. CASE q \in claimed /\ r \in claimed BY <3>1, <2>2, <1>4
    <3>2. CASE q \notin claimed /\ r \notin claimed
      BY <3>2, <2>2, <1>2 DEF NamesAreSound
    <3>3. CASE q \in claimed /\ r \notin claimed BY <3>3, <2>2, <1>2
    <3>4. CASE q \notin claimed /\ r \in claimed BY <3>4, <2>2, <1>2
    <3>. QED BY <3>1, <3>2, <3>3, <3>4
  <2>. QED BY <2>1, <2>2 DEF NamesAreSound
<1>6. NamesComeFromTheText'
  <2>1. ASSUME NEW r \in names'
        PROVE  LET x == notes'[r.note].text
               IN  IF r.primary
                   THEN \/ r.slug = fallback_slug(r.note)
                        \/ \E k \in 1 .. MaxAttempts : r.slug = Candidate(r.note, x.title, k)
                   ELSE \E i \in DOMAIN x.aliases : x.aliases[i] = r.slug
    <3>1. CASE r \in names /\ r.note # n
      <4>1. r.note \in Note BY <3>1 DEF TypeOK, Name
      <4>2. notes'[r.note] = notes[r.note] BY <4>1, <3>1, <1>1
      <4>. QED BY <4>2, <3>1 DEF NamesComeFromTheText
    <3>2. CASE r \in claimed
      <4>1. r.note = n /\ notes'[r.note] = row BY <3>2, <1>1
      <4>2. CASE r.primary BY <4>1, <4>2, <3>2
      <4>3. CASE ~r.primary BY <4>1, <4>3, <3>2 DEF In
      <4>. QED BY <4>2, <4>3
    <3>. QED BY <3>1, <3>2, <1>2
  <2>. QED BY <2>1 DEF NamesComeFromTheText
<1>. QED BY <1>1, <1>2, <1>5, <1>6

LEMMA CommitStep ==
  ASSUME Inductive, NEW p \in Server, Commit(p)
  PROVE  Inductive'
<1>. DEFINE n == work[p].note
            row == work[p].row
            claimed == work[p].claimed
            s == work[p].wanted
<1>1. /\ work[p].stage # "idle" /\ InTx(p) /\ work[p].stage \in {"aliases", "commit"}
      /\ notes' = [notes EXCEPT ![n] = row] /\ names' = Renamed(n, claimed)
      /\ UNCHANGED <<now, taken, todo, serving>>
  BY DEF Commit, InTx
<1>2. /\ work[p] \in Busy /\ n \in Note /\ serving /\ todo = {} /\ claimed \in SUBSET Name
      /\ TypeOK /\ NamesAreSound /\ NamesComeFromTheText
      /\ work[p].kind \in {"create", "update", "delete", "restore"} /\ work[p].base \in Nat
  BY <1>1, AtWork DEF Inductive, Busy
<1>3. RowGood(p) /\ (work[p].stage # "commit" => ClaimGood(p))
  BY <1>1 DEF Inductive, InFlight
<1>4. row \in Row /\ NamesOf(n, row, s, claimed)
  <2>1. CASE work[p].stage = "commit" BY <2>1, <1>3 DEF RowGood, NamesOf
  <2>2. CASE work[p].stage = "aliases" BY <2>2, <1>3 DEF RowGood, ClaimGood, NamesOf
  <2>. QED BY <1>1, <2>1, <2>2
<1>. HIDE DEF n, row, claimed, s
<1>5. /\ notes' \in [Note -> Row \cup {NoRow}] /\ names' \subseteq Name
      /\ NamesAreSound' /\ NamesComeFromTheText'
  BY <1>1, <1>2, <1>4, RenameKeeps
<1>6. PICK w \in Idle \cup Busy :
        /\ work' = [work EXCEPT ![p] = w]
        /\ w.stage = "idle" \/ (w.stage = "reload" /\ w.note = n)
  <2>1. CASE work[p].kind = "delete"
    <3>1. [stage |-> "idle", reply |-> "done"] \in Idle BY DEF Idle
    <3>. QED BY <2>1, <3>1 DEF Commit, Answer
  <2>2. CASE work[p].kind # "delete"
    <3>. DEFINE w == Handler("reload", work[p].kind, n, row.text, work[p].base)
    <3>1. /\ <<>> \in Slug /\ <<>> \in Seq(Slug) /\ row.text \in Text /\ 1 \in 1 .. MaxAttempts
      BY <1>4 DEF Row, Slug
    <3>2. w \in Busy BY <3>1, <1>2 DEF Handler, Busy
    <3>3. w.stage = "reload" /\ w.note = n BY DEF Handler
    <3>4. work' = [work EXCEPT ![p] = w] BY <2>2 DEF Commit, n, row
    <3>. HIDE DEF w
    <3>. QED BY <3>2, <3>3, <3>4
  <2>. QED BY <2>1, <2>2
<1>7. /\ work' \in [Server -> Idle \cup Busy] /\ work'[p] = w
      /\ \A q \in Server \ {p} : work'[q] = work[q]
  BY <1>2, <1>6 DEF TypeOK
<1>8. TypeOK' BY <1>1, <1>2, <1>5, <1>7 DEF TypeOK
<1>9. Boot' BY <1>1, <1>2 DEF Boot
<1>10. /\ \A m \in Note : m # n => notes'[m] = notes[m]
       /\ \A r \in names' : r \in claimed \/ (r \in names /\ r.note # n)
  BY <1>1, <1>2 DEF Renamed, TypeOK
<1>11. ASSUME NEW q \in Server PROVE InFlight(q)'
  <2>1. CASE q = p BY <2>1, <1>6, <1>7 DEF InFlight, Newborn, InTx
  <2>2. CASE q # p
    <3>. DEFINE m == work[q].note
    <3>1. /\ InFlight(q) /\ Apart(q, p) /\ work'[q] = work[q]
      BY <2>2, <1>7 DEF Inductive
    <3>2. Newborn(q) \/ InTx(q) => m \in Note /\ m # n
      <4>1. work[q].stage # "idle" => m \in Note BY AtWork
      <4>2. Newborn(q) \/ InTx(q) => m # n BY <3>1, <1>1 DEF Apart, n
      <4>. QED BY <4>1, <4>2 DEF Newborn, InTx
    <3>3. Newborn(q) => notes'[m] = NoRow
      BY <3>1, <3>2, <1>10 DEF InFlight
    <3>4. InTx(q) => RowGood(q)' BY <3>1, <3>2, <1>10 DEF InFlight, RowGood
    <3>5. ASSUME InTx(q), work[q].stage # "commit" PROVE ClaimGood(q)' /\ OldGood(q)'
      <4>1. ClaimGood(q) /\ OldGood(q) BY <3>1, <3>5 DEF InFlight
      <4>2. \A c \in work[q].claimed, d \in claimed : c.slug # d.slug
        BY <3>1, <3>5, <1>1 DEF Apart, claimed
      <4>3. ClaimGood(q)' BY <4>1, <4>2, <3>1, <1>10 DEF ClaimGood
      <4>4. notes'[m] = notes[m] /\ \A r \in names' : r.note = m => r \in names
        BY <3>2, <3>5, <1>4, <1>10 DEF NamesOf
      <4>5. OldGood(q)' BY <4>1, <4>4, <3>1 DEF OldGood
      <4>. QED BY <4>3, <4>5
    <3>. QED BY <3>1, <3>3, <3>4, <3>5 DEF InFlight, Newborn, InTx
  <2>. QED BY <2>1, <2>2
<1>12. ASSUME NEW q \in Server, NEW r \in Server, q # r PROVE Apart(q, r)'
  <2>1. Apart(q, r) BY <1>12 DEF Inductive
  <2>2. CASE q = p BY <2>2, <1>6, <1>7 DEF Apart, Newborn, InTx
  <2>3. CASE r = p
    <3>1. work'[q] = work[q] BY <2>3, <1>12, <1>7
    <3>. QED BY <2>1, <2>3, <3>1, <1>1, <1>6, <1>7 DEF Apart, Newborn, InTx, n
  <2>4. CASE q # p /\ r # p
    <3>1. work'[q] = work[q] /\ work'[r] = work[r] BY <2>4, <1>7
    <3>. QED BY <2>1, <3>1 DEF Apart, Newborn, InTx
  <2>. QED BY <2>2, <2>3, <2>4
<1>. QED BY <1>5, <1>8, <1>9, <1>11, <1>12 DEF Inductive

LEMMA ReindexNoteStep ==
  ASSUME Inductive, NEW n \in todo, ReindexNote(n), UNCHANGED <<work, taken, now, serving>>,
         ~serving
  PROVE  Inductive'
<1>. DEFINE x == Reindexed(notes[n])
            Given(s) == {a \in {x.aliases[i] : i \in DOMAIN x.aliases} :
                           IsAlias(x.title, s, a) /\ ~Owned(n, a)}
            row == [notes[n] EXCEPT !.title = x.title, !.text = x, !.indexed = TRUE]
            claimed(s) == {[note |-> n, slug |-> s, primary |-> TRUE]} \cup
                            {[note |-> n, slug |-> a, primary |-> FALSE] : a \in Given(s)}
<1>1. /\ n \in Note /\ notes[n].state = "live" /\ notes[n] \in Row
      /\ TypeOK /\ NamesAreSound /\ NamesComeFromTheText
  <2>1. n \in Note /\ notes[n] \in Row \cup {NoRow} /\ notes[n].state = "live"
    BY DEF Inductive, TypeOK, Boot
  <2>. QED BY <2>1 DEF NoRow, Inductive
<1>2. x \in Text /\ x.title \in Slug \cup {Unusable} /\ x.aliases \in Seq(Slug)
  BY <1>1 DEF Reindexed, legacy_frontmatter, Row, Text
<1>. HIDE DEF x
<1>3. row \in Row /\ row.state = "live" /\ row.indexed /\ row.title = x.title /\ row.text = x
  BY <1>1, <1>2 DEF Row
<1>4. /\ notes' \in [Note -> Row \cup {NoRow}] /\ names' \subseteq Name
      /\ NamesAreSound' /\ NamesComeFromTheText'
      /\ \A m \in Note : m # n => notes'[m] = notes[m]
  <2>1. CASE UNCHANGED <<notes, names>>
    BY <1>1, <2>1 DEF TypeOK, NamesAreSound, NamesComeFromTheText
  <2>2. ASSUME NEW s \in {Candidate(n, x.title, k) : k \in 1 .. MaxAttempts} \cup {fallback_slug(n)},
               ~Owned(n, s),
               notes' = [notes EXCEPT ![n].title = x.title, ![n].text = x, ![n].indexed = TRUE],
               names' = Renamed(n, claimed(s))
        PROVE  /\ notes' \in [Note -> Row \cup {NoRow}] /\ names' \subseteq Name
               /\ NamesAreSound' /\ NamesComeFromTheText'
               /\ \A m \in Note : m # n => notes'[m] = notes[m]
    <3>1. notes' = [notes EXCEPT ![n] = row] BY <1>1, <2>2 DEF TypeOK
    <3>2. s \in Slug
      <4>1. \A k \in 1 .. MaxAttempts : k \in Nat OBVIOUS
      <4>. QED BY <4>1, <1>1, <1>2, <2>2, CandidateType
    <3>3. \A a \in Given(s) : a \in Slug /\ a # s /\ In(a, x.aliases) /\ ~Owned(n, a)
      BY <1>2 DEF In, IsAlias
    <3>4. \A c \in claimed(s) :
            /\ c \in Name /\ c.note = n
            /\ c.primary => c.slug = s
            /\ ~c.primary => c.slug # s /\ In(c.slug, x.aliases)
            /\ ~Owned(n, c.slug)
      <4>. HIDE DEF Given
      <4>1. ASSUME NEW c, c = [note |-> n, slug |-> s, primary |-> TRUE]
            PROVE  c \in Name /\ c.note = n /\ c.primary /\ c.slug = s
        BY <4>1, <1>1, <3>2 DEF Name
      <4>2. ASSUME NEW a \in Given(s), NEW c, c = [note |-> n, slug |-> a, primary |-> FALSE]
            PROVE  c \in Name /\ c.note = n /\ ~c.primary /\ c.slug = a
        BY <4>2, <1>1, <3>3 DEF Name
      <4>. QED BY <2>2, <3>3, <4>1, <4>2
    <3>5. [note |-> n, slug |-> s, primary |-> TRUE] \in claimed(s) OBVIOUS
    <3>. HIDE DEF row, claimed, Given
    <3>6. NamesOf(n, row, s, claimed(s))
      <4>1. s = fallback_slug(n) \/ \E k \in 1 .. MaxAttempts : s = Candidate(n, x.title, k)
        BY <2>2
      <4>. QED BY <1>3, <3>4, <3>5, <4>1 DEF NamesOf, Owned
    <3>7. claimed(s) \in SUBSET Name BY <3>4
    <3>. QED BY <1>1, <1>3, <2>2, <3>1, <3>6, <3>7, RenameKeeps DEF TypeOK
  <2>. QED BY <2>1, <2>2 DEF ReindexNote, x
<1>5. todo' = todo \ {n} BY DEF ReindexNote
<1>6. TypeOK' BY <1>4, <1>5 DEF Inductive, TypeOK
<1>7. Boot' BY <1>4, <1>5 DEF Inductive, Boot, TypeOK
<1>8. \A p \in Server : work'[p].stage = "idle" BY DEF Inductive, Boot
<1>9. \A p \in Server : InFlight(p)' BY <1>8 DEF InFlight, Newborn, InTx
<1>10. \A p, q \in Server : Apart(p, q)' BY <1>8 DEF Apart, Newborn, InTx
<1>. QED BY <1>4, <1>6, <1>7, <1>9, <1>10 DEF Inductive

LEMMA ReindexAllStep ==
  ASSUME Inductive, ReindexAll
  PROVE  Inductive'
<1>1. CASE \E n \in todo : ReindexNote(n) /\ UNCHANGED serving
  BY <1>1, ReindexNoteStep DEF ReindexAll
<1>2. CASE serving' = TRUE /\ todo' = {} /\ UNCHANGED <<notes, names>>
  <2>1. UNCHANGED <<notes, names, now, taken, work>> /\ ~serving BY <1>2 DEF ReindexAll
  <2>2. TypeOK' /\ NamesAreSound' /\ NamesComeFromTheText' /\ Boot'
    BY <1>2, <2>1 DEF Inductive, TypeOK, NamesAreSound, NamesComeFromTheText, Boot
  <2>3. \A p \in Server : work'[p].stage = "idle" BY <2>1 DEF Inductive, Boot
  <2>4. \A p \in Server : InFlight(p)' BY <2>3 DEF InFlight, Newborn, InTx
  <2>5. \A p, q \in Server : Apart(p, q)' BY <2>3 DEF Apart, Newborn, InTx
  <2>. QED BY <2>2, <2>4, <2>5 DEF Inductive
<1>. QED BY <1>1, <1>2 DEF ReindexAll

LEMMA StutterStep ==
  ASSUME Inductive, UNCHANGED vars
  PROVE  Inductive'
<1>1. TypeOK' /\ NamesAreSound' /\ NamesComeFromTheText' /\ Boot'
  BY DEF Inductive, TypeOK, NamesAreSound, NamesComeFromTheText, Boot, vars
<1>2. ASSUME NEW p \in Server PROVE InFlight(p)'
  BY DEF Inductive, InFlight, Newborn, InTx, RowGood, ClaimGood, OldGood, vars
<1>3. ASSUME NEW p \in Server, NEW q \in Server, p # q PROVE Apart(p, q)'
  BY <1>3 DEF Inductive, Apart, Newborn, InTx, vars
<1>. QED BY <1>1, <1>2, <1>3 DEF Inductive

-----------------------------------------------------------------------------
(* Theorems. *)

LEMMA InitInductive ==
  ASSUME Init
  PROVE  Inductive
<1>1. \A p \in Server : work[p] = [stage |-> "idle", reply |-> "none"] BY DEF Init
<1>2. \A n \in Note : notes[n] \in Row \cup {NoRow} /\ (notes[n] # NoRow => ~notes[n].indexed)
  BY DEF Init
<1>3. TypeOK
  <2>1. work \in [Server -> Idle \cup Busy] BY DEF Init, Idle
  <2>2. notes \in [Note -> Row \cup {NoRow}] BY DEF Init
  <2>. QED BY <2>1, <2>2 DEF Init, TypeOK, Outdated
<1>4. NamesAreSound /\ NamesComeFromTheText
  <2>1. \A n \in Note : ~(notes[n].state = "live" /\ notes[n].indexed)
    BY <1>2 DEF NoRow
  <2>. QED BY <2>1 DEF Init, NamesAreSound, NamesComeFromTheText
<1>5. Boot BY <1>1 DEF Init, Boot, Outdated
<1>6. \A p \in Server : InFlight(p) BY <1>1 DEF InFlight, Newborn, InTx
<1>7. \A p, q \in Server : Apart(p, q) BY <1>1 DEF Apart, Newborn, InTx
<1>. QED BY <1>3, <1>4, <1>5, <1>6, <1>7 DEF Inductive

LEMMA NextInductive ==
  ASSUME Inductive, [Next]_vars
  PROVE  Inductive'
<1>1. ASSUME NEW p \in Server, Arrive(p) PROVE Inductive' BY <1>1, ArriveStep
<1>2. ASSUME NEW p \in Server, Handle(p) PROVE Inductive'
  <2>1. CASE Begin(p) BY <2>1, BeginStep
  <2>2. CASE Allocate(p) BY <2>2, AllocateStep
  <2>3. CASE InsertPrimary(p) BY <2>3, InsertPrimaryStep
  <2>4. CASE InsertAlias(p) BY <2>4, InsertAliasStep
  <2>5. CASE Commit(p) BY <2>5, CommitStep
  <2>6. CASE Reload(p) BY <2>6, ReloadStep
  <2>7. CASE Cancel(p) BY <2>7, CancelStep
  <2>. QED BY <1>2, <2>1, <2>2, <2>3, <2>4, <2>5, <2>6, <2>7 DEF Handle
<1>3. CASE Crash BY <1>3, CrashStep
<1>4. CASE ReindexAll BY <1>4, ReindexAllStep
<1>5. CASE UNCHANGED vars BY <1>5, StutterStep
<1>. QED BY <1>1, <1>2, <1>3, <1>4, <1>5 DEF Next

LEMMA AlwaysInductive == Spec => []Inductive
<1>1. Init => Inductive BY InitInductive
<1>2. Inductive /\ [Next]_vars => Inductive' BY NextInductive
<1>. QED BY <1>1, <1>2, PTL DEF Spec

\* Every variable keeps its type: no handler takes a name or an attempt that is
\* none (sync_index, allocate_primary).
THEOREM TypeCorrect == Spec => []TypeOK
<1>1. Inductive => TypeOK BY DEF Inductive
<1>. QED BY <1>1, AlwaysInductive, PTL

\* "A note must always end up with exactly one primary name", and a name leads to
\* one note (allocate_primary, sync_index, delete_note, reindex_all).
THEOREM NamesStaySound == Spec => []NamesAreSound
<1>1. Inductive => NamesAreSound BY DEF Inductive
<1>. QED BY <1>1, AlwaysInductive, PTL

\* What is indexed for a note can be read off its stored text (sync_index).
THEOREM NamesFollowTheText == Spec => []NamesComeFromTheText
<1>1. Inductive => NamesComeFromTheText BY DEF Inductive
<1>. QED BY <1>1, AlwaysInductive, PTL

\* A save replaces the version it names (update_note).
THEOREM SavesReplaceWhatTheyRead == Spec => NoLostUpdate
<1>. DEFINE Replaces ==
       \A p \in Server :
         /\ work[p].stage \in {"aliases", "commit"} /\ work'[p].stage = "reload"
         /\ work[p].kind = "update" /\ work[p].base # 0
         => work[p].base = notes[work[p].note].version
<1>1. Inductive => Replaces BY DEF Inductive, InFlight, InTx, RowGood
<1>. QED BY <1>1, AlwaysInductive, PTL DEF NoLostUpdate

\* A step that leaves a live note its name, or takes it with a title no name can
\* be made of.
KeepsNames ==
  \A r \in names :
    /\ r.primary /\ notes[r.note].state = "live"
    /\ notes'[r.note].state = "live" /\ notes'[r.note].title # Unusable
    => \E s \in names' : s.note = r.note /\ s.slug = r.slug

LEMMA CommitKeepsNames ==
  ASSUME Inductive, NEW p \in Server, Commit(p)
  PROVE  KeepsNames
<1>. DEFINE n == work[p].note
            row == work[p].row
<1>1. /\ work[p].stage = "commit" \/ (work[p].stage = "aliases" /\ work[p].aliases = <<>>)
      /\ notes' = [notes EXCEPT ![n] = row] /\ names' = Renamed(n, work[p].claimed)
      /\ InTx(p) /\ work[p].stage # "idle"
  BY DEF Commit, InTx
<1>2. n \in Note /\ notes' = [m \in Note |-> IF m = n THEN row ELSE notes[m]] /\ names \subseteq Name
  BY <1>1, AtWork DEF Inductive, TypeOK
<1>. SUFFICES ASSUME NEW r \in names, r.primary, notes[r.note].state = "live",
                     notes'[r.note].state = "live", notes'[r.note].title # Unusable
              PROVE  \E s \in names' : s.note = r.note /\ s.slug = r.slug
  BY DEF KeepsNames
<1>3. CASE r.note # n BY <1>1, <1>3 DEF Renamed
<1>4. CASE r.note = n
  <2>1. notes'[n] = row BY <1>2
  <2>2. work[p].stage # "commit" BY <2>1, <1>1, <1>4 DEF Inductive, InFlight, RowGood
  <2>3. ClaimGood(p) /\ OldGood(p) BY <2>2, <1>1 DEF Inductive, InFlight
  <2>4. \A s : ~In(s, work[p].aliases) BY <1>1, <2>2 DEF In
  <2>5. r.slug = work[p].wanted \/ \E c \in work[p].claimed : c.slug = r.slug
    BY <2>1, <2>3, <2>4, <1>4 DEF OldGood
  <2>6. \E c \in work[p].claimed : c.slug = r.slug /\ c.note = n
    <3>1. CASE r.slug = work[p].wanted
      <4>1. [note |-> n, slug |-> r.slug, primary |-> TRUE] \in work[p].claimed
        BY <3>1, <2>2, <2>3, <1>1 DEF ClaimGood
      <4>. QED BY <4>1
    <3>2. CASE \E c \in work[p].claimed : c.slug = r.slug BY <3>2, <2>3 DEF ClaimGood
    <3>. QED BY <2>5, <3>1, <3>2
  <2>. QED BY <2>6, <1>1, <1>4 DEF Renamed
<1>. QED BY <1>3, <1>4

LEMMA ReindexKeepsNames ==
  ASSUME Inductive, ReindexAll
  PROVE  KeepsNames
<1>1. CASE UNCHANGED names BY <1>1 DEF KeepsNames
<1>2. ASSUME NEW n \in todo, ReindexNote(n) PROVE KeepsNames
\* A note still to be indexed has no name to lose.
  <2>1. \A r \in names : r.note # n
    BY DEF Inductive, Boot, TypeOK, NamesAreSound
  <2>2. UNCHANGED names \/ \E claimed : names' = Renamed(n, claimed)
    BY <1>2 DEF ReindexNote
  <2>3. \A r \in names : r \in names' BY <2>1, <2>2 DEF Renamed
  <2>. QED BY <2>3 DEF KeepsNames
<1>. QED BY <1>1, <1>2 DEF ReindexAll

\* "A rename keeps the old name working": whatever else is being saved, a note
\* saved under a usable title, and one the boot reindexes, keeps the name it had
\* (update_note, preserve_old_name, sync_index).
THEOREM OldNamesSurvive == Spec => OldNamesKeepWorking
<1>1. Inductive /\ [Next]_vars => KeepsNames
  <2>. SUFFICES ASSUME Inductive, [Next]_vars PROVE KeepsNames
    OBVIOUS
  <2>1. CASE UNCHANGED names BY <2>1 DEF KeepsNames
  <2>2. ASSUME NEW p \in Server, Commit(p) PROVE KeepsNames BY <2>2, CommitKeepsNames
  <2>3. CASE ReindexAll BY <2>3, ReindexKeepsNames
  <2>. QED
    BY <2>1, <2>2, <2>3 DEF Next, Handle, Arrive, Begin, Allocate, InsertPrimary, InsertAlias,
                             Reload, Cancel, Crash, vars
<1>2. KeepsNames =>
       (\A r \in names :
         /\ r.primary /\ notes[r.note].state = "live"
         /\ notes'[r.note].state = "live" /\ notes'[r.note].title # Unusable
         => \E s \in names' : s.note = r.note /\ s.slug = r.slug)
  BY DEF KeepsNames
<1>. QED BY <1>1, <1>2, AlwaysInductive, PTL DEF Spec, OldNamesKeepWorking
=============================================================================
