-------------------------- MODULE CommitSyncProofs --------------------------
(* What the copy of the commits promises, for every number of accounts,      *)
(* commits, pushes and failures and every size of the table.  An etag is     *)
(* earned because the answer it came with was, row after row and through the *)
(* pruning; and what is earned stays earned, because a row only makes room   *)
(* for Keep that are not older.                                              *)
EXTENDS CommitSync, TLAPS

\* A list of pushes names no commit before it was first pushed.
Pushed(f) == \A c \in Listed(f) : first[c] > 0 /\ first[c] <= f[c]

\* The feeds and the rows are of pushes that happened.
HistoryInv ==
  /\ \A c \in Commit : first[c] <= pushes
  /\ Pushed(commits)
  /\ \A a \in Account : Pushed(feed[a])

\* What is known of the answer at work: its commits are kept, or still to insert.
AnswerInv ==
  sync.stage \in {"storing", "pruned"} =>
    /\ Pushed(sync.answer)
    /\ \A c \in Listed(sync.answer) : Kept(c) \/ (sync.stage = "storing" /\ c \in sync.rows)

\* What is known of the stored etag.
EtagInv == etag # NoTag => Pushed(etag) /\ \A c \in Listed(etag) : Kept(c)

IInv == TypeOK /\ HistoryInv /\ AnswerInv /\ EtagInv

\* The stages of the loop, as the type tells them apart.
LEMMA Stages ==
  ASSUME TypeOK
  PROVE  /\ sync.stage = "storing" => sync.answer \in Feed /\ sync.rows \in SUBSET Commit
         /\ sync.stage = "pruned" => sync.answer \in Feed
         /\ sync.stage = "asking" => sync.account \in Account
BY DEF TypeOK, Idle, Waiting, Storing, Pruned

\* One step keeps the types.
LEMMA TypeStep == TypeOK /\ [Next]_vars => TypeOK'
<1> SUFFICES ASSUME TypeOK, [Next]_vars PROVE TypeOK'
  OBVIOUS
<1>a. ASSUME NEW a \in Account, NEW S \in SUBSET Commit, Push(a, S) PROVE TypeOK'
  BY <1>a DEF TypeOK, Push, Feed, Idle, Waiting, Storing, Pruned
<1>b. ASSUME NEW a \in Account, Expire(a) PROVE TypeOK'
  BY <1>b DEF TypeOK, Expire, Feed, Listed, Idle, Waiting, Storing, Pruned
<1>c. ASSUME NEW a \in Account \cup {NoAccount}, SetGithubUrl(a) PROVE TypeOK'
  BY <1>c DEF TypeOK, SetGithubUrl, github, Idle, Waiting, Storing, Pruned
<1>d. CASE Wakes
  BY <1>d, SyncConstants DEF TypeOK, Wakes, github, Followed, Waiting
<1>e. CASE Answered
  <2>1. feed[sync.account] \in Feed /\ Listed(feed[sync.account]) \in SUBSET Commit
    BY <1>e, Stages DEF Answered, TypeOK, Listed
  <2> QED
    BY <1>e, <2>1 DEF TypeOK, Answered, github, Idle, Storing
<1>f. ASSUME NEW c \in Commit, Insert(c) PROVE TypeOK'
  <2>1. sync.answer \in Feed /\ sync.rows \ {c} \in SUBSET Commit
    BY <1>f, Stages DEF Insert
  <2>2. commits' \in Feed
    BY <1>f, <2>1 DEF Insert, TypeOK, Feed
  <2> QED
    BY <1>f, <2>1, <2>2 DEF TypeOK, Insert, github, Storing
<1>g. CASE Prune
  <2>1. sync.answer \in Feed
    BY <1>g, Stages DEF Prune
  <2>2. commits' \in Feed
    BY <1>g DEF Prune, TypeOK, Feed
  <2> QED
    BY <1>g, <2>1, <2>2 DEF TypeOK, Prune, github, Pruned
<1>h. CASE SaveEtag
  BY <1>h, Stages DEF TypeOK, SaveEtag, github, Idle
<1>i. CASE Fails
  BY <1>i DEF TypeOK, Fails, github, Idle
<1>j. CASE UNCHANGED vars
  BY <1>j DEF TypeOK, vars, github, Idle, Waiting, Storing, Pruned
<1> QED
  BY <1>a, <1>b, <1>c, <1>d, <1>e, <1>f, <1>g, <1>h, <1>i, <1>j DEF Next, Local

\* The time of a first push never changes.
LEMMA FirstStays ==
  ASSUME TypeOK, [Next]_vars, NEW c \in Commit, first[c] > 0
  PROVE  first'[c] = first[c]
<1>1. ASSUME NEW a \in Account, NEW S \in SUBSET Commit, Push(a, S) PROVE first'[c] = first[c]
  BY <1>1 DEF Push, TypeOK, Feed
<1>2. CASE UNCHANGED first
  BY <1>2
<1> QED
  BY <1>1, <1>2 DEF Next, Local, vars, github, Expire, SetGithubUrl, Wakes, Answered, Insert,
     Prune, SaveEtag, Fails

\* A row that is pruned makes room for Keep rows that are not older.
LEMMA PruneKeeps ==
  ASSUME TypeOK, Pushed(commits), Prune, NEW c \in Commit, Kept(c)
  PROVE  Kept(c)'
<1>1. PICK T \in SUBSET Stored :
        Newest(T) /\ commits' = [d \in Commit |-> IF d \in T THEN commits[d] ELSE 0]
  BY DEF Prune
<1>2. T \subseteq Commit /\ Stored' = T /\ \A d \in T : commits'[d] = commits[d]
  BY <1>1 DEF Stored, Listed, TypeOK, Feed
<1>3. first' = first /\ first[c] \in Nat /\ \A d \in Commit : commits[d] \in Nat
  BY DEF Prune, github, TypeOK, Feed
<1>4. CASE T = Stored
  BY <1>2, <1>3, <1>4 DEF Kept
<1>5. CASE Cardinality(T) = Keep /\ \A d \in T, e \in Stored \ T : commits[d] >= commits[e]
  <2>1. ASSUME NEW e \in Stored \ T, commits[e] >= first[c] PROVE Kept(c)'
    <3>1. \A d \in T : commits'[d] >= first'[c]
      BY <2>1, <1>2, <1>3, <1>5 DEF Stored, Listed
    <3> QED
      BY <3>1, <1>2, <1>5 DEF Kept
  <2>2. CASE c \in Stored
    BY <2>1, <2>2, <1>2 DEF Kept, Pushed, Stored
  <2>3. ASSUME NEW S \in SUBSET Stored, Cardinality(S) = Keep,
               \A d \in S : commits[d] >= first[c]
        PROVE  Kept(c)'
    <3>1. CASE S \subseteq T
      BY <3>1, <2>3, <1>2, <1>3 DEF Kept
    <3> QED
      BY <3>1, <2>1, <2>3
  <2> QED
    BY <2>2, <2>3 DEF Kept
<1> QED
  BY <1>1, <1>4, <1>5 DEF Newest

\* What is kept stays kept.
LEMMA KeptStays ==
  ASSUME TypeOK, Pushed(commits), [Next]_vars, NEW c \in Commit, first[c] > 0, Kept(c)
  PROVE  Kept(c)'
<1>1. first'[c] = first[c]
  BY FirstStays
<1>2. CASE UNCHANGED commits
  BY <1>1, <1>2 DEF Kept, Stored, Listed
<1>3. ASSUME NEW d \in Commit, Insert(d) PROVE Kept(c)'
  <2>1. Stored \subseteq Stored' /\ \A e \in Stored : commits'[e] = commits[e]
    BY <1>3 DEF Insert, Stored, Listed, TypeOK, Feed
  <2> QED
    BY <2>1, <1>1 DEF Kept
<1>4. CASE Prune
  BY <1>4, PruneKeeps
<1> QED
  BY <1>2, <1>3, <1>4 DEF Next, Local, vars, github, Push, Expire, SetGithubUrl, Wakes, Answered,
     SaveEtag, Fails

\* Feeds and rows stay lists of pushes that happened.
LEMMA HistoryStep == IInv /\ [Next]_vars => HistoryInv'
<1> SUFFICES ASSUME IInv, [Next]_vars PROVE HistoryInv'
  OBVIOUS
<1> USE DEF IInv
<1>0. \A c \in Commit : first[c] > 0 => first'[c] = first[c]
  BY FirstStays
<1>1. \A c \in Commit : first[c] \in Nat /\ commits[c] \in Nat
  BY DEF TypeOK, Feed
<1>2. CASE UNCHANGED <<pushes, first, feed, commits>>
  BY <1>0, <1>2 DEF HistoryInv, Pushed, Listed
<1>3. ASSUME NEW a \in Account, NEW S \in SUBSET Commit, Push(a, S) PROVE HistoryInv'
  <2>1. Pushed(commits)'
    BY <1>0, <1>3 DEF HistoryInv, Pushed, Listed, Push
  <2>2. \A c \in Commit : first'[c] <= pushes'
    BY <1>3 DEF HistoryInv, Push, TypeOK, Feed
  <2>3. ASSUME NEW b \in Account, NEW c \in Listed(feed'[b])
        PROVE  first'[c] > 0 /\ first'[c] <= feed'[b][c]
    <3>1. first[c] \in Nat /\ feed[b][c] \in Nat /\ pushes \in Nat /\ c \in Commit
      BY <2>3 DEF TypeOK, Feed, Listed
    <3>2. CASE c \in S /\ b = a
      BY <1>3, <3>1, <3>2 DEF HistoryInv, Push, TypeOK, Feed
    <3>3. CASE ~(c \in S /\ b = a)
      <4>1. feed'[b][c] = feed[b][c]
        BY <1>3, <3>1, <3>3 DEF Push, TypeOK, Feed
      <4>2. first[c] > 0 /\ first[c] <= feed[b][c]
        BY <2>3, <4>1, <3>1 DEF HistoryInv, Pushed, Listed
      <4> QED
        BY <4>1, <4>2, <1>0, <3>1
    <3> QED
      BY <3>2, <3>3
  <2> QED
    BY <2>1, <2>2, <2>3 DEF HistoryInv, Pushed
<1>4. ASSUME NEW a \in Account, Expire(a) PROVE HistoryInv'
  BY <1>4 DEF HistoryInv, Pushed, Listed, Expire, TypeOK, Feed
<1>5. ASSUME NEW c \in Commit, Insert(c) PROVE HistoryInv'
  <2>1. Pushed(sync.answer)
    BY <1>5 DEF AnswerInv, Insert
  <2>2. sync.answer \in Feed /\ first' = first /\ feed' = feed
    BY <1>5, Stages DEF Insert, github
  <2>3. Pushed(commits)'
    BY <1>5, <2>1, <2>2 DEF HistoryInv, Pushed, Listed, Stored, Insert, TypeOK, Feed
  <2>4. pushes' = pushes
    BY <1>5 DEF Insert, github
  <2> QED
    BY <2>2, <2>3, <2>4 DEF HistoryInv, Pushed, Listed
<1>6. CASE Prune
  BY <1>6 DEF HistoryInv, Pushed, Listed, Prune, github, TypeOK, Feed
<1> QED
  BY <1>2, <1>3, <1>4, <1>5, <1>6 DEF Next, Local, vars, github, SetGithubUrl, Wakes, Answered,
     SaveEtag, Fails

\* The answer at work is earned row by row.
LEMMA AnswerStep == IInv /\ [Next]_vars => AnswerInv'
<1> SUFFICES ASSUME IInv, [Next]_vars PROVE AnswerInv'
  OBVIOUS
<1> USE DEF IInv
<1>0. \A c \in Commit : first[c] > 0 => first'[c] = first[c]
  BY FirstStays
<1>1. \A c \in Commit : first[c] > 0 /\ Kept(c) => Kept(c)'
  BY KeptStays DEF HistoryInv
<1>2. CASE UNCHANGED sync
  BY <1>0, <1>1, <1>2 DEF AnswerInv, Pushed, Listed
<1>3. CASE sync' = Idle \/ \E a \in Account : sync' = Waiting(a)
  BY <1>3 DEF AnswerInv, Idle, Waiting
<1>4. CASE Answered
  <2>1. Pushed(feed[sync.account])
    BY <1>4, Stages DEF Answered, HistoryInv
  <2>2. CASE sync' = Storing(feed[sync.account], Listed(feed[sync.account]))
    BY <2>1, <2>2, <1>0 DEF AnswerInv, Storing, Pushed, Listed
  <2> QED
    BY <2>2, <1>3, <1>4 DEF Answered
<1>5. ASSUME NEW c \in Commit, Insert(c) PROVE AnswerInv'
  <2>1. /\ sync.stage = "storing" /\ sync' = Storing(sync.answer, sync.rows \ {c})
        /\ sync.answer \in Feed
    BY <1>5, Stages DEF Insert
  <2>2. c \in Listed(sync.answer) => Kept(c)'
    BY <1>5, <2>1 DEF Insert, Kept, Stored, Listed, TypeOK, Feed
  <2> QED
    BY <2>1, <2>2, <1>0, <1>1 DEF AnswerInv, Storing, Pushed, Listed
<1>6. CASE Prune
  <2>1. /\ sync.stage = "storing" /\ sync' = Pruned(sync.answer) /\ sync.rows = {}
    BY <1>6 DEF Prune
  <2> QED
    BY <2>1, <1>0, <1>1 DEF AnswerInv, Pruned, Pushed, Listed
<1> QED
  BY <1>2, <1>3, <1>4, <1>5, <1>6, Stages, SyncConstants
     DEF Next, Local, vars, github, Push, Expire, SetGithubUrl, Wakes, Followed, TypeOK, SaveEtag,
         Fails

\* The stored etag is an answer that was earned, and stays so.
LEMMA EtagStep == IInv /\ [Next]_vars => EtagInv'
<1> SUFFICES ASSUME IInv, [Next]_vars PROVE EtagInv'
  OBVIOUS
<1> USE DEF IInv
<1>0. \A c \in Commit : first[c] > 0 => first'[c] = first[c]
  BY FirstStays
<1>1. \A c \in Commit : first[c] > 0 /\ Kept(c) => Kept(c)'
  BY KeptStays DEF HistoryInv
<1>2. CASE UNCHANGED etag
  BY <1>0, <1>1, <1>2 DEF EtagInv, Pushed, Listed
<1>3. CASE SaveEtag
  BY <1>0, <1>1, <1>3 DEF EtagInv, AnswerInv, SaveEtag, Pushed, Listed
<1> QED
  BY <1>2, <1>3 DEF Next, Local, vars, github, Push, Expire, SetGithubUrl, Wakes, Answered, Insert,
     Prune, Fails

LEMMA InitInv == Init => IInv
BY DEF Init, IInv, TypeOK, HistoryInv, AnswerInv, EtagInv, Feed, Nothing, Pushed, Listed, Idle

\* Every value stays in its type (github.rs).
THEOREM TypeCorrect == Spec => []TypeOK
<1>1. Init => TypeOK
  BY InitInv DEF IInv
<1> QED
  BY <1>1, TypeStep, PTL DEF Spec

\* The stored etag names a feed whose newest commits are stored, whatever failed
\* and whenever the account was changed (github.rs, sync_once).
THEOREM EtagCorrect == Spec => []EtagIsEarned
<1>1. IInv /\ [Next]_vars => IInv'
  BY TypeStep, HistoryStep, AnswerStep, EtagStep DEF IInv
<1>2. IInv => EtagIsEarned
  BY DEF IInv, EtagInv, EtagIsEarned
<1> QED
  BY InitInv, <1>1, <1>2, PTL DEF Spec
=============================================================================
