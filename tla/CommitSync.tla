----------------------------- MODULE CommitSync -----------------------------
(* The backend's copy of recent GitHub commits (backend/src/github.rs): a    *)
(* loop that asks for an account's public events unless they are unchanged,  *)
(* stores their commits one statement at a time, prunes the table, and saves *)
(* the etag of what it asked for.  Any statement may fail and the process    *)
(* may stop anywhere; the loop then begins again.  The account is a setting  *)
(* of the profile (site.rs).                                                 *)
EXTENDS Naturals, FiniteSets

CONSTANTS Account, Commit,
          Configured,   \* GITHUB_USERNAME, or NoAccount
          NoAccount,
          NoTag,        \* no etag is stored
          Keep,         \* KEEP_COMMITS
          MaxPushes,    \* pushes to all accounts (a bound)
          MaxMoves,     \* changes of the profile's account (a bound)
          MaxTroubles   \* statements and requests that fail, restarts (a bound)

ASSUME SyncConstants ==
  /\ IsFiniteSet(Commit) /\ Keep \in Nat /\ NoAccount \notin Account
  /\ Configured \in Account \cup {NoAccount}

VARIABLES
  pushes,       \* pushes so far; a push is its own time
  feed,         \* feed[a][c]: when the events of a last list a push of c, or 0
  first,        \* history: when a commit was first pushed, or 0
  githubUrl,    \* the account the profile names
  etag,         \* the stored etag: the feed it was given for, or NoTag
  commits,      \* the table: committed_at of a sha, 0 when it has no row
  sync,         \* what the loop is doing
  moves, troubles

github == <<pushes, feed, first>>
vars == <<github, githubUrl, etag, commits, sync, moves, troubles>>

\* What GitHub answers with, and what its etag stands for.
Feed == [Commit -> Nat]
Nothing == [c \in Commit |-> 0]
Listed(f) == {c \in Commit : f[c] > 0}
Stored == Listed(commits)

\* The loop: asleep, waiting for an account's events, with rows of them still to
\* insert, or with the table pruned.
Idle == [stage |-> "idle"]
Waiting(a) == [stage |-> "asking", account |-> a]
Storing(f, rows) == [stage |-> "storing", answer |-> f, rows |-> rows]
Pruned(f) == [stage |-> "pruned", answer |-> f]

(* GitHub. *)

\* Commits are pushed to an account, for the first time or to one more branch.
Push(a, S) ==
  /\ pushes < MaxPushes /\ pushes' = pushes + 1
  /\ feed' = [feed EXCEPT ![a] = [c \in Commit |-> IF c \in S THEN pushes + 1 ELSE feed[a][c]]]
  /\ first' = [c \in Commit |-> IF c \in S /\ first[c] = 0 THEN pushes + 1 ELSE first[c]]
  /\ UNCHANGED <<githubUrl, etag, commits, sync, moves, troubles>>

\* Old events are not listed for ever.
Expire(a) ==
  \E oldest \in Listed(feed[a]) :
    /\ \A c \in Listed(feed[a]) : feed[a][oldest] <= feed[a][c]
    /\ feed' = [feed EXCEPT ![a] =
                  [c \in Commit |-> IF feed[a][c] = feed[a][oldest] THEN 0 ELSE feed[a][c]]]
    /\ UNCHANGED <<pushes, first, githubUrl, etag, commits, sync, moves, troubles>>

(* The profile. *)

\* update_profile, of whose settings this one is read here.
SetGithubUrl(a) ==
  /\ moves < MaxMoves /\ moves' = moves + 1
  /\ githubUrl' = a
  /\ UNCHANGED <<github, etag, commits, sync, troubles>>

(* The loop. *)

\* resolve_username.
Followed == IF Configured # NoAccount THEN Configured ELSE githubUrl

\* The interval is over, and there is an account to follow.
Wakes ==
  /\ sync = Idle /\ Followed # NoAccount
  /\ sync' = Waiting(Followed)
  /\ UNCHANGED <<github, githubUrl, etag, commits, moves, troubles>>

\* Mutant of Answered: the etag is saved with the answer, before its rows.
AnsweredTooSoon ==
  /\ sync.stage = "asking"
  /\ LET f == feed[sync.account] IN
     /\ sync' = IF etag = f THEN Idle ELSE Storing(f, Listed(f))
     /\ etag' = f
  /\ UNCHANGED <<github, githubUrl, commits, moves, troubles>>

\* 304 when the stored etag is the answer's own, or else the events.
Answered ==
  /\ sync.stage = "asking"
  /\ LET f == feed[sync.account] IN
     sync' = IF etag = f THEN Idle ELSE Storing(f, Listed(f))
  /\ UNCHANGED <<github, githubUrl, etag, commits, moves, troubles>>

\* The rows are inserted as the events list them, the newest first; a sha that
\* has a row keeps it.
Insert(c) ==
  /\ sync.stage = "storing" /\ c \in sync.rows
  /\ \A d \in sync.rows : sync.answer[d] <= sync.answer[c]
  /\ commits' = IF c \in Stored THEN commits ELSE [commits EXCEPT ![c] = sync.answer[c]]
  /\ sync' = Storing(sync.answer, sync.rows \ {c})
  /\ UNCHANGED <<github, githubUrl, etag, moves, troubles>>

\* All rows, or the newest; of equally new ones the database picks.
Newest(T) ==
  \/ T = Stored /\ Cardinality(T) <= Keep
  \/ Cardinality(T) = Keep /\ \A d \in T, e \in Stored \ T : commits[d] >= commits[e]

\* The table is pruned to the newest.
Prune ==
  /\ sync.stage = "storing" /\ sync.rows = {}
  /\ \E T \in SUBSET Stored :
       Newest(T) /\ commits' = [c \in Commit |-> IF c \in T THEN commits[c] ELSE 0]
  /\ sync' = Pruned(sync.answer)
  /\ UNCHANGED <<github, githubUrl, etag, moves, troubles>>

SaveEtag ==
  /\ sync.stage = "pruned"
  /\ etag' = sync.answer /\ sync' = Idle
  /\ UNCHANGED <<github, githubUrl, commits, moves, troubles>>

\* Mutant of Fails: an error ends the loop.
FailsForGood ==
  /\ sync # Idle /\ troubles < MaxTroubles /\ troubles' = troubles + 1
  /\ sync' = [stage |-> "ended"]
  /\ UNCHANGED <<github, githubUrl, etag, commits, moves>>

\* GitHub refuses, a statement fails, or the process stops: what was done stays,
\* and the loop sleeps.
Fails ==
  /\ sync # Idle /\ troubles < MaxTroubles /\ troubles' = troubles + 1
  /\ sync' = Idle
  /\ UNCHANGED <<github, githubUrl, etag, commits, moves>>

Init ==
  /\ pushes = 0 /\ feed = [a \in Account |-> Nothing] /\ first = Nothing
  /\ githubUrl = NoAccount /\ etag = NoTag /\ commits = Nothing
  /\ sync = Idle /\ moves = 0 /\ troubles = 0

\* What the process does by itself; an answer needs GitHub.
Local == Wakes \/ (\E c \in Commit : Insert(c)) \/ Prune \/ SaveEtag

Next ==
  \/ \E a \in Account : Expire(a) \/ \E S \in SUBSET Commit \ {{}} : Push(a, S)
  \/ \E a \in Account \cup {NoAccount} : SetGithubUrl(a)
  \/ Local
  \/ Answered
  \/ Fails

Spec == Init /\ [][Next]_vars

\* The loop goes on, whatever failed, as far as it can by itself.  Nothing says that
\* GitHub answers or the connection breaks: https_get waits without a limit.
FairSpec == Spec /\ WF_vars(Local)

(* What must hold. *)

TypeOK ==
  /\ pushes \in Nat /\ feed \in [Account -> Feed] /\ first \in Feed
  /\ githubUrl \in Account \cup {NoAccount}
  /\ etag \in Feed \cup {NoTag} /\ commits \in Feed
  /\ \/ sync = Idle
     \/ \E a \in Account : sync = Waiting(a)
     \/ \E f \in Feed : sync = Pruned(f) \/ \E rows \in SUBSET Commit : sync = Storing(f, rows)

\* A commit of the feed is stored, or Keep rows are that are not older.
Kept(c) ==
  \/ c \in Stored
  \/ \E S \in SUBSET Stored : Cardinality(S) = Keep /\ \A d \in S : commits[d] >= first[c]

\* The stored etag, with which GitHub answers "not modified", names a feed whose
\* newest commits are stored: a sync that failed or stopped half way is done
\* again, also when the account was changed meanwhile (github.rs, sync_once).
EtagIsEarned == etag # NoTag => \A c \in Listed(etag) : Kept(c)

\* The loop outlives every failure: once the account and its feed rest, what is
\* stored is the answer to what is asked, or a request of the loop has been without
\* an answer ever since (github.rs, spawn_sync).
SyncCatchesUp ==
  \A a \in Account :
    <>[](Followed = a) => <>[](etag = feed[a]) \/ <>[](sync.stage = "asking")
=============================================================================
