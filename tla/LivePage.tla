------------------------------ MODULE LivePage ------------------------------
(* The room page of a tab (frontend/src/secret_live_room.ts, live/api.ts)   *)
(* over the registry of LiveRooms: visits, the event source that joins and  *)
(* joins again, and what the page publishes.  A visit is one call of the     *)
(* page's function: its closure outlives the page for as long as an answer  *)
(* or a permission is awaited; `leave` and `tracks` belong to the tab.  One  *)
(* source stands for the four; the connections of a mesh are LiveMesh's.     *)
EXTENDS LiveRooms

CONSTANTS Tab,
          On,           \* the source is published; NoSource is that it is not
          NoPeer,       \* no peer id
          MaxVisits,    \* visits of all tabs (a bound)
          MaxTracks,    \* tracks captured (a bound)
          MaxPosts,     \* POSTs under way at once (a bound)
          MaxTroubles   \* connections that break, requests that fail, restarts (a bound)

ASSUME PageAssumption == /\ Source = {NoSource, On} /\ On # NoSource /\ NoPeer \notin Peer /\ Kind = {}
                         /\ MaxVisits \in Nat /\ MaxTracks \in Nat /\ MaxTroubles \in Nat /\ MaxPosts \in Nat \ {0}

VARIABLES
  at,           \* the visit whose page a tab shows, 0 for another page
  visits,       \* the visits so far
  leave,        \* the visit whose stream `leave` closes, 0 for none
  track,        \* the track in `tracks`, 0 for none
  owner,        \* the visits that asked for the tracks so far
  capturing,    \* tracks that have not been stopped
  posts,        \* the flags on their way to the room
  others,       \* the peer ids of other browsers
  troubles,
  hasty,        \* history: tabs left while something was awaited
  muddled       \* history: peers whose flags overtook one another or got lost

tabVars == <<leave, track, capturing>>
pageVars == <<at, visits, tabVars, owner, posts, troubles, hasty, muddled>>
allVars == <<vars, pageVars, others>>

Visits == 1..Len(visits)
TabOf(v) == visits[v].tab
Connected(v) == visits[v].source = "open" /\ conn[visits[v].peer] = "live"

\* Closing a stream: the server has yet to notice.  What has closed stays closed.
Closes(w) ==
  IF w # 0 /\ Connected(w) THEN Disconnect(visits[w].peer) ELSE UNCHANGED vars
Shut(vs, w) == IF w = 0 THEN vs ELSE [vs EXCEPT ![w].source = "closed"]

\* The flags go to the room when there has been a hello.
Announces(v, self, s) ==
  LET m == [room |-> visits[v].room, from |-> self, sources |-> s] IN
  IF self = NoPeer THEN UNCHANGED <<posts, muddled>>
  ELSE /\ Cardinality(posts) < MaxPosts /\ posts' = posts \cup {m}
       /\ muddled' = IF \E n \in posts : n.from = self THEN muddled \cup {self} ELSE muddled

\* Mutant of DisposeLiveRoom: the tracks are forgotten and not stopped.
DisposeKeepingTracks(t) ==
  /\ leave' = [leave EXCEPT ![t] = 0]
  /\ track' = [track EXCEPT ![t] = 0] /\ UNCHANGED capturing

\* disposeLiveRoom, apart from the stream it closes.
DisposeLiveRoom(t) ==
  /\ leave' = [leave EXCEPT ![t] = 0]
  /\ track' = [track EXCEPT ![t] = 0] /\ capturing' = capturing \ {track[t]}

(* Coming and going. *)

Visit(t, r) == [tab |-> t, room |-> r, source |-> "none", peer |-> NoPeer, self |-> NoPeer,
                sources |-> NoSource, asks |-> 0, shows |-> "joining"]

Enter(t, r) ==
  /\ at[t] = 0 /\ Len(visits) < MaxVisits
  /\ visits' = Append(visits, Visit(t, r))
  /\ at' = [at EXCEPT ![t] = Len(visits) + 1]
  /\ UNCHANGED <<vars, tabVars, owner, posts, troubles, hasty, muddled>>

Awaits(v) == visits[v].source = "none" \/ visits[v].asks > 0

\* A closure that nothing can call any more is garbage.
Forgotten(vs, v) ==
  IF Awaits(v) THEN vs
  ELSE [vs EXCEPT ![v] = [Visit(@.tab, @.room) EXCEPT !.source = "closed"]]

\* The router disposes of the page; "Back" stays in the document.
Exit(t) ==
  /\ at[t] # 0 /\ at' = [at EXCEPT ![t] = 0]
  /\ Closes(leave[t]) /\ visits' = Forgotten(Shut(visits, leave[t]), at[t])
  /\ DisposeLiveRoom(t)
  /\ hasty' = IF Awaits(at[t]) THEN hasty \cup {t} ELSE hasty
  /\ UNCHANGED <<owner, posts, troubles, muddled>>

\* Mutant of Start: the stream there was is not closed.
StartBeside(v) ==
  /\ visits[v].source = "none"
  /\ visits' = [visits EXCEPT ![v].source = "connecting"]
  /\ leave' = [leave EXCEPT ![TabOf(v)] = v]
  /\ UNCHANGED <<vars, at, track, capturing, owner, posts, troubles, hasty, muddled>>

\* The relay list has come, or has not: the stream of the tab makes way for
\* this one.
Start(v) ==
  LET w == leave[TabOf(v)] IN
  /\ visits[v].source = "none"
  /\ Closes(w)
  /\ visits' = [Shut(visits, w) EXCEPT ![v].source = "connecting"]
  /\ leave' = [leave EXCEPT ![TabOf(v)] = v]
  /\ UNCHANGED <<at, track, capturing, owner, posts, troubles, hasty, muddled>>

(* The stream. *)

\* Mutant of Dropped: the page starts over whenever its stream drops.
DroppedForGood(v, source) ==
  LET t == TabOf(v) w == leave[t] vs == [visits EXCEPT ![v].source = source] IN
  /\ Closes(w) /\ DisposeLiveRoom(t)
  /\ visits' = Shut([vs EXCEPT ![v].shows = "reconnecting"], w)
  /\ UNCHANGED <<at, owner, posts, hasty, muddled>>

\* The error handler: with no hello so far the visit is over.  The source tries
\* again by itself when it was not refused.
Dropped(v, source) ==
  LET t == TabOf(v) w == leave[t] vs == [visits EXCEPT ![v].source = source] IN
  /\ IF visits[v].self = NoPeer
     THEN /\ Closes(w) /\ DisposeLiveRoom(t)
          /\ visits' = Shut([vs EXCEPT ![v].shows = "failed"], w)
     ELSE /\ visits' = [vs EXCEPT ![v].shows = "reconnecting"]
          /\ UNCHANGED <<vars, tabVars>>
  /\ UNCHANGED <<at, owner, posts, hasty, muddled>>

Trouble == troubles < MaxTroubles /\ troubles' = troubles + 1

Connect(v) ==
  /\ visits[v].source = "connecting"
  /\ \E p \in Peer, u \in User, title \in Title :
       /\ Join(p, visits[v].room, u, title)
       /\ visits' = [visits EXCEPT ![v] = [@ EXCEPT !.source = "open", !.peer = p]]
  /\ UNCHANGED <<at, tabVars, owner, posts, troubles, hasty, muddled>>

\* A full room answers 400, and an event source does not come back from that.
Refused(v) ==
  /\ visits[v].source = "connecting" /\ Cardinality(Members(visits[v].room)) = Capacity
  /\ Dropped(v, "closed") /\ UNCHANGED troubles

Unreachable(v) == Trouble /\ visits[v].source = "connecting" /\ Dropped(v, "connecting")

\* The page notices that its stream has ended.
Ends(v) ==
  /\ visits[v].source = "open" /\ ~Connected(v)
  /\ Dropped(v, "connecting") /\ UNCHANGED troubles

\* Mutant of Greeted: what is published is not said again.
GreetedUnannounced(v, p) ==
  /\ visits' = [visits EXCEPT ![v] = [@ EXCEPT !.self = p, !.shows = "here"]]
  /\ UNCHANGED <<posts, muddled>>

\* The page has a new id, under which it says what it publishes.
Greeted(v, p) ==
  /\ visits' = [visits EXCEPT ![v] = [@ EXCEPT !.self = p, !.shows = "here"]]
  /\ Announces(v, p, visits[v].sources)

\* Whatever else it hears tells the page that it is in the room.
Changes(v) ==
  /\ visits' = [visits EXCEPT ![v].shows = "here"]
  /\ UNCHANGED <<posts, muddled>>

Reads(v) ==
  LET p == visits[v].peer IN
  /\ Connected(v) /\ Read(p)
  /\ IF Head(stream[p]).type = "hello" THEN Greeted(v, p) ELSE Changes(v)
  /\ UNCHANGED <<at, leave, track, capturing, owner, troubles, hasty>>

(* Publishing. *)

\* Mutant of SetTrack: the track before this one goes on.
SetTrackBeside(v, n, asks) ==
  LET t == TabOf(v) s == IF n = 0 THEN NoSource ELSE On IN
  /\ capturing' = IF n = 0 THEN capturing \ {track[t]} ELSE capturing \cup {n}
  /\ track' = [track EXCEPT ![t] = n]
  /\ visits' = [visits EXCEPT ![v] = [@ EXCEPT !.sources = s, !.asks = asks]]
  /\ Announces(v, visits[v].self, s)

SetTrack(v, n, asks) ==
  LET t == TabOf(v) s == IF n = 0 THEN NoSource ELSE On IN
  /\ capturing' = (capturing \ {track[t]}) \cup ({n} \ {0})
  /\ track' = [track EXCEPT ![t] = n]
  /\ visits' = [visits EXCEPT ![v] = [@ EXCEPT !.sources = s, !.asks = asks]]
  /\ Announces(v, visits[v].self, s)

quiet == <<vars, at, leave, troubles, hasty>>

\* The button: off at once, on when the browser and its user allow it.
Toggle(v) ==
  /\ at[TabOf(v)] = v
  /\ IF track[TabOf(v)] # 0 THEN SetTrack(v, 0, visits[v].asks)
     ELSE /\ visits[v].asks + Len(owner) < MaxTracks
          /\ visits' = [visits EXCEPT ![v].asks = @ + 1]
          /\ UNCHANGED <<track, capturing, posts, muddled>>
  /\ UNCHANGED <<quiet, owner>>

Granted(v) ==
  /\ visits[v].asks > 0 /\ Len(owner) < MaxTracks
  /\ owner' = Append(owner, v)
  /\ SetTrack(v, Len(owner) + 1, visits[v].asks - 1)
  /\ UNCHANGED quiet

Denied(v) ==
  /\ visits[v].asks > 0 /\ visits' = [visits EXCEPT ![v].asks = @ - 1]
  /\ UNCHANGED <<quiet, track, capturing, posts, muddled, owner>>

\* A share is ended from the browser's own bar.
TrackEnded(n) ==
  /\ n \in capturing
  /\ SetTrack(owner[n], 0, visits[owner[n]].asks)
  /\ UNCHANGED <<quiet, owner>>

\* A POST reaches the room, which refuses the flags of somebody not in it.
Delivered(m) ==
  /\ posts' = posts \ {m}
  /\ IF m.from \in Members(m.room) THEN \E u \in User : SetSources(m.room, u, m.from, m.sources)
     ELSE UNCHANGED vars
  /\ UNCHANGED <<at, visits, tabVars, owner, troubles, hasty, muddled>>

Fails(m) ==
  /\ Trouble /\ posts' = posts \ {m} /\ muddled' = muddled \cup {m.from}
  /\ UNCHANGED <<vars, at, visits, tabVars, owner, hasty>>

(* The network and the server. *)

Breaks(v) ==
  /\ Trouble /\ Connected(v) /\ Disconnect(visits[v].peer)
  /\ UNCHANGED <<at, visits, tabVars, owner, posts, hasty, muddled>>

ServerRestarts ==
  /\ Trouble /\ Restart
  /\ UNCHANGED <<at, visits, tabVars, owner, posts, hasty, muddled>>

Notices(p) == Leave(p) /\ UNCHANGED <<pageVars, others>>

\* Somebody in another browser comes and goes.
SomebodyComes(p) ==
  /\ \E r \in Room, u \in User, title \in Title : Join(p, r, u, title)
  /\ others' = others \cup {p} /\ UNCHANGED pageVars
SomebodyGoes(p) == p \in others /\ Disconnect(p) /\ UNCHANGED <<others, pageVars>>

PageInit ==
  /\ Init
  /\ at = [t \in Tab |-> 0] /\ visits = <<>>
  /\ leave = [t \in Tab |-> 0] /\ track = [t \in Tab |-> 0]
  /\ owner = <<>> /\ capturing = {} /\ posts = {} /\ troubles = 0
  /\ others = {} /\ hasty = {} /\ muddled = {}

PageStep ==
  \/ \E t \in Tab : Exit(t) \/ \E r \in Room : Enter(t, r)
  \/ \E v \in Visits : Start(v) \/ Connect(v) \/ Refused(v) \/ Unreachable(v) \/ Ends(v)
                       \/ Breaks(v) \/ Reads(v) \/ Toggle(v) \/ Granted(v) \/ Denied(v)
  \/ \E n \in capturing : TrackEnded(n)
  \/ \E m \in posts : Delivered(m) \/ Fails(m)
  \/ ServerRestarts

PageNext ==
  \/ PageStep /\ UNCHANGED others
  \/ \E p \in Peer : Notices(p) \/ SomebodyComes(p) \/ SomebodyGoes(p)

PageSpec == PageInit /\ [][PageNext]_allVars

(* What should hold of it. *)

\* A tab is in one room at a time, through `leave`: whatever stream is open or
\* trying to be is the one that the next visit or the way out will close, also
\* when the relay lists of two visits come in the other order.
OneStreamPerTab ==
  \A v \in Visits : visits[v].source \in {"connecting", "open"} => leave[TabOf(v)] = v

\* Every camera that is on can be turned off: a track that has not been stopped
\* is the one in `tracks`, however often the button was clicked while the
\* browser asked, and however many visits asked.
TracksAreHeld == \A n \in capturing : track[TabOf(owner[n])] = n

Gone(t) ==
  /\ \A v \in Visits : TabOf(v) = t => visits[v].source \in {"none", "closed"}
  /\ \A n \in capturing : TabOf(owner[n]) # t

\* Whoever leaves a room page is out of the room and publishes nothing, provided
\* nothing was awaited at that moment.
LeavingIsLeaving == \A t \in Tab : at[t] = 0 /\ t \notin hasty => Gone(t)

\* The buttons say what is published, through drops and new meshes.
ButtonsAreTrue ==
  \A t \in Tab :
    at[t] # 0 /\ t \notin hasty /\ visits[at[t]].shows # "failed"
      => (visits[at[t]].sources = On <=> track[t] # 0)

SaysWhatItPublishes(v) ==
  Connected(v) /\ visits[v].self = visits[v].peer /\ (\A m \in posts : m.from # visits[v].self)
    => peers[home[visits[v].self]][visits[v].self].sources = visits[v].sources

\* Once its flags have arrived, the room lists a page with what it publishes,
\* under the id it has after any number of reconnections, provided no two POSTs
\* of one id were under way at once and none failed.
FlagsAreTold == \A v \in Visits : visits[v].self \notin muddled => SaysWhatItPublishes(v)

(* What the code says of itself and does not do. *)

\* "Closing the stream is what tells everyone else you left, and stopping the
\* tracks is what turns the camera light off - neither is optional tidying"
\* (secret_live_room.ts).
LeftIsLeft == \A t \in Tab : at[t] = 0 => Gone(t)
=============================================================================
