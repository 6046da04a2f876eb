----------------------------- MODULE LiveRooms -----------------------------
(***************************************************************************)
(* The live-room registry of the backend (live/state.rs) together with the *)
(* event streams it feeds and the roster each browser rebuilds from its    *)
(* stream (live/roster.ts).                                                *)
(*                                                                         *)
(* The registry is one mutex around a map of rooms and a list of lobby     *)
(* watchers, so every operation on it is one atomic step here.  Opening an *)
(* event stream is joining; the response body owns a guard, and dropping   *)
(* that body is leaving.  The browser's end of a connection dies before    *)
(* the server notices (the keepalive write is what finds out), so a peer   *)
(* passes through "lost": it no longer reads, and the room still lists it. *)
(*                                                                         *)
(* What a frame says is kept, how it is encoded is not: a frame is a       *)
(* record, a peer id is drawn from Peer and never drawn twice, and the     *)
(* four source flags are one value of Source.                              *)
(***************************************************************************)
EXTENDS Naturals, Sequences, FiniteSets

CONSTANTS
  Room,         \* room ids a link can name
  Peer,         \* the peer ids (uuids) the server can mint
  User,         \* accounts
  Title,        \* titles a link can carry
  Source,       \* values of the four source flags
  NoSource,     \* the default of Sources: everything off
  Kind,         \* signal kinds the handler lets through
  Watcher,      \* lobby connections
  Capacity,     \* ROOM_CAPACITY
  MaxPending,   \* bound: unread frames at which Relay and SetSources pause
  Absent,       \* no entry: in a map, in a roster, in the room list
  NoView,       \* the roster of a page that has had no hello
  NoRoom        \* the room of a peer id that holds no guard

\* A PeerSummary; the name on a tile is the account's.
Info == [user : User, seq : Nat, sources : Source]

\* A map from peer ids to entries: a room's peers, and a roster.
View == [Peer -> Info \cup {Absent}]

\* A room's own fields, its peers kept apart.
Plate == [title : Title, startedBy : User, nextSeq : Nat]

\* A RoomSummary, and the list of them with Absent for an id that is not open.
Summary  == [title : Title, startedBy : User, people : Nat]
RoomList == [Room -> Summary \cup {Absent}]

ASSUME CapacityAssumption == Capacity \in Nat \ {0}
ASSUME MaxPendingAssumption == MaxPending \in Nat
ASSUME SourceAssumption == NoSource \in Source
\* What one process mints before it stops is finite.
ASSUME PeerAssumption == IsFiniteSet(Peer)
\* The marks are not values of what they stand in for.
ASSUME MarkAssumption ==
  NoRoom \notin Room /\ Absent \notin Info /\ Absent \notin Plate /\ NoView \notin View

VARIABLES
  room,         \* the registry's map of rooms
  peers,        \* the peers map of each room
  conn,         \* life of each peer's connection
  home,         \* the room a peer's guard will take it out of
  stream,       \* frames sent to a peer and not read yet
  view,         \* the roster a peer's page has rebuilt
  lobby,        \* watchers whose sender is in the registry's list
  watch,        \* life of each lobby connection
  lobbyStream,  \* room lists sent to a watcher and not read yet
  lobbyView     \* the room list a watcher's page shows

lobbyVars == <<lobby, watch, lobbyStream, lobbyView>>
vars == <<room, peers, conn, home, stream, view, lobbyVars>>

-----------------------------------------------------------------------------
(* What is said on the wire. *)

Hello      == [type : {"hello"}, self : Peer, seq : Nat, title : Title, roster : View]
Joined     == [type : {"peer-joined"}, peer : Peer, info : Info]
Left       == [type : {"peer-left"}, peer : Peer]
SourcesOut == [type : {"sources"}, from : Peer, sources : Source]
SignalOut  == [type : {"signal"}, from : Peer, kind : Kind]
Frame == Hello \cup Joined \cup Left \cup SourcesOut \cup SignalOut

NoPeers == [p \in Peer |-> Absent]
InView(v) == {p \in Peer : v[p] # Absent}
Without(v, p) == [v EXCEPT ![p] = Absent]

\* Who is in a room's map.
Members(r) == InView(peers[r])

\* Registry::summaries.
Summaries ==
  [r \in Room |-> IF room[r] = Absent THEN Absent
                  ELSE [title |-> room[r].title, startedBy |-> room[r].startedBy,
                        people |-> Cardinality(Members(r))]]

\* Mutant of Apply: a departure is not taken off the roster.
ApplyKeepsLeft(v, f) ==
  CASE f.type = "hello" -> f.roster
    [] f.type = "peer-joined" /\ v # NoView -> [v EXCEPT ![f.peer] = f.info]
    [] OTHER -> v

\* roster.ts `apply`: the page's next roster.  A signal is no roster event, and
\* nothing but a hello means anything before the first hello.
Apply(v, f) ==
  CASE f.type = "hello" -> f.roster
    [] f.type = "peer-joined" /\ v # NoView ->
         IF v[f.peer] = Absent THEN [v EXCEPT ![f.peer] = f.info] ELSE v
    [] f.type = "sources" /\ v # NoView ->
         IF v[f.from] = Absent THEN v ELSE [v EXCEPT ![f.from].sources = f.sources]
    [] f.type = "peer-left" /\ v # NoView -> Without(v, f.peer)
    [] OTHER -> v

-----------------------------------------------------------------------------
(* Sending.  A channel whose receiver is gone swallows what is sent to it,  *)
(* so only the stream of a live peer grows.                                 *)

Live(S) == {p \in S : conn[p] = "live"}

\* Mutant of Announced: a channel that holds one unread frame and drops the rest.
AnnouncedIfIdle(to, f) ==
  [p \in Peer |-> IF p \in Live(to) /\ stream[p] = <<>> THEN <<f>> ELSE stream[p]]

\* The streams after frame f went to each peer of `to` (Room::announce).
Announced(to, f) ==
  [p \in Peer |-> IF p \in Live(to) THEN Append(stream[p], f) ELSE stream[p]]

\* Mutant of TellLobby: the lobby hears of rooms opening and closing only.
TellLobbyOfRooms ==
  /\ lobby' = {w \in lobby : watch[w] = "open"}
  /\ lobbyStream' = [w \in Watcher |->
       IF w \in lobby' /\ (\E r \in Room : (room[r] = Absent) # (room'[r] = Absent))
       THEN Append(lobbyStream[w], Summaries') ELSE lobbyStream[w]]
  /\ UNCHANGED <<watch, lobbyView>>

\* Registry::tell_lobby, once the rooms have changed: the whole list to every
\* watcher, and a watcher whose channel is closed is dropped.
TellLobby ==
  /\ lobby' = {w \in lobby : watch[w] = "open"}
  /\ lobbyStream' = [w \in Watcher |-> IF w \in lobby /\ watch[w] = "open"
                                       THEN Append(lobbyStream[w], Summaries')
                                       ELSE lobbyStream[w]]
  /\ UNCHANGED <<watch, lobbyView>>

\* Bound: a peer with MaxPending unread frames is sent no more signals or
\* sources.  Arrivals and departures are never held back.
HasRoom(S) == \A p \in Live(S) : Len(stream[p]) < MaxPending

-----------------------------------------------------------------------------
(* The registry's operations. *)

\* Mutant of Found: the sequence is the head count, so it is handed out again.
FoundByHeadCount(r, u, t) ==
  [title |-> IF room[r] = Absent THEN t ELSE room[r].title,
   startedBy |-> IF room[r] = Absent THEN u ELSE room[r].startedBy,
   nextSeq |-> Cardinality(Members(r))]

\* Mutant of Found: the link's title is taken on every join.
FoundRetitled(r, u, t) ==
  [title |-> t, startedBy |-> IF room[r] = Absent THEN u ELSE room[r].startedBy,
   nextSeq |-> IF room[r] = Absent THEN 0 ELSE room[r].nextSeq]

\* The room a joiner finds, made on the spot if nobody is in it: the title in
\* the link only matters to the join that opens the room.
Found(r, u, t) ==
  IF room[r] = Absent THEN [title |-> t, startedBy |-> u, nextSeq |-> 0] ELSE room[r]

\* A joiner's entry in the map.
Newcomer(r, u, t) == [user |-> u, seq |-> Found(r, u, t).nextSeq, sources |-> NoSource]

\* Mutant of Greeting: the roster is taken after the joiner is inserted.
GreetingAfterInsert(p, r, u, t) ==
  [type |-> "hello", self |-> p, seq |-> Found(r, u, t).nextSeq,
   title |-> Found(r, u, t).title, roster |-> [peers[r] EXCEPT ![p] = Newcomer(r, u, t)]]

\* The first frame of a joiner's stream: who it is, and who is already here.
Greeting(p, r, u, t) ==
  [type |-> "hello", self |-> p, seq |-> Found(r, u, t).nextSeq,
   title |-> Found(r, u, t).title, roster |-> peers[r]]

\* Live::join, from `room_events`.  A full room answers 400 and changes nothing.
Join(p, r, u, t) ==
  LET arrival == [type |-> "peer-joined", peer |-> p, info |-> Newcomer(r, u, t)] IN
  /\ conn[p] = "unborn"
  /\ Cardinality(Members(r)) < Capacity
  /\ room' = [room EXCEPT ![r] = [Found(r, u, t) EXCEPT !.nextSeq = @ + 1]]
  /\ peers' = [peers EXCEPT ![r][p] = Newcomer(r, u, t)]
  /\ conn' = [conn EXCEPT ![p] = "live"]
  /\ home' = [home EXCEPT ![p] = r]
  /\ stream' = [Announced(Members(r), arrival) EXCEPT ![p] = <<Greeting(p, r, u, t)>>]
  /\ TellLobby
  /\ UNCHANGED view

\* Live::set_sources.  The registry records what a peer says it publishes and
\* tells the others.  A peer that is not in the room, or a caller who is not
\* the account behind it, is refused.
SetSources(r, u, from, s) ==
  /\ from \in Members(r)
  /\ peers[r][from].user = u
  /\ HasRoom(Members(r) \ {from})
  /\ peers' = [peers EXCEPT ![r][from].sources = s]
  /\ stream' = Announced(Members(r) \ {from},
                         [type |-> "sources", from |-> from, sources |-> s])
  /\ UNCHANGED <<room, conn, home, view, lobbyVars>>

\* Mutant of Relay: the sender need not be in the room any more.
RelayAnySender(r, u, from, to, k) ==
  /\ conn[from] # "unborn"
  /\ to \in Members(r)
  /\ HasRoom({to})
  /\ stream' = Announced({to}, [type |-> "signal", from |-> from, kind |-> k])
  /\ UNCHANGED <<room, peers, conn, home, view, lobbyVars>>

\* Live::relay, from `signal`: one offer, answer or candidate to one peer.
Relay(r, u, from, to, k) ==
  /\ from \in Members(r)
  /\ peers[r][from].user = u
  /\ to \in Members(r)
  /\ HasRoom({to})
  /\ stream' = Announced({to}, [type |-> "signal", from |-> from, kind |-> k])
  /\ UNCHANGED <<room, peers, conn, home, view, lobbyVars>>

\* The browser's end of a stream closes: the page is left, the tab is closed,
\* the machine sleeps.  What it had not read is never read.
Disconnect(p) ==
  /\ conn[p] = "live"
  /\ conn' = [conn EXCEPT ![p] = "lost"]
  /\ stream' = [stream EXCEPT ![p] = <<>>]
  /\ view' = [view EXCEPT ![p] = NoView]
  /\ UNCHANGED <<room, peers, home, lobbyVars>>

\* Mutant of Kept: a room outlives its people.
KeptForEver(r, rest) == room

\* A room is its people: the last one out takes it out of the map.
Kept(r, rest) == IF rest = {} THEN [room EXCEPT ![r] = Absent] ELSE room

\* PeerGuard::drop, hence Live::leave: hyper drops the body of a dead
\* connection.
Leave(p) ==
  LET r    == home[p]
      rest == Members(r) \ {p}
  IN
  /\ conn[p] = "lost"
  /\ conn' = [conn EXCEPT ![p] = "gone"]
  /\ home' = [home EXCEPT ![p] = NoRoom]
  /\ IF p \in Members(r)
     THEN /\ peers' = [peers EXCEPT ![r][p] = Absent]
          /\ room' = Kept(r, rest)
          /\ stream' = Announced(rest, [type |-> "peer-left", peer |-> p])
          /\ TellLobby
     ELSE UNCHANGED <<room, peers, stream, lobbyVars>>
  /\ UNCHANGED view

\* Live::watch_lobby: the rooms now, and a place in the list.
WatchLobby(w) ==
  /\ watch[w] = "unborn"
  /\ watch' = [watch EXCEPT ![w] = "open"]
  /\ lobbyStream' = [lobbyStream EXCEPT ![w] = <<Summaries>>]
  /\ lobby' = lobby \cup {w}
  /\ UNCHANGED <<room, peers, conn, home, stream, view, lobbyView>>

\* A lobby page goes away and its response body is dropped.  There is no guard:
\* its sender stays in the list until a send to it fails.
LeaveLobby(w) ==
  /\ watch[w] = "open"
  /\ watch' = [watch EXCEPT ![w] = "closed"]
  /\ lobbyStream' = [lobbyStream EXCEPT ![w] = <<>>]
  /\ lobbyView' = [lobbyView EXCEPT ![w] = NoView]
  /\ UNCHANGED <<room, peers, conn, home, stream, view, lobby>>

\* Mutant of Keepalive: it writes without looking whether the write failed.
KeepaliveBlind == UNCHANGED vars

\* Live::keepalive, every fifteen seconds.  The comment frame says nothing to
\* any page; failing to send it is how a closed watcher is forgotten.
Keepalive ==
  /\ lobby' = {w \in lobby : watch[w] = "open"}
  /\ UNCHANGED <<room, peers, conn, home, stream, view, watch, lobbyStream, lobbyView>>

\* The process restarts.  The registry is only in memory: every stream ends and
\* every room with it.
Restart ==
  /\ room' = [r \in Room |-> Absent]
  /\ peers' = [r \in Room |-> NoPeers]
  /\ conn' = [p \in Peer |-> IF conn[p] = "unborn" THEN "unborn" ELSE "gone"]
  /\ home' = [p \in Peer |-> NoRoom]
  /\ stream' = [p \in Peer |-> <<>>]
  /\ view' = [p \in Peer |-> NoView]
  /\ lobby' = {}
  /\ watch' = [w \in Watcher |-> IF watch[w] = "unborn" THEN "unborn" ELSE "closed"]
  /\ lobbyStream' = [w \in Watcher |-> <<>>]
  /\ lobbyView' = [w \in Watcher |-> NoView]

-----------------------------------------------------------------------------
(* The pages reading. *)

\* A page handles the next frame of its stream.
Read(p) ==
  /\ conn[p] = "live"
  /\ stream[p] # <<>>
  /\ view' = [view EXCEPT ![p] = Apply(view[p], Head(stream[p]))]
  /\ stream' = [stream EXCEPT ![p] = Tail(stream[p])]
  /\ UNCHANGED <<room, peers, conn, home, lobbyVars>>

\* A lobby page shows the next list.
ReadLobby(w) ==
  /\ watch[w] = "open"
  /\ lobbyStream[w] # <<>>
  /\ lobbyView' = [lobbyView EXCEPT ![w] = Head(lobbyStream[w])]
  /\ lobbyStream' = [lobbyStream EXCEPT ![w] = Tail(lobbyStream[w])]
  /\ UNCHANGED <<room, peers, conn, home, stream, view, lobby, watch>>

-----------------------------------------------------------------------------
Init ==
  /\ room = [r \in Room |-> Absent]
  /\ peers = [r \in Room |-> NoPeers]
  /\ conn = [p \in Peer |-> "unborn"]
  /\ home = [p \in Peer |-> NoRoom]
  /\ stream = [p \in Peer |-> <<>>]
  /\ view = [p \in Peer |-> NoView]
  /\ lobby = {}
  /\ watch = [w \in Watcher |-> "unborn"]
  /\ lobbyStream = [w \in Watcher |-> <<>>]
  /\ lobbyView = [w \in Watcher |-> NoView]

Next ==
  \/ \E p \in Peer, r \in Room, u \in User, t \in Title : Join(p, r, u, t)
  \/ \E r \in Room, u \in User, from \in Peer, s \in Source : SetSources(r, u, from, s)
  \/ \E r \in Room, u \in User, from, to \in Peer, k \in Kind : Relay(r, u, from, to, k)
  \/ \E p \in Peer : Disconnect(p) \/ Leave(p) \/ Read(p)
  \/ \E w \in Watcher : WatchLobby(w) \/ LeaveLobby(w) \/ ReadLobby(w)
  \/ Keepalive
  \/ Restart

\* The event loop of a browser handles the frames it is given, hyper drops a
\* body whose connection is dead, and the keepalive task loops for ever.
\* Nobody has to join, speak or go.
Fairness ==
  /\ \A p \in Peer : WF_vars(Read(p)) /\ WF_vars(Leave(p))
  /\ \A w \in Watcher : WF_vars(ReadLobby(w))
  /\ WF_vars(Keepalive)

Spec == Init /\ [][Next]_vars
FairSpec == Spec /\ Fairness

-----------------------------------------------------------------------------
(* What must hold. *)

TypeOK ==
  /\ room \in [Room -> Plate \cup {Absent}]
  /\ peers \in [Room -> View]
  /\ conn \in [Peer -> {"unborn", "live", "lost", "gone"}]
  /\ home \in [Peer -> Room \cup {NoRoom}]
  /\ stream \in [Peer -> Seq(Frame)]
  /\ view \in [Peer -> View \cup {NoView}]
  /\ lobby \subseteq Watcher
  /\ watch \in [Watcher -> {"unborn", "open", "closed"}]
  /\ lobbyStream \in [Watcher -> Seq(RoomList)]
  /\ lobbyView \in [Watcher -> RoomList \cup {NoView}]

\* "A room is its people": a room is in the map exactly while somebody is in
\* it, never holds more than its capacity, and everyone in it still has a guard
\* that will take them out (state.rs, join and leave).
RoomIsItsPeople ==
  \A r \in Room :
    /\ room[r] # Absent <=> Members(r) # {}
    /\ Cardinality(Members(r)) <= Capacity
    /\ \A p \in Members(r) : conn[p] \in {"live", "lost"} /\ home[p] = r

\* A page that has read everything it was sent shows exactly who is in its room
\* besides itself, with the sequences and sources the registry holds: the
\* hello's roster and the changes announced since neither miss nor repeat one
\* (join takes the roster, greets, inserts and announces under one lock).
CaughtUpIsCurrent ==
  \A p \in Peer :
    conn[p] = "live" /\ stream[p] = <<>> => view[p] = Without(peers[home[p]], p)

\* A signal reaches a page when its sender is on the page's roster: after the
\* sender's arrival and before its departure, so that the connection it belongs
\* to can exist (relay checks the sender, the stream keeps the order).
SignalsComeFromTheRoster ==
  \A p \in Peer :
    conn[p] = "live" /\ stream[p] # <<>> /\ Head(stream[p]).type = "signal"
      => \/ Head(stream[p]).from = p
         \/ view[p] # NoView /\ view[p][Head(stream[p]).from] # Absent

\* Of two people who see each other exactly one makes the offer: sequences are
\* never reused while a room lives, so the two pages never both offer, nor both
\* wait (mesh.ts add, negotiation.ts weOffer).
Offers(p, q) == peers[home[p]][p].seq < view[p][q].seq
SeeEachOther(p, q) ==
  /\ conn[p] = "live" /\ view[p] # NoView /\ view[p][q] # Absent
  /\ conn[q] = "live" /\ view[q] # NoView /\ view[q][p] # Absent
OneOfAPairOffers ==
  \A p, q \in Peer : SeeEachOther(p, q) => (Offers(p, q) <=> ~Offers(q, p))

\* A lobby page that has read everything shows the rooms there are, with their
\* titles and head counts: every change of the map tells the lobby, and no open
\* page is ever dropped from the list (tell_lobby, keepalive).
LobbyCaughtUpIsCurrent ==
  \A w \in Watcher :
    watch[w] = "open" /\ lobbyStream[w] = <<>> => lobbyView[w] = Summaries

\* A room keeps the title and the opener it was opened with until its last
\* peer leaves, and its sequences only grow, whoever joins with whatever link.
RoomKeepsItsPlate ==
  [][\A r \in Room :
       room[r] # Absent /\ room'[r] # Absent
         => /\ room'[r].title = room[r].title
            /\ room'[r].startedBy = room[r].startedBy
            /\ room'[r].nextSeq >= room[r].nextSeq]_vars

\* A crashed browser leaves no ghost: once a connection is lost, the pages of
\* everyone who stays come to show a roster without it.
NoGhosts ==
  \A p, q \in Peer :
    conn[p] = "lost" ~> \/ conn[q] # "live"
                        \/ view[q] # NoView /\ view[q][p] = Absent

\* A lobby page that has gone away is forgotten by the registry.
ClosedWatchersAreForgotten ==
  \A w \in Watcher : watch[w] = "closed" ~> w \notin lobby
=============================================================================
