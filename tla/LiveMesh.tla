------------------------------ MODULE LiveMesh ------------------------------
(***************************************************************************)
(* The connections of a call (live/mesh.ts) on top of the rooms: each page *)
(* keeps one peer connection per other person, the earlier of a pair       *)
(* offers, and offers, answers and candidates travel up as POSTs of their  *)
(* own and down in the other page's stream.                                *)
(*                                                                         *)
(* A page is one thread.  It gives up control at every await, so reading a *)
(* frame starts what `add` and `signal` do and the steps of Proceed finish *)
(* it, in any order with other frames.  POSTs are separate requests, each  *)
(* looked up in the database before it is relayed, so they overtake one    *)
(* another; one that fails is swallowed.                                   *)
(*                                                                         *)
(* A connection that `remove` closed rejects whatever was awaited on it,   *)
(* and a POST to a peer that has left is refused, so nothing is kept of    *)
(* one that is out of the map.  What a page publishes and the lobby touch  *)
(* no connection, and their steps are left out here.                       *)
(***************************************************************************)
EXTENDS LiveRooms

CONSTANT NoLink   \* no connection in the map

\* What the handler lets through (live/mod.rs signal).
ASSUME KindAssumption == Kind = {"offer", "answer", "ice"}

VARIABLES
  ourSeq,   \* the sequence a page's hello gave it
  links,    \* links[p][q]: p's connection to q
  posts,    \* signalling POSTs on their way
  failed    \* pairs a POST of which has failed

meshVars == <<ourSeq, links, posts, failed>>
allVars == <<vars, meshVars>>

NoLinks == [q \in Peer |-> NoLink]

\* A connection: which end offers, and what the page waits for next - the local
\* description of an offerer ("offering"), the answer ("offered"), the remote
\* description taking effect ("applying"), the answer of an answerer
\* ("answering"), the early candidates being added ("draining"), nothing
\* ("stable").  One candidate per end is followed: sent, waiting in `early`, or
\* added.
Steps == {"offering", "offered", "applying", "answering", "draining", "stable"}
Link == [offers : BOOLEAN, step : Steps, sent : BOOLEAN, early : BOOLEAN, added : BOOLEAN]

\* The mark is no connection.
ASSUME LinkAssumption == NoLink \notin Link

\* mesh.ts open, then `add` or `signal` running up to its first await.
Open(step) ==
  [offers |-> step = "offering", step |-> step,
   sent |-> FALSE, early |-> FALSE, added |-> FALSE]

\* pc.localDescription and pc.remoteDescription are set.
HasLocal(k) ==
  IF k.offers THEN k.step # "offering" ELSE k.step \in {"draining", "stable"}
HasRemote(k) == k.step \in {"answering", "draining", "stable"}

-----------------------------------------------------------------------------
(* Reading a frame. *)

\* Mutant of weOffer: nobody waits for the other's offer.
weOfferAlways(ours, theirs) == TRUE

\* Mutant of weOffer: off by one, two neighbours both wait.
weOfferPastNext(ours, theirs) == ours + 1 < theirs

\* negotiation.ts weOffer.
weOffer(ours, theirs) == ours < theirs

\* mesh.ts add.
Add(map, seq, q, info) ==
  IF map[q] = NoLink /\ weOffer(seq, info.seq)
  THEN [map EXCEPT ![q] = Open("offering")] ELSE map

\* Mutant of Signal: a candidate is put by even when it could be added.
SignalParks(map, q, kind) ==
  CASE kind = "offer" /\ map[q] = NoLink -> [map EXCEPT ![q] = Open("applying")]
    [] kind = "answer" /\ map[q] # NoLink -> [map EXCEPT ![q].step = "applying"]
    [] kind = "ice" /\ map[q] # NoLink -> [map EXCEPT ![q].early = TRUE]
    [] OTHER -> map

\* mesh.ts signal up to its first await: an offer opens the connection, an
\* answer or a candidate without one is ignored, and a candidate waits for the
\* remote description.  Of an offer to a connection that exists nothing is said
\* here: SignalsFindTheirState shows that there is none.
Signal(map, q, kind) ==
  CASE kind = "offer" /\ map[q] = NoLink -> [map EXCEPT ![q] = Open("applying")]
    [] kind = "answer" /\ map[q] # NoLink -> [map EXCEPT ![q].step = "applying"]
    [] kind = "ice" /\ map[q] # NoLink ->
         IF HasRemote(map[q]) THEN [map EXCEPT ![q].added = TRUE]
                              ELSE [map EXCEPT ![q].early = TRUE]
    [] OTHER -> map

\* Mutant of Remove: the connection stays in the map.
RemoveNothing(map, q) == map

\* mesh.ts remove.
Remove(map, q) == [map EXCEPT ![q] = NoLink]

\* The page's handler of each frame; hello makes a new mesh and adds the roster.
Hears(map, f, seq) ==
  CASE f.type = "hello" ->
         [q \in Peer |-> IF f.roster[q] = Absent THEN NoLink
                         ELSE Add(NoLinks, f.seq, q, f.roster[q])[q]]
    [] f.type = "peer-joined" -> Add(map, seq, f.peer, f.info)
    [] f.type = "peer-left"   -> Remove(map, f.peer)
    [] f.type = "signal"      -> Signal(map, f.from, f.kind)
    [] OTHER -> map

Handle(p) ==
  LET f == Head(stream[p]) IN
  /\ Read(p)
  /\ ourSeq' = IF f.type = "hello" THEN [ourSeq EXCEPT ![p] = f.seq] ELSE ourSeq
  /\ links' = [links EXCEPT ![p] = Hears(@, f, ourSeq[p])]
  /\ UNCHANGED <<posts, failed>>

-----------------------------------------------------------------------------
(* What was awaited comes back. *)

Moves(p, q, k, sent) ==
  /\ links' = [links EXCEPT ![p][q] = k]
  /\ posts' = posts \cup sent
  /\ UNCHANGED <<vars, ourSeq, failed>>

Says(p, q, kind) == {[from |-> p, to |-> q, kind |-> kind]}

\* drain: every early candidate is taken off the list and added.
Drained(k) == [k EXCEPT !.step = "draining", !.early = FALSE, !.added = @ \/ k.early]

\* The offer is described and sent; the remote description takes effect, and an
\* answer is made for an offer; the answer is described and the early candidates
\* taken up; they are added, and the answer is sent.
Proceed(p, q) ==
  LET k == links[p][q] IN
  /\ conn[p] = "live"
  /\ k # NoLink
  /\ CASE k.step = "offering" -> Moves(p, q, [k EXCEPT !.step = "offered"], Says(p, q, "offer"))
       [] k.step = "applying" /\ k.offers -> Moves(p, q, Drained(k), {})
       [] k.step = "applying" /\ ~k.offers -> Moves(p, q, [k EXCEPT !.step = "answering"], {})
       [] k.step = "answering" -> Moves(p, q, Drained(k), {})
       [] k.step = "draining" ->
            Moves(p, q, [k EXCEPT !.step = "stable"], IF k.offers THEN {} ELSE Says(p, q, "answer"))
       [] OTHER -> FALSE

\* pc.onicecandidate: once there is a local description a candidate is found.
Gather(p, q) ==
  LET k == links[p][q] IN
  /\ conn[p] = "live"
  /\ k # NoLink
  /\ HasLocal(k) /\ ~k.sent
  /\ Moves(p, q, [k EXCEPT !.sent = TRUE], Says(p, q, "ice"))

-----------------------------------------------------------------------------
(* The requests. *)

\* Mutant of Deliver: a POST is made again although it came through.
DeliverAgain(m) ==
  /\ \E r \in Room, u \in User : Relay(r, u, m.from, m.to, m.kind)
  /\ UNCHANGED meshVars

\* A POST reaches the registry, which relays it or refuses it.
Deliver(m) ==
  /\ posts' = posts \ {m}
  /\ \/ \E r \in Room, u \in User : Relay(r, u, m.from, m.to, m.kind)
     \/ /\ \A r \in Room : ~({m.from, m.to} \subseteq Members(r))
        /\ UNCHANGED vars
  /\ UNCHANGED <<ourSeq, links, failed>>

\* A POST does not get through.  `send` swallows it.
Lose(m) ==
  /\ posts' = posts \ {m}
  /\ failed' = failed \cup {{m.from, m.to}}
  /\ UNCHANGED <<vars, ourSeq, links>>

-----------------------------------------------------------------------------
(* The rooms' own steps. *)

Arrive(p, r, u, t) == Join(p, r, u, t) /\ UNCHANGED meshVars
Depart(p) == Leave(p) /\ UNCHANGED meshVars

\* The page goes, and its connections with it; its POSTs may be on their way.
Close(p) ==
  /\ Disconnect(p)
  /\ links' = [links EXCEPT ![p] = NoLinks]
  /\ UNCHANGED <<ourSeq, posts, failed>>

MeshInit ==
  /\ Init
  /\ ourSeq = [p \in Peer |-> 0]
  /\ links = [p \in Peer |-> NoLinks]
  /\ posts = {}
  /\ failed = {}

MeshNext ==
  \/ \E p \in Peer, r \in Room, u \in User, t \in Title : Arrive(p, r, u, t)
  \/ \E p \in Peer : Close(p) \/ Depart(p) \/ Handle(p)
  \/ \E p, q \in Peer : Proceed(p, q) \/ Gather(p, q)
  \/ \E m \in posts : Deliver(m) \/ Lose(m)

\* The browser settles its promises and runs its event loop, requests are
\* answered, and hyper drops dead bodies.  All that is asked is that one of them
\* happens while any can; a call that nobody joins or leaves for ever has only
\* so many of them.  No candidate has to be found and no request has to fail.
Work ==
  \/ \E p \in Peer : Handle(p) \/ Depart(p)
  \/ \E p, q \in Peer : Proceed(p, q)
  \/ \E m \in posts : Deliver(m)

MeshFairness == WF_allVars(Work)

MeshSpec == MeshInit /\ [][MeshNext]_allVars
FairMeshSpec == MeshSpec /\ MeshFairness

-----------------------------------------------------------------------------
Linked(p, q) == conn[p] = "live" /\ links[p][q] # NoLink

\* No glare: the two ends of a pair never both make an offer, although each
\* decides alone and from a roster that lags (negotiation.ts, weOffer).
NoGlare ==
  \A p, q \in Peer :
    Linked(p, q) /\ Linked(q, p) => ~(links[p][q].offers /\ links[q][p].offers)

\* A page holds connections to people on its roster only: what was under way
\* for somebody when they left never brings their connection back.
ConnectionsAreOnTheRoster ==
  \A p, q \in Peer : Linked(p, q) => view[p] # NoView /\ view[p][q] # Absent

NextFrame(p) == Head(stream[p])
Hearing(p, kind) ==
  conn[p] = "live" /\ stream[p] # <<>> /\ NextFrame(p).type = "signal" /\ NextFrame(p).kind = kind

\* A description always finds its connection in the one state that can take
\* it: an offer none at all, an answer the offer it answers, still waiting.
SignalsFindTheirState ==
  \A p \in Peer :
    LET k == links[p][NextFrame(p).from] IN
    /\ Hearing(p, "offer") => k = NoLink
    /\ Hearing(p, "answer") => k # NoLink /\ k.offers /\ k.step = "offered"

\* Once a connection is made, no candidate it was given is left waiting.
NothingIsLeftEarly ==
  \A p, q \in Peer : Linked(p, q) /\ links[p][q].step = "stable" => ~links[p][q].early

\* Two people who see each other come to be connected at both ends, unless one
\* of them goes or a request between them fails.
PairsConnect ==
  \A p, q \in Peer :
    SeeEachOther(p, q) ~>
      \/ conn[p] # "live" \/ conn[q] # "live"
      \/ {p, q} \in failed
      \/ /\ Linked(p, q) /\ links[p][q].step = "stable"
         /\ Linked(q, p) /\ links[q][p].step = "stable"

\* "Candidates that arrived before the remote description they belong to" are
\* kept (mesh.ts, early): whenever a candidate arrives there is a connection to
\* keep it in.
CandidatesAreKept ==
  \A p \in Peer : Hearing(p, "ice") => links[p][NextFrame(p).from] # NoLink
=============================================================================
