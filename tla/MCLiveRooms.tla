---------------------------- MODULE MCLiveRooms ----------------------------
(* Small instances of LiveRooms for TLC.  `scope` is what a behaviour is     *)
(* about: the talk in one crowded room, or two rooms and the pages that      *)
(* watch the lobby.                                                          *)
EXTENDS LiveRoomsRefinement

CONSTANTS Crowd, Hall   \* the room of the first, the people of the second

VARIABLE scope

FirstTitle == CHOOSE t \in Title : TRUE

\* Nothing is said but who comes and goes.
Silent ==
  /\ \A r \in Room : \A p \in Members(r) : peers[r][p].sources = NoSource
  /\ \A p \in Peer : \A i \in DOMAIN stream[p] : stream[p][i].type \notin {"sources", "signal"}

InCrowd ==
  /\ \A r \in Room \ {Crowd} : room[r] = Absent
  /\ room[Crowd] = Absent \/ room[Crowd].title = FirstTitle
  /\ \A w \in Watcher : watch[w] = "unborn"
InHall == Silent /\ \A p \in Peer \ Hall : conn[p] = "unborn"

InScope == IF scope = "crowd" THEN InCrowd ELSE InHall

\* Ids are only ever compared with one another: they are drawn in order, and
\* the first to join opens the first room.
Drawn(life, next) ==
  \A p \in DOMAIN life : life[p] = "unborn" /\ next[p] # "unborn"
                           => p = CHOOSE q \in DOMAIN life : life[q] = "unborn"
InOrder ==
  /\ Drawn(conn, conn') /\ Drawn(watch, watch')
  /\ (\A p \in Peer : conn[p] = "unborn") =>
       \/ room' = room
       \/ room'[Crowd] # Absent /\ room'[Crowd].title = FirstTitle

RoomsInit == Init /\ scope \in {"crowd", "lobby"}
RoomsNext == Next /\ InOrder /\ UNCHANGED scope /\ InScope'
RoomsSpec == RoomsInit /\ [][RoomsNext]_<<vars, scope>> /\ Fairness
=============================================================================
