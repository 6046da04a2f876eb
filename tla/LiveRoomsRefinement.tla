------------------------ MODULE LiveRoomsRefinement ------------------------
(***************************************************************************)
(* The registry, its streams of changes and the pages that replay them     *)
(* implement LiveMembership: a hello and a train of joined, left and       *)
(* sources frames amount to being shown every membership of the room, once *)
(* and in order.  Signals, the lobby and the rooms' titles are not seen at *)
(* that level.                                                             *)
(***************************************************************************)
EXTENDS LiveRooms

\* The last of the rosters in q, or else v.
Latest(v, q) == IF q = <<>> THEN v ELSE q[Len(q)]

\* The rosters a page will go through as it reads stream s from roster v on: one
\* for each frame that is not a signal.
ToShow(v, s) ==
  LET shows[i \in 0..Len(s)] ==
        IF i = 0 THEN <<>>
        ELSE IF s[i].type = "signal" THEN shows[i - 1]
        ELSE Append(shows[i - 1], Apply(Latest(v, shows[i - 1]), s[i]))
  IN shows[Len(s)]
Owed == [p \in Peer |-> ToShow(view[p], stream[p])]

\* Every value a PeerSummary takes while sequences stay below the number of peers.
BoundedInfo == [user : User, seq : 0..Cardinality(Peer), sources : Source]

Membership == INSTANCE LiveMembership WITH
  Info   <- BoundedInfo,
  member <- peers,
  here   <- Live(Peer),
  owed   <- Owed,
  shown  <- view

\* Whatever the interleaving of joins, departures and source changes with the
\* pages' reading, each page goes through the memberships of its room one by
\* one (state.rs join, set_sources and leave against roster.ts apply).
ImplementsMembership == Membership!Spec
=============================================================================
