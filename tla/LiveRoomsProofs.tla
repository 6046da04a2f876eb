--------------------------- MODULE LiveRoomsProofs ---------------------------
(***************************************************************************)
(* Theorems about LiveRooms, for any finite number of connections and any  *)
(* rooms, accounts, titles, sources and lobby pages; the last of them is   *)
(* that the registry, its streams and the pages implement LiveMembership.  *)
(***************************************************************************)
EXTENDS LiveRoomsRefinement, FiniteSetTheorems, TLAPS

USE CapacityAssumption, MaxPendingAssumption, SourceAssumption, PeerAssumption,
    MarkAssumption

-----------------------------------------------------------------------------
(* Operators. *)

LEMMA MembersFinite ==
  ASSUME NEW r PROVE IsFiniteSet(Members(r)) /\ Cardinality(Members(r)) \in Nat
<1>1. Members(r) \subseteq Peer BY DEF Members, InView
<1>2. IsFiniteSet(Members(r)) BY <1>1, FS_Subset
<1>. QED BY <1>2, FS_CardinalityType

LEMMA AnnouncedType ==
  ASSUME stream \in [Peer -> Seq(Frame)], NEW to, NEW f \in Frame
  PROVE  Announced(to, f) \in [Peer -> Seq(Frame)]
BY DEF Announced

LEMMA SummariesType ==
  ASSUME room \in [Room -> Plate \cup {Absent}]
  PROVE  Summaries \in RoomList
BY MembersFinite DEF Summaries, RoomList, Summary, Plate

LEMMA ApplyType ==
  ASSUME NEW v \in View \cup {NoView}, NEW f \in Frame
  PROVE  Apply(v, f) \in View \cup {NoView}
<1>1. CASE f.type = "hello"
  BY <1>1 DEF Apply, Frame, Hello, Joined, Left, SourcesOut, SignalOut
<1>2. CASE f.type = "peer-joined"
  BY <1>2 DEF Apply, Frame, Hello, Joined, Left, SourcesOut, SignalOut, View, Info
<1>3. CASE f.type = "sources"
  BY <1>3 DEF Apply, Frame, Hello, Joined, Left, SourcesOut, SignalOut, View, Info
<1>4. CASE f.type = "peer-left"
  BY <1>4 DEF Apply, Frame, Hello, Joined, Left, SourcesOut, SignalOut, View, Without
<1>5. CASE f.type = "signal"
  BY <1>5 DEF Apply
<1>. QED
  BY <1>1, <1>2, <1>3, <1>4, <1>5
     DEF Frame, Hello, Joined, Left, SourcesOut, SignalOut

LEMMA FoundType ==
  ASSUME room \in [Room -> Plate \cup {Absent}], NEW r \in Room, NEW u \in User, NEW t \in Title
  PROVE  /\ Found(r, u, t) \in Plate
         /\ Newcomer(r, u, t) \in Info
BY DEF Found, Newcomer, Plate, Info

-----------------------------------------------------------------------------
(* Types. *)

LEMMA TellLobbyType ==
  ASSUME TypeOK, TellLobby, room' \in [Room -> Plate \cup {Absent}]
  PROVE  /\ lobby' \subseteq Watcher
         /\ watch' \in [Watcher -> {"unborn", "open", "closed"}]
         /\ lobbyStream' \in [Watcher -> Seq(RoomList)]
         /\ lobbyView' \in [Watcher -> RoomList \cup {NoView}]
<1>1. Summaries' \in RoomList
  <2>1. ASSUME NEW r \in Room PROVE Cardinality(Members(r)') \in Nat
    <3>1. Members(r)' \subseteq Peer BY DEF Members, InView
    <3>2. IsFiniteSet(Members(r)') BY <3>1, FS_Subset
    <3>. QED BY <3>2, FS_CardinalityType
  <2>. QED BY <2>1 DEF Summaries, RoomList, Summary, Plate
<1>. QED BY <1>1 DEF TypeOK, TellLobby

LEMMA InitType == Init => TypeOK
BY DEF Init, TypeOK, NoPeers, View

LEMMA JoinType ==
  ASSUME TypeOK, NEW p \in Peer, NEW r \in Room, NEW u \in User, NEW t \in Title,
         Join(p, r, u, t)
  PROVE  TypeOK'
<1>1. Found(r, u, t) \in Plate /\ Newcomer(r, u, t) \in Info
  BY FoundType DEF TypeOK
<1>2. room' \in [Room -> Plate \cup {Absent}]
  <2>1. [Found(r, u, t) EXCEPT !.nextSeq = @ + 1] \in Plate
    BY <1>1 DEF Plate
  <2>. QED BY <2>1 DEF Join, TypeOK
<1>3. peers' \in [Room -> View]
  BY <1>1 DEF Join, TypeOK, View
<1>4. Greeting(p, r, u, t) \in Frame
  BY <1>1 DEF Greeting, Frame, Hello, Plate, TypeOK
<1>5. [type |-> "peer-joined", peer |-> p, info |-> Newcomer(r, u, t)] \in Frame
  BY <1>1 DEF Frame, Joined
<1>6. stream' \in [Peer -> Seq(Frame)]
  BY <1>4, <1>5, AnnouncedType DEF Join, TypeOK
<1>. QED
  BY <1>2, <1>3, <1>6, TellLobbyType DEF Join, TypeOK

LEMMA SetSourcesType ==
  ASSUME TypeOK, NEW r \in Room, NEW u \in User, NEW from \in Peer, NEW s \in Source,
         SetSources(r, u, from, s)
  PROVE  TypeOK'
<1>1. peers' \in [Room -> View]
  <2>1. peers[r][from] \in Info
    BY DEF SetSources, TypeOK, View, Members, InView
  <2>2. [peers[r][from] EXCEPT !.sources = s] \in Info
    BY <2>1 DEF Info
  <2>. QED BY <2>2 DEF SetSources, TypeOK, View
<1>2. [type |-> "sources", from |-> from, sources |-> s] \in Frame
  BY DEF Frame, SourcesOut
<1>3. stream' \in [Peer -> Seq(Frame)]
  BY <1>2, AnnouncedType DEF SetSources, TypeOK
<1>. QED BY <1>1, <1>3 DEF SetSources, TypeOK, lobbyVars

LEMMA RelayType ==
  ASSUME TypeOK, NEW r \in Room, NEW u \in User, NEW from \in Peer, NEW to \in Peer,
         NEW k \in Kind, Relay(r, u, from, to, k)
  PROVE  TypeOK'
<1>1. [type |-> "signal", from |-> from, kind |-> k] \in Frame
  BY DEF Frame, SignalOut
<1>2. stream' \in [Peer -> Seq(Frame)]
  BY <1>1, AnnouncedType DEF Relay, TypeOK
<1>. QED BY <1>2 DEF Relay, TypeOK, lobbyVars

LEMMA DisconnectType ==
  ASSUME TypeOK, NEW p \in Peer, Disconnect(p) PROVE TypeOK'
BY DEF Disconnect, TypeOK, lobbyVars

LEMMA LeaveType ==
  ASSUME TypeOK, NEW p \in Peer, Leave(p) PROVE TypeOK'
<1>. DEFINE r == home[p]
            rest == Members(r) \ {p}
<1>1. CASE p \in Members(r)
  <2>1. peers' \in [Room -> View]
    <3>1. peers' = [peers EXCEPT ![r][p] = Absent]
      BY <1>1 DEF Leave
    <3>2. CASE r \in Room
      <4>1. [peers[r] EXCEPT ![p] = Absent] \in View
        BY <3>2 DEF TypeOK, View
      <4>. QED BY <3>1, <3>2, <4>1 DEF TypeOK
    <3>3. CASE r \notin Room
      BY <3>1, <3>3 DEF TypeOK
    <3>. QED BY <3>2, <3>3
  <2>2. room' \in [Room -> Plate \cup {Absent}]
    BY <1>1 DEF Leave, TypeOK, Kept
  <2>3. [type |-> "peer-left", peer |-> p] \in Frame
    BY DEF Frame, Left
  <2>4. stream' \in [Peer -> Seq(Frame)]
    BY <1>1, <2>3, AnnouncedType DEF Leave, TypeOK
  <2>5. TellLobby
    BY <1>1 DEF Leave
  <2>. QED BY <2>1, <2>2, <2>4, <2>5, TellLobbyType DEF Leave, TypeOK
<1>2. CASE p \notin Members(r)
  BY <1>2 DEF Leave, TypeOK, lobbyVars
<1>. QED BY <1>1, <1>2

LEMMA LobbyType ==
  ASSUME TypeOK, NEW w \in Watcher, WatchLobby(w) \/ LeaveLobby(w) \/ ReadLobby(w)
  PROVE  TypeOK'
<1>1. CASE WatchLobby(w)
  BY <1>1, SummariesType DEF WatchLobby, TypeOK
<1>2. CASE LeaveLobby(w)
  BY <1>2 DEF LeaveLobby, TypeOK
<1>3. CASE ReadLobby(w)
  BY <1>3 DEF ReadLobby, TypeOK
<1>. QED BY <1>1, <1>2, <1>3

LEMMA ReadType ==
  ASSUME TypeOK, NEW p \in Peer, Read(p) PROVE TypeOK'
<1>1. Head(stream[p]) \in Frame /\ Tail(stream[p]) \in Seq(Frame)
  BY DEF Read, TypeOK
<1>2. Apply(view[p], Head(stream[p])) \in View \cup {NoView}
  BY <1>1, ApplyType DEF TypeOK
<1>. QED BY <1>1, <1>2 DEF Read, TypeOK, lobbyVars

LEMMA RestartType == ASSUME TypeOK, Restart PROVE TypeOK'
BY DEF Restart, TypeOK, NoPeers, View

LEMMA NextType == TypeOK /\ [Next]_vars => TypeOK'
<1>. SUFFICES ASSUME TypeOK, [Next]_vars PROVE TypeOK'
  OBVIOUS
<1>1. ASSUME NEW p \in Peer, Disconnect(p) \/ Leave(p) \/ Read(p) PROVE TypeOK'
  BY <1>1, DisconnectType, LeaveType, ReadType
<1>2. CASE Keepalive
  BY <1>2 DEF Keepalive, TypeOK
<1>3. CASE UNCHANGED vars
  BY <1>3 DEF vars, lobbyVars, TypeOK
<1>. QED
  BY <1>1, <1>2, <1>3, JoinType, SetSourcesType, RelayType, LobbyType, RestartType DEF Next

\* Every variable keeps its type, however many connections, rooms and pages.
THEOREM TypeCorrect == Spec => []TypeOK
BY InitType, NextType, PTL DEF Spec

-----------------------------------------------------------------------------
(* Who is in which room.                                                     *)

\* A connection that has not ended is in the room its guard names.
Homes ==
  \A p \in Peer :
    conn[p] \in {"live", "lost"} => \E r \in Room : home[p] = r /\ p \in Members(r)

\* Sequences in a room are distinct, and the next one is above them all.
Sequences ==
  \A r \in Room : \A p \in Members(r) :
    /\ peers[r][p].seq < room[r].nextSeq
    /\ \A q \in Members(r) : p # q => peers[r][p].seq # peers[r][q].seq

Structure == Homes /\ RoomIsItsPeople /\ Sequences

LEMMA MemberInfo ==
  ASSUME TypeOK, NEW r \in Room, NEW p \in Members(r)
  PROVE  p \in Peer /\ peers[r][p] \in Info /\ peers[r][p] # Absent
BY DEF TypeOK, View, Members, InView

LEMMA InitStructure == Init => Structure
<1>. SUFFICES ASSUME Init PROVE Structure
  OBVIOUS
<1>1. \A r \in Room : Members(r) = {}
  BY DEF Init, Members, InView, NoPeers
<1>2. Homes
  BY DEF Init, Homes
<1>3. RoomIsItsPeople
  <2>1. \A r \in Room : room[r] = Absent /\ Cardinality(Members(r)) = 0
    BY <1>1, FS_EmptySet DEF Init
  <2>. QED BY <1>1, <2>1 DEF RoomIsItsPeople
<1>4. Sequences
  BY <1>1 DEF Sequences
<1>. QED BY <1>2, <1>3, <1>4 DEF Structure

\* What changes in the rooms when p joins r.
LEMMA JoinEffect ==
  ASSUME TypeOK, Structure, NEW p \in Peer, NEW r \in Room, NEW u \in User,
         NEW t \in Title, Join(p, r, u, t)
  PROVE  /\ \A s \in Room : p \notin Members(s)
         /\ Members(r)' = Members(r) \cup {p}
         /\ \A s \in Room \ {r} : Members(s)' = Members(s)
         /\ \A s \in Room : \A q \in Peer \ {p} : peers'[s][q] = peers[s][q]
         /\ peers'[r][p] = Newcomer(r, u, t)
         /\ \A s \in Room \ {r} : peers'[s] = peers[s] /\ room'[s] = room[s]
         /\ room'[r] = [Found(r, u, t) EXCEPT !.nextSeq = @ + 1]
<1>1. \A s \in Room : p \notin Members(s)
  BY DEF Structure, RoomIsItsPeople, Join
<1>2. Newcomer(r, u, t) # Absent
  BY FoundType DEF TypeOK
<1>3. /\ peers' = [peers EXCEPT ![r] = [peers[r] EXCEPT ![p] = Newcomer(r, u, t)]]
      /\ peers \in [Room -> View]
  BY DEF Join, TypeOK
<1>4. /\ \A s \in Room \ {r} : peers'[s] = peers[s]
      /\ peers'[r] = [peers[r] EXCEPT ![p] = Newcomer(r, u, t)]
  BY <1>3
<1>5. \A q \in Peer : peers'[r][q] = IF q = p THEN Newcomer(r, u, t) ELSE peers[r][q]
  BY <1>3, <1>4 DEF View
<1>6. Members(r)' = Members(r) \cup {p}
  BY <1>2, <1>5 DEF Members, InView
<1>7. \A s \in Room \ {r} : Members(s)' = Members(s)
  BY <1>4 DEF Members, InView
<1>. QED
  BY <1>1, <1>4, <1>5, <1>6, <1>7 DEF Join, TypeOK

LEMMA JoinStructure ==
  ASSUME TypeOK, Structure, NEW p \in Peer, NEW r \in Room, NEW u \in User,
         NEW t \in Title, Join(p, r, u, t)
  PROVE  Structure'
<1>. DEFINE n == Newcomer(r, u, t)
            f == Found(r, u, t)
<1>1. f \in Plate /\ n \in Info /\ n.seq = f.nextSeq
  BY FoundType DEF TypeOK, Newcomer
<1>2. /\ \A s \in Room : p \notin Members(s)
      /\ Members(r)' = Members(r) \cup {p}
      /\ \A s \in Room \ {r} : Members(s)' = Members(s)
      /\ \A s \in Room : \A q \in Peer \ {p} : peers'[s][q] = peers[s][q]
      /\ peers'[r][p] = n
      /\ \A s \in Room \ {r} : peers'[s] = peers[s] /\ room'[s] = room[s]
      /\ room'[r] = [f EXCEPT !.nextSeq = @ + 1]
  BY JoinEffect
<1>3. /\ conn' = [conn EXCEPT ![p] = "live"] /\ home' = [home EXCEPT ![p] = r]
      /\ conn[p] = "unborn" /\ Cardinality(Members(r)) < Capacity
  BY DEF Join
<1>. HIDE DEF n, f
<1>4. Homes'
  <2>. SUFFICES ASSUME NEW q \in Peer, conn'[q] \in {"live", "lost"}
                PROVE  \E s \in Room : home'[q] = s /\ q \in Members(s)'
    BY DEF Homes
  <2>1. CASE q = p
    BY <2>1, <1>2, <1>3 DEF TypeOK
  <2>2. CASE q # p
    <3>1. conn[q] \in {"live", "lost"} /\ home'[q] = home[q]
      BY <2>2, <1>3 DEF TypeOK
    <3>2. PICK s \in Room : home[q] = s /\ q \in Members(s)
      BY <3>1 DEF Structure, Homes
    <3>. QED BY <3>1, <3>2, <1>2
  <2>. QED BY <2>1, <2>2
<1>5. RoomIsItsPeople'
  <2>. SUFFICES ASSUME NEW s \in Room
                PROVE  /\ room'[s] # Absent <=> Members(s)' # {}
                       /\ Cardinality(Members(s)') <= Capacity
                       /\ \A q \in Members(s)' : conn'[q] \in {"live", "lost"} /\ home'[q] = s
    BY DEF RoomIsItsPeople
  <2>1. CASE s = r
    <3>1. room'[r] \in Plate
      BY <1>1, <1>2 DEF Plate
    <3>2. Cardinality(Members(r) \cup {p}) = Cardinality(Members(r)) + 1
      BY <1>2, MembersFinite, FS_AddElement
    <3>3. Cardinality(Members(r)') <= Capacity
      BY <1>2, <1>3, <3>2, MembersFinite
    <3>4. \A q \in Members(r)' : conn'[q] \in {"live", "lost"} /\ home'[q] = r
      <4>. TAKE q \in Members(r)'
      <4>1. q \in Peer BY DEF Members, InView
      <4>2. CASE q = p BY <4>1, <4>2, <1>3 DEF TypeOK
      <4>3. CASE q \in Members(r)
        BY <4>1, <4>3, <1>2, <1>3 DEF TypeOK, Structure, RoomIsItsPeople
      <4>. QED BY <4>2, <4>3, <1>2
    <3>. QED BY <2>1, <3>1, <3>3, <3>4, <1>2
  <2>2. CASE s # r
    <3>1. Members(s)' = Members(s) /\ room'[s] = room[s] /\ p \notin Members(s)
      BY <2>2, <1>2
    <3>2. \A q \in Members(s) : q \in Peer /\ q # p
      BY <3>1 DEF Members, InView
    <3>. QED BY <3>1, <3>2, <1>3 DEF TypeOK, Structure, RoomIsItsPeople
  <2>. QED BY <2>1, <2>2
<1>6. Sequences'
  <2>. SUFFICES ASSUME NEW s \in Room, NEW q \in Members(s)', NEW x \in Members(s)'
                PROVE  /\ peers'[s][q].seq < room'[s].nextSeq
                       /\ q # x => peers'[s][q].seq # peers'[s][x].seq
    BY DEF Sequences
  <2>1. CASE s = r
    <3>1. room'[r].nextSeq = f.nextSeq + 1 /\ f.nextSeq \in Nat
      BY <1>1, <1>2 DEF Plate
    <3>2. ASSUME NEW y \in Members(r)
          PROVE  peers'[r][y] = peers[r][y] /\ peers[r][y].seq \in Nat /\ peers[r][y].seq < f.nextSeq
      <4>1. y \in Peer /\ y # p /\ peers[r][y] \in Info
        BY <1>2, MemberInfo
      <4>2. room[r] # Absent
        BY DEF Structure, RoomIsItsPeople
      <4>3. f = room[r]
        BY <4>2 DEF f, Found
      <4>. QED BY <4>1, <4>3, <1>2 DEF Structure, Sequences, Info
    <3>3. peers'[r][p].seq = f.nextSeq
      BY <1>1, <1>2
    <3>. QED BY <2>1, <1>2, <3>1, <3>2, <3>3 DEF Structure, Sequences
  <2>2. CASE s # r
    <3>1. Members(s)' = Members(s) /\ room'[s] = room[s] /\ peers'[s] = peers[s]
      BY <2>2, <1>2
    <3>. QED BY <3>1 DEF Structure, Sequences
  <2>. QED BY <2>1, <2>2
<1>. QED BY <1>4, <1>5, <1>6 DEF Structure

LEMMA SourcesEffect ==
  ASSUME TypeOK, Structure, NEW r \in Room, NEW u \in User, NEW from \in Peer,
         NEW s \in Source, SetSources(r, u, from, s)
  PROVE  /\ \A x \in Room : Members(x)' = Members(x)
         /\ \A x \in Room : \A q \in Peer : peers'[x][q].seq = peers[x][q].seq
         /\ \A x \in Room : \A q \in Peer \ {from} : peers'[x][q] = peers[x][q]
         /\ peers'[r] = [peers[r] EXCEPT ![from].sources = s]
         /\ \A x \in Room \ {r} : peers'[x] = peers[x]
<1>. DEFINE old == peers[r][from]
            new == [old EXCEPT !.sources = s]
<1>1. old \in Info
  BY MemberInfo DEF SetSources
<1>2. new \in Info /\ new.seq = old.seq /\ new # Absent /\ old # Absent
  BY <1>1 DEF Info
<1>3. peers' = [peers EXCEPT ![r] = [peers[r] EXCEPT ![from] = new]] /\ peers \in [Room -> View]
  BY DEF SetSources, TypeOK
<1>4. /\ peers'[r] = [peers[r] EXCEPT ![from] = new]
      /\ \A x \in Room \ {r} : peers'[x] = peers[x]
  BY <1>3
<1>5. \A q \in Peer : peers'[r][q] = IF q = from THEN new ELSE peers[r][q]
  BY <1>3, <1>4 DEF View
<1>6. Members(r)' = Members(r)
  BY <1>2, <1>5 DEF Members, InView
<1>7. \A x \in Room \ {r} : Members(x)' = Members(x)
  BY <1>4 DEF Members, InView
<1>8. \A q \in Peer : peers'[r][q].seq = peers[r][q].seq
  BY <1>2, <1>5
<1>. HIDE DEF new, old
<1>9. peers'[r] = [peers[r] EXCEPT ![from].sources = s]
  BY <1>4 DEF new, old
<1>. QED BY <1>4, <1>5, <1>6, <1>7, <1>8, <1>9

LEMMA SourcesStructure ==
  ASSUME TypeOK, Structure, NEW r \in Room, NEW u \in User, NEW from \in Peer,
         NEW s \in Source, SetSources(r, u, from, s)
  PROVE  Structure'
<1>1. /\ \A x \in Room : Members(x)' = Members(x)
      /\ \A x \in Room : \A q \in Peer : peers'[x][q].seq = peers[x][q].seq
  BY SourcesEffect
<1>2. UNCHANGED <<room, conn, home>>
  BY DEF SetSources
<1>3. Homes'
  BY <1>1, <1>2 DEF Structure, Homes
<1>4. RoomIsItsPeople'
  BY <1>1, <1>2 DEF Structure, RoomIsItsPeople
<1>5. Sequences'
  <2>1. \A x \in Room : \A q \in Members(x) : q \in Peer
    BY DEF Members, InView
  <2>. QED BY <1>1, <1>2, <2>1 DEF Structure, Sequences
<1>. QED BY <1>3, <1>4, <1>5 DEF Structure

LEMMA DisconnectStructure ==
  ASSUME TypeOK, Structure, NEW p \in Peer, Disconnect(p) PROVE Structure'
<1>1. /\ UNCHANGED <<room, peers, home>>
      /\ conn' = [conn EXCEPT ![p] = "lost"] /\ conn[p] = "live"
  BY DEF Disconnect
<1>2. \A x \in Room : Members(x)' = Members(x)
  BY <1>1 DEF Members
<1>3. \A q \in Peer : conn'[q] \in {"live", "lost"} <=> conn[q] \in {"live", "lost"}
  BY <1>1 DEF TypeOK
<1>4. \A x \in Room : \A q \in Members(x) : q \in Peer
  BY DEF Members, InView
<1>5. Homes'
  BY <1>1, <1>2, <1>3 DEF Structure, Homes
<1>6. RoomIsItsPeople'
  BY <1>1, <1>2, <1>3, <1>4 DEF Structure, RoomIsItsPeople
<1>7. Sequences'
  BY <1>1, <1>2 DEF Structure, Sequences
<1>. QED BY <1>5, <1>6, <1>7 DEF Structure

\* A guard always finds its peer, so the early returns of `leave` are not taken.
LEMMA LeaveEffect ==
  ASSUME TypeOK, Structure, NEW p \in Peer, Leave(p)
  PROVE  \E r \in Room :
           /\ home[p] = r /\ p \in Members(r)
           /\ Members(r)' = Members(r) \ {p}
           /\ \A s \in Room \ {r} : Members(s)' = Members(s) /\ p \notin Members(s)
           /\ \A s \in Room \ {r} : peers'[s] = peers[s] /\ room'[s] = room[s]
           /\ peers'[r] = Without(peers[r], p)
           /\ room'[r] = IF Members(r) \ {p} = {} THEN Absent ELSE room[r]
           /\ stream' = Announced(Members(r) \ {p}, [type |-> "peer-left", peer |-> p])
<1>1. PICK r \in Room : home[p] = r /\ p \in Members(r)
  BY DEF Leave, Structure, Homes
<1>2. /\ peers' = [peers EXCEPT ![r] = [peers[r] EXCEPT ![p] = Absent]]
      /\ peers \in [Room -> View]
      /\ room' = Kept(r, Members(r) \ {p})
      /\ stream' = Announced(Members(r) \ {p}, [type |-> "peer-left", peer |-> p])
  BY <1>1 DEF Leave, TypeOK
<1>3. peers'[r] = Without(peers[r], p) /\ \A s \in Room \ {r} : peers'[s] = peers[s]
  BY <1>2 DEF Without
<1>4. Members(r)' = Members(r) \ {p}
  BY <1>2, <1>3 DEF Members, InView, Without, View
<1>5. \A s \in Room \ {r} : Members(s)' = Members(s)
  BY <1>3 DEF Members, InView
<1>6. \A s \in Room \ {r} : p \notin Members(s)
  BY <1>1 DEF Structure, RoomIsItsPeople
<1>7. /\ \A s \in Room \ {r} : room'[s] = room[s]
      /\ room'[r] = IF Members(r) \ {p} = {} THEN Absent ELSE room[r]
  BY <1>2 DEF Kept, TypeOK
<1>. QED BY <1>1, <1>2, <1>3, <1>4, <1>5, <1>6, <1>7

LEMMA LeaveStructure ==
  ASSUME TypeOK, Structure, NEW p \in Peer, Leave(p) PROVE Structure'
<1>1. PICK r \in Room :
        /\ home[p] = r /\ p \in Members(r)
        /\ Members(r)' = Members(r) \ {p}
        /\ \A s \in Room \ {r} : Members(s)' = Members(s) /\ p \notin Members(s)
        /\ \A s \in Room \ {r} : peers'[s] = peers[s] /\ room'[s] = room[s]
        /\ peers'[r] = Without(peers[r], p)
        /\ room'[r] = IF Members(r) \ {p} = {} THEN Absent ELSE room[r]
  BY LeaveEffect
<1>2. conn' = [conn EXCEPT ![p] = "gone"] /\ home' = [home EXCEPT ![p] = NoRoom]
  BY DEF Leave
<1>3. \A s \in Room : \A q \in Members(s) : q \in Peer
  BY DEF Members, InView
<1>4. Homes'
  <2>. SUFFICES ASSUME NEW q \in Peer, conn'[q] \in {"live", "lost"}
                PROVE  \E s \in Room : home'[q] = s /\ q \in Members(s)'
    BY DEF Homes
  <2>1. q # p /\ conn[q] \in {"live", "lost"} /\ home'[q] = home[q]
    BY <1>2 DEF TypeOK
  <2>2. PICK s \in Room : home[q] = s /\ q \in Members(s)
    BY <2>1 DEF Structure, Homes
  <2>. QED BY <2>1, <2>2, <1>1
<1>5. RoomIsItsPeople'
  <2>. SUFFICES ASSUME NEW s \in Room
                PROVE  /\ room'[s] # Absent <=> Members(s)' # {}
                       /\ Cardinality(Members(s)') <= Capacity
                       /\ \A q \in Members(s)' : conn'[q] \in {"live", "lost"} /\ home'[q] = s
    BY DEF RoomIsItsPeople
  <2>1. /\ room[s] # Absent <=> Members(s) # {}
        /\ Cardinality(Members(s)) <= Capacity
        /\ \A q \in Members(s) : conn[q] \in {"live", "lost"} /\ home[q] = s
    BY DEF Structure, RoomIsItsPeople
  <2>2. Cardinality(Members(s)') <= Capacity
    <3>1. Cardinality(Members(r) \ {p}) = Cardinality(Members(r)) - 1
      BY <1>1, MembersFinite, FS_RemoveElement
    <3>. QED BY <3>1, <2>1, <1>1, MembersFinite
  <2>3. \A q \in Members(s)' : q \in Peer /\ q # p /\ q \in Members(s)
    BY <1>1, <1>3
  <2>4. \A q \in Members(s)' : conn'[q] \in {"live", "lost"} /\ home'[q] = s
    BY <2>1, <2>3, <1>2 DEF TypeOK
  <2>. QED BY <2>1, <2>2, <2>4, <1>1
<1>6. Sequences'
  <2>. SUFFICES ASSUME NEW s \in Room, NEW q \in Members(s)', NEW x \in Members(s)'
                PROVE  /\ peers'[s][q].seq < room'[s].nextSeq
                       /\ q # x => peers'[s][q].seq # peers'[s][x].seq
    BY DEF Sequences
  <2>1. /\ q \in Members(s) /\ x \in Members(s)
        /\ peers'[s][q] = peers[s][q] /\ peers'[s][x] = peers[s][x]
        /\ room'[s] = room[s]
    BY <1>1, <1>3 DEF Without, TypeOK, View
  <2>. QED BY <2>1 DEF Structure, Sequences
<1>. QED BY <1>4, <1>5, <1>6 DEF Structure

LEMMA RestartStructure == ASSUME TypeOK, Restart PROVE Structure'
<1>1. \A r \in Room : Members(r)' = {} /\ room'[r] = Absent
  BY DEF Restart, Members, InView, NoPeers
<1>2. Homes'
  BY DEF Restart, Homes
<1>3. RoomIsItsPeople'
  <2>1. \A r \in Room : Cardinality(Members(r)') = 0
    BY <1>1, FS_EmptySet
  <2>. QED BY <1>1, <2>1 DEF RoomIsItsPeople
<1>4. Sequences'
  BY <1>1 DEF Sequences
<1>. QED BY <1>2, <1>3, <1>4 DEF Structure

LEMMA StillStructure ==
  ASSUME Structure, UNCHANGED <<room, peers, conn, home>> PROVE Structure'
BY DEF Structure, Homes, RoomIsItsPeople, Sequences, Members, InView

LEMMA NextStructure == TypeOK /\ Structure /\ [Next]_vars => Structure'
<1>. SUFFICES ASSUME TypeOK, Structure, [Next]_vars PROVE Structure'
  OBVIOUS
<1>1. ASSUME NEW p \in Peer, Disconnect(p) \/ Leave(p) \/ Read(p) PROVE Structure'
  <2>1. CASE Read(p) BY <2>1, StillStructure DEF Read
  <2>. QED BY <1>1, <2>1, DisconnectStructure, LeaveStructure
<1>2. ASSUME NEW w \in Watcher, WatchLobby(w) \/ LeaveLobby(w) \/ ReadLobby(w)
      PROVE  Structure'
  BY <1>2, StillStructure DEF WatchLobby, LeaveLobby, ReadLobby
<1>3. ASSUME NEW r \in Room, NEW u \in User, NEW from \in Peer, NEW to \in Peer,
             NEW k \in Kind, Relay(r, u, from, to, k)
      PROVE  Structure'
  BY <1>3, StillStructure DEF Relay
<1>4. CASE Keepalive
  BY <1>4, StillStructure DEF Keepalive
<1>5. CASE UNCHANGED vars
  BY <1>5, StillStructure DEF vars
<1>. QED
  BY <1>1, <1>2, <1>3, <1>4, <1>5, JoinStructure, SourcesStructure, RestartStructure DEF Next

\* Rooms live exactly as long as somebody is in them and never overfill, and
\* every member still has the guard that will take it out.
THEOREM RoomsAreTheirPeople == Spec => []RoomIsItsPeople
<1>1. Init => TypeOK /\ Structure
  BY InitType, InitStructure
<1>2. TypeOK /\ Structure /\ [Next]_vars => (TypeOK /\ Structure)'
  BY NextType, NextStructure
<1>3. TypeOK /\ Structure => RoomIsItsPeople
  BY DEF Structure
<1>. QED BY <1>1, <1>2, <1>3, PTL DEF Spec

-----------------------------------------------------------------------------
(* What a page has been sent.                                                *)

\* Frame f makes sense to p's page showing v: a signal comes from somebody on it.
Fits(p, v, f) ==
  f.type = "signal" => f.from = p \/ (v # NoView /\ v[f.from] # Absent)

\* w lists the rosters that p's page goes through, from a to z, reading s.
Leads(p, w, s, a, z) ==
  /\ w \in [0..Len(s) -> View \cup {NoView}]
  /\ w[0] = a
  /\ w[Len(s)] = z
  /\ \A i \in 1..Len(s) : w[i] = Apply(w[i - 1], s[i]) /\ Fits(p, w[i - 1], s[i])

\* Whoever is on a roster v of p's page has joined p's room, and as long as its
\* connection has not ended it is there with the sequence that v gives.
Known(p, v) ==
  v # NoView =>
    /\ v[p] = Absent
    /\ \A q \in Peer : v[q] # Absent =>
         /\ conn[q] # "unborn"
         /\ conn[q] \in {"live", "lost"} => /\ home[q] = home[p]
                                            /\ v[q].seq = peers[home[p]][q].seq

\* The unread frames of p's page take its roster to what the registry holds.
Led(p) ==
  \E w : /\ Leads(p, w, stream[p], view[p], Without(peers[home[p]], p))
         /\ \A i \in 0..Len(stream[p]) : Known(p, w[i])

Coherent == \A p \in Peer : conn[p] = "live" => Led(p)

LEMMA PushLeads ==
  ASSUME NEW p, NEW s \in Seq(Frame), NEW f \in Frame, NEW a, NEW z, NEW w,
         Leads(p, w, s, a, z), Fits(p, z, f)
  PROVE  Leads(p, [i \in 0..Len(s) + 1 |-> IF i <= Len(s) THEN w[i] ELSE Apply(z, f)],
               Append(s, f), a, Apply(z, f))
<1>. DEFINE n == Len(s)
            t == Append(s, f)
            x == [i \in 0..n + 1 |-> IF i <= n THEN w[i] ELSE Apply(z, f)]
<1>1. n \in Nat /\ Len(t) = n + 1 /\ t[n + 1] = f /\ \A i \in 1..n : t[i] = s[i]
  OBVIOUS
<1>2. w \in [0..n -> View \cup {NoView}] /\ w[0] = a /\ w[n] = z
  BY DEF Leads
<1>3. Apply(z, f) \in View \cup {NoView}
  BY <1>1, <1>2, ApplyType
<1>4. x \in [0..n + 1 -> View \cup {NoView}]
  BY <1>1, <1>2, <1>3
<1>5. \A i \in 1..n + 1 : x[i] = Apply(x[i - 1], t[i]) /\ Fits(p, x[i - 1], t[i])
  <2>. TAKE i \in 1..n + 1
  <2>1. CASE i <= n
    <3>1. x[i] = w[i] /\ x[i - 1] = w[i - 1] /\ t[i] = s[i] /\ i \in 1..n
      BY <2>1, <1>1
    <3>. QED BY <3>1 DEF Leads
  <2>2. CASE i = n + 1
    <3>1. x[i] = Apply(z, f) /\ x[i - 1] = z /\ t[i] = f
      BY <2>2, <1>1, <1>2
    <3>. QED BY <3>1
  <2>. QED BY <2>1, <2>2, <1>1
<1>6. x[0] = a /\ x[n + 1] = Apply(z, f)
  BY <1>1, <1>2
<1>. HIDE DEF x, t, n
<1>7. Leads(p, x, t, a, Apply(z, f))
  BY <1>1, <1>4, <1>5, <1>6 DEF Leads
<1>. QED BY <1>7 DEF x, t, n

LEMMA DropLeads ==
  ASSUME NEW p, NEW s \in Seq(Frame), s # <<>>, NEW a, NEW z, NEW w,
         Leads(p, w, s, a, z)
  PROVE  Leads(p, [i \in 0..Len(s) - 1 |-> w[i + 1]], Tail(s), Apply(a, Head(s)), z)
<1>. DEFINE n == Len(s)
            t == Tail(s)
            x == [i \in 0..n - 1 |-> w[i + 1]]
<1>1. /\ n \in Nat \ {0} /\ Len(t) = n - 1 /\ Head(s) = s[1]
      /\ \A i \in 1..n - 1 : t[i] = s[i + 1]
  OBVIOUS
<1>2. w \in [0..n -> View \cup {NoView}] /\ w[0] = a /\ w[n] = z
  BY DEF Leads
<1>3. w[1] = Apply(a, Head(s))
  BY <1>1, <1>2 DEF Leads
<1>4. x \in [0..n - 1 -> View \cup {NoView}] /\ x[0] = w[1] /\ x[n - 1] = z
  BY <1>1, <1>2
<1>5. \A i \in 1..n - 1 : x[i] = Apply(x[i - 1], t[i]) /\ Fits(p, x[i - 1], t[i])
  <2>. TAKE i \in 1..n - 1
  <2>1. /\ x[i] = w[i + 1] /\ x[i - 1] = w[i] /\ t[i] = s[i + 1]
        /\ i + 1 \in 1..n /\ (i + 1) - 1 = i
    BY <1>1
  <2>2. w[i + 1] = Apply(w[(i + 1) - 1], s[i + 1]) /\ Fits(p, w[(i + 1) - 1], s[i + 1])
    BY <2>1 DEF Leads
  <2>. QED BY <2>1, <2>2
<1>. HIDE DEF x, t, n
<1>6. Leads(p, x, t, Apply(a, Head(s)), z)
  BY <1>1, <1>3, <1>4, <1>5 DEF Leads
<1>. QED BY <1>6 DEF x, t, n

\* A step that keeps what Known says of those who are already in a room.
Steady ==
  \A q \in Peer : conn[q] # "unborn" =>
    /\ conn'[q] # "unborn"
    /\ conn'[q] \in {"live", "lost"} =>
         /\ conn[q] \in {"live", "lost"}
         /\ home'[q] = home[q]
         /\ peers'[home[q]][q].seq = peers[home[q]][q].seq

LEMMA KnownStays ==
  ASSUME NEW p \in Peer, home'[p] = home[p], Steady, NEW v, Known(p, v)
  PROVE  Known(p, v)'
BY DEF Known, Steady

\* The registry's own roster is known.
LEMMA RosterKnown ==
  ASSUME TypeOK', Structure', NEW p \in Peer, conn'[p] = "live",
         NEW z, z = Without(peers'[home'[p]], p)
  PROVE  Known(p, z)' /\ z \in View /\ z # NoView
<1>1. PICK r \in Room : home'[p] = r
  BY DEF Structure, Homes
<1>2. peers'[r] \in View
  BY DEF TypeOK
<1>3. z \in View /\ z[p] = Absent /\ \A q \in Peer \ {p} : z[q] = peers'[r][q]
  BY <1>1, <1>2 DEF Without, View
<1>4. ASSUME NEW q \in Peer, z[q] # Absent
      PROVE  conn'[q] \in {"live", "lost"} /\ home'[q] = r /\ z[q] = peers'[r][q]
  <2>1. q \in Members(r)'
    BY <1>3, <1>4 DEF Members, InView
  <2>. QED BY <2>1, <1>3, <1>4 DEF Structure, RoomIsItsPeople
<1>. QED BY <1>1, <1>3, <1>4 DEF Known

\* p's page is sent nothing and its room is as it was.
LEMMA LedStill ==
  ASSUME TypeOK, TypeOK', Structure', Steady, NEW p \in Peer, Led(p),
         UNCHANGED <<stream[p], view[p], home[p]>>,
         Without(peers'[home[p]], p) = Without(peers[home[p]], p)
  PROVE  Led(p)'
<1>1. PICK w : /\ Leads(p, w, stream[p], view[p], Without(peers[home[p]], p))
               /\ \A i \in 0..Len(stream[p]) : Known(p, w[i])
  BY DEF Led
<1>2. Leads(p, w, stream'[p], view'[p], Without(peers'[home'[p]], p))
  BY <1>1
<1>3. \A i \in 0..Len(stream'[p]) : Known(p, w[i])'
  BY <1>1, KnownStays
<1>. QED BY <1>2, <1>3 DEF Led

\* p's page is sent a frame that says what became of its room.
LEMMA LedOn ==
  ASSUME TypeOK, TypeOK', Structure', Steady, NEW p \in Peer, Led(p), conn'[p] = "live",
         NEW f \in Frame, Fits(p, Without(peers[home[p]], p), f),
         stream'[p] = Append(stream[p], f), UNCHANGED <<view[p], home[p]>>,
         Without(peers'[home[p]], p) = Apply(Without(peers[home[p]], p), f)
  PROVE  Led(p)'
<1>0. PICK z, n : z = Without(peers[home[p]], p) /\ n = Len(stream[p])
  OBVIOUS
<1>1. PICK w : Leads(p, w, stream[p], view[p], z) /\ \A i \in 0..n : Known(p, w[i])
  BY <1>0 DEF Led
<1>. DEFINE x == [i \in 0..n + 1 |-> IF i <= n THEN w[i] ELSE Apply(z, f)]
<1>2. stream[p] \in Seq(Frame) /\ n \in Nat /\ Len(stream'[p]) = n + 1
  BY <1>0 DEF TypeOK
<1>3. Leads(p, x, stream'[p], view'[p], Without(peers'[home'[p]], p))
  BY <1>0, <1>1, <1>2, PushLeads
<1>4. ASSUME NEW i \in 0..n + 1 PROVE Known(p, x[i])'
  <2>1. CASE i <= n
    <3>1. i \in 0..n /\ x[i] = w[i]
      BY <2>1, <1>2
    <3>2. Known(p, w[i])'
      BY <3>1, <1>1, KnownStays
    <3>. QED BY <3>1, <3>2
  <2>2. CASE i = n + 1
    <3>1. x[i] = Without(peers'[home'[p]], p)
      BY <2>2, <1>0, <1>2
    <3>. HIDE DEF x
    <3>. QED BY <3>1, RosterKnown
  <2>. QED BY <2>1, <2>2, <1>2
<1>. HIDE DEF x
<1>. QED BY <1>2, <1>3, <1>4 DEF Led

\* What p's page makes of an arrival, a change and a departure is what the
\* registry makes of them, p itself aside.
LEMMA ApplyJoined ==
  ASSUME NEW m \in View, NEW p \in Peer, NEW q \in Peer, p # q, m[q] = Absent,
         NEW i \in Info
  PROVE  Without([m EXCEPT ![q] = i], p)
           = Apply(Without(m, p), [type |-> "peer-joined", peer |-> q, info |-> i])
<1>1. Without(m, p) \in View /\ Without(m, p)[q] = Absent /\ Without(m, p) # NoView
  BY DEF Without, View
<1>2. Apply(Without(m, p), [type |-> "peer-joined", peer |-> q, info |-> i])
        = [Without(m, p) EXCEPT ![q] = i]
  BY <1>1 DEF Apply
<1>3. Without([m EXCEPT ![q] = i], p) = [Without(m, p) EXCEPT ![q] = i]
  BY DEF Without, View
<1>. QED BY <1>2, <1>3

LEMMA ApplySources ==
  ASSUME NEW m \in View, NEW p \in Peer, NEW q \in Peer, p # q, m[q] # Absent, NEW x
  PROVE  Without([m EXCEPT ![q].sources = x], p)
           = Apply(Without(m, p), [type |-> "sources", from |-> q, sources |-> x])
<1>1. /\ Without(m, p) \in View /\ Without(m, p)[q] = m[q]
      /\ Without(m, p) # NoView
  BY DEF Without, View
<1>2. Apply(Without(m, p), [type |-> "sources", from |-> q, sources |-> x])
        = [Without(m, p) EXCEPT ![q].sources = x]
  BY <1>1 DEF Apply
<1>3. Without([m EXCEPT ![q].sources = x], p) = [Without(m, p) EXCEPT ![q].sources = x]
  BY DEF Without, View
<1>. QED BY <1>2, <1>3

LEMMA ApplyLeft ==
  ASSUME NEW m \in View, NEW p \in Peer, NEW q \in Peer, p # q
  PROVE  Without(Without(m, q), p) = Apply(Without(m, p), [type |-> "peer-left", peer |-> q])
<1>1. Without(m, p) \in View /\ Without(m, p) # NoView
  BY DEF Without, View
<1>2. Apply(Without(m, p), [type |-> "peer-left", peer |-> q]) = Without(Without(m, p), q)
  BY <1>1 DEF Apply
<1>3. Without(Without(m, q), p) = Without(Without(m, p), q)
  BY DEF Without, View
<1>. QED BY <1>2, <1>3

LEMMA LiveHome ==
  ASSUME TypeOK, Structure, NEW q \in Peer, conn[q] = "live"
  PROVE  \E s \in Room : /\ home[q] = s /\ q \in Members(s) /\ peers[s] \in View
                         /\ \A x \in Room : q \in Members(x) => x = s
<1>1. PICK s \in Room : home[q] = s /\ q \in Members(s)
  BY DEF Structure, Homes
<1>2. \A x \in Room : q \in Members(x) => x = s
  BY <1>1 DEF Structure, RoomIsItsPeople
<1>. QED BY <1>1, <1>2 DEF TypeOK

\* A page that is not connected shows nothing.
Blank == \A p \in Peer : conn[p] # "live" => view[p] = NoView

LEMMA JoinCoherent ==
  ASSUME TypeOK, Structure, Blank, Coherent, TypeOK', Structure',
         NEW p \in Peer, NEW r \in Room, NEW u \in User, NEW t \in Title, Join(p, r, u, t)
  PROVE  Coherent' /\ Blank'
<1>. DEFINE i == Newcomer(r, u, t)
            f == [type |-> "peer-joined", peer |-> p, info |-> i]
            g == Greeting(p, r, u, t)
<1>1. /\ conn[p] = "unborn" /\ view' = view
      /\ conn' = [conn EXCEPT ![p] = "live"] /\ home' = [home EXCEPT ![p] = r]
      /\ stream' = [Announced(Members(r), f) EXCEPT ![p] = <<g>>]
      /\ peers' = [peers EXCEPT ![r] = [peers[r] EXCEPT ![p] = i]]
  BY DEF Join
<1>2. i \in Info /\ g \in Frame /\ f \in Frame /\ g.type = "hello" /\ g.roster = peers[r]
  <2>1. i \in Info /\ Found(r, u, t) \in Plate
    BY FoundType DEF TypeOK
  <2>. QED BY <2>1 DEF TypeOK, Greeting, Frame, Hello, Joined, Plate
<1>3. peers[r] \in View /\ peers[r][p] = Absent
  <2>1. p \notin Members(r)
    BY JoinEffect
  <2>. QED BY <2>1 DEF Members, InView, TypeOK
<1>4. peers'[r] = [peers[r] EXCEPT ![p] = i] /\ \A s \in Room \ {r} : peers'[s] = peers[s]
  BY <1>1 DEF TypeOK
<1>5. Steady
  BY <1>1, JoinEffect DEF Steady, TypeOK, Structure, Homes
<1>6. Blank'
  BY <1>1 DEF Blank, TypeOK
<1>. HIDE DEF i, g
<1>7. ASSUME NEW q \in Peer, conn'[q] = "live", q # p PROVE Led(q)'
  <2>1. conn[q] = "live" /\ home'[q] = home[q] /\ view'[q] = view[q]
    BY <1>1, <1>7 DEF TypeOK
  <2>2. Led(q)
    BY <2>1 DEF Coherent
  <2>3. PICK s \in Room : home[q] = s /\ q \in Members(s) /\ peers[s] \in View
                         /\ \A x \in Room : q \in Members(x) => x = s
    BY <2>1, LiveHome
  <2>4. stream'[q] = Announced(Members(r), f)[q]
    BY <1>1, <1>7 DEF TypeOK, Announced
  <2>5. CASE s = r
    <3>1. stream'[q] = Append(stream[q], f)
      BY <2>1, <2>3, <2>4, <2>5 DEF Announced, Live
    <3>2. Without(peers'[r], q) = Apply(Without(peers[r], q), f)
      BY <1>2, <1>3, <1>4, <1>7, ApplyJoined
    <3>3. Fits(q, Without(peers[r], q), f)
      BY DEF Fits
    <3>. HIDE DEF f
    <3>. QED BY <1>2, <1>5, <1>7, <2>1, <2>2, <2>3, <2>5, <3>1, <3>2, <3>3, LedOn
  <2>6. CASE s # r
    <3>1. stream'[q] = stream[q] /\ peers'[s] = peers[s]
      BY <1>4, <2>3, <2>4, <2>6 DEF Announced, Live
    <3>. QED BY <1>5, <2>1, <2>2, <2>3, <3>1, LedStill
  <2>. QED BY <2>5, <2>6
<1>8. Led(p)'
  <2>1. PICK a, z : a = view[p] /\ z = peers[r]
    OBVIOUS
  <2>. DEFINE w == [j \in 0..1 |-> IF j = 0 THEN a ELSE z]
  <2>2. stream'[p] = <<g>> /\ home'[p] = r /\ view'[p] = a
    BY <1>1, <2>1 DEF TypeOK, Announced
  <2>3. z = Without(peers'[r], p)
    BY <1>3, <1>4, <2>1 DEF Without, View
  <2>4. Apply(a, g) = z
    BY <1>2, <2>1 DEF Apply
  <2>5. Leads(p, w, <<g>>, a, z)
    <3>1. a \in View \cup {NoView} /\ z \in View
      BY <1>3, <2>1 DEF TypeOK
    <3>2. Fits(p, a, g)
      BY <1>2 DEF Fits
    <3>. QED BY <2>4, <3>1, <3>2 DEF Leads
  <2>6. a = NoView
    BY <1>1, <2>1 DEF Blank
  <2>7. Known(p, a)'
    BY <2>6 DEF Known
  <2>8. Known(p, z)'
    BY <1>1, <2>2, <2>3, RosterKnown DEF TypeOK
  <2>9. \A j \in 0..1 : Known(p, w[j])'
    <3>1. w[0] = a /\ w[1] = z
      OBVIOUS
    <3>. HIDE DEF w
    <3>. QED BY <2>7, <2>8, <3>1
  <2>. HIDE DEF w
  <2>. QED BY <2>2, <2>3, <2>5, <2>9 DEF Led
<1>. QED BY <1>6, <1>7, <1>8 DEF Coherent

LEMMA SourcesCoherent ==
  ASSUME TypeOK, Structure, Coherent, TypeOK', Structure',
         NEW r \in Room, NEW u \in User, NEW from \in Peer, NEW s \in Source,
         SetSources(r, u, from, s)
  PROVE  Coherent'
<1>. DEFINE f == [type |-> "sources", from |-> from, sources |-> s]
<1>1. /\ UNCHANGED <<conn, home, view>> /\ from \in Members(r)
      /\ stream' = Announced(Members(r) \ {from}, f)
  BY DEF SetSources
<1>2. /\ \A x \in Room : \A q \in Peer : peers'[x][q].seq = peers[x][q].seq
      /\ peers'[r] = [peers[r] EXCEPT ![from].sources = s]
      /\ \A x \in Room \ {r} : peers'[x] = peers[x]
  BY SourcesEffect
<1>3. f \in Frame
  BY DEF Frame, SourcesOut
<1>4. peers[r] \in View /\ peers[r][from] # Absent
  BY <1>1 DEF Members, InView, TypeOK
<1>5. Steady
  BY <1>1, <1>2 DEF Steady, Structure, Homes
<1>6. ASSUME NEW q \in Peer, conn'[q] = "live" PROVE Led(q)'
  <2>1. Led(q) /\ conn[q] = "live" /\ UNCHANGED <<home[q], view[q]>>
    BY <1>1, <1>6 DEF Coherent
  <2>2. PICK x \in Room : home[q] = x /\ q \in Members(x) /\ peers[x] \in View
                         /\ \A y \in Room : q \in Members(y) => y = x
    BY <2>1, LiveHome
  <2>3. CASE x = r /\ q # from
    <3>1. stream'[q] = Append(stream[q], f)
      BY <1>1, <2>1, <2>2, <2>3 DEF Announced, Live
    <3>2. Without(peers'[r], q) = Apply(Without(peers[r], q), f)
      BY <1>2, <1>4, <2>3, ApplySources
    <3>3. Fits(q, Without(peers[r], q), f)
      BY DEF Fits
    <3>. HIDE DEF f
    <3>. QED BY <1>3, <1>5, <1>6, <2>1, <2>2, <2>3, <3>1, <3>2, <3>3, LedOn
  <2>4. CASE x = r /\ q = from
    <3>1. stream'[q] = stream[q]
      BY <1>1, <2>4 DEF Announced, Live
    <3>2. Without(peers'[r], q) = Without(peers[r], q)
      BY <1>2, <1>4, <2>4 DEF Without, View
    <3>. QED BY <1>5, <2>1, <2>2, <2>4, <3>1, <3>2, LedStill
  <2>5. CASE x # r
    <3>1. stream'[q] = stream[q] /\ peers'[x] = peers[x]
      BY <1>1, <1>2, <2>2, <2>5 DEF Announced, Live
    <3>. QED BY <1>5, <2>1, <2>2, <3>1, LedStill
  <2>. QED BY <2>3, <2>4, <2>5
<1>. QED BY <1>6 DEF Coherent

LEMMA RelayCoherent ==
  ASSUME TypeOK, Structure, Coherent, TypeOK', Structure',
         NEW r \in Room, NEW u \in User, NEW from \in Peer, NEW to \in Peer,
         NEW k \in Kind, Relay(r, u, from, to, k)
  PROVE  Coherent'
<1>. DEFINE f == [type |-> "signal", from |-> from, kind |-> k]
<1>1. /\ UNCHANGED <<conn, home, view, peers>> /\ from \in Members(r) /\ to \in Members(r)
      /\ stream' = Announced({to}, f)
  BY DEF Relay
<1>2. f \in Frame
  BY DEF Frame, SignalOut
<1>3. Steady
  BY <1>1 DEF Steady
<1>4. ASSUME NEW q \in Peer, conn'[q] = "live" PROVE Led(q)'
  <2>1. Led(q) /\ conn[q] = "live" /\ UNCHANGED <<home[q], view[q]>>
    BY <1>1, <1>4 DEF Coherent
  <2>2. PICK x \in Room : home[q] = x /\ q \in Members(x) /\ peers[x] \in View
                         /\ \A y \in Room : q \in Members(y) => y = x
    BY <2>1, LiveHome
  <2>3. CASE q = to
    <3>1. stream'[q] = Append(stream[q], f) /\ x = r
      BY <1>1, <2>1, <2>2, <2>3 DEF Announced, Live
    <3>2. Apply(Without(peers[r], q), f) = Without(peers[r], q)
      BY DEF Apply
    <3>3. Fits(q, Without(peers[r], q), f)
      <4>1. from = q \/ Without(peers[r], q)[from] = peers[r][from]
        BY <2>2, <3>1 DEF Without, View
      <4>2. peers[r][from] # Absent
        BY <1>1 DEF Members, InView
      <4>3. Without(peers[r], q) # NoView
        BY <2>2, <3>1 DEF Without, View
      <4>. QED BY <4>1, <4>2, <4>3 DEF Fits
    <3>. HIDE DEF f
    <3>. QED BY <1>1, <1>2, <1>3, <1>4, <2>1, <2>2, <3>1, <3>2, <3>3, LedOn
  <2>4. CASE q # to
    <3>1. stream'[q] = stream[q]
      BY <1>1, <2>4 DEF Announced, Live
    <3>. QED BY <1>1, <1>3, <2>1, <2>2, <3>1, LedStill
  <2>. QED BY <2>3, <2>4
<1>. QED BY <1>4 DEF Coherent

LEMMA LeaveCoherent ==
  ASSUME TypeOK, Structure, Blank, Coherent, TypeOK', Structure',
         NEW p \in Peer, Leave(p)
  PROVE  Coherent' /\ Blank'
<1>. DEFINE f == [type |-> "peer-left", peer |-> p]
<1>1. PICK r \in Room :
        /\ home[p] = r /\ p \in Members(r)
        /\ \A s \in Room \ {r} : peers'[s] = peers[s]
        /\ peers'[r] = Without(peers[r], p)
        /\ stream' = Announced(Members(r) \ {p}, f)
  BY LeaveEffect
<1>2. /\ conn[p] = "lost" /\ conn' = [conn EXCEPT ![p] = "gone"]
      /\ home' = [home EXCEPT ![p] = NoRoom] /\ view' = view
  BY DEF Leave
<1>3. f \in Frame
  BY DEF Frame, Left
<1>4. peers[r] \in View /\ \A q \in Peer \ {p} : peers'[r][q] = peers[r][q]
  BY <1>1 DEF TypeOK, Without, View
<1>5. Steady
  <2>. SUFFICES ASSUME NEW q \in Peer, conn[q] # "unborn"
                PROVE  /\ conn'[q] # "unborn"
                       /\ conn'[q] \in {"live", "lost"} =>
                            /\ conn[q] \in {"live", "lost"}
                            /\ home'[q] = home[q]
                            /\ peers'[home[q]][q].seq = peers[home[q]][q].seq
    BY DEF Steady
  <2>1. CASE q = p
    BY <2>1, <1>2 DEF TypeOK
  <2>2. CASE q # p
    <3>1. conn'[q] = conn[q] /\ home'[q] = home[q]
      BY <2>2, <1>2 DEF TypeOK
    <3>2. conn[q] \in {"live", "lost"} => home[q] \in Room
      BY DEF Structure, Homes
    <3>. QED BY <2>2, <3>1, <3>2, <1>1, <1>4
  <2>. QED BY <2>1, <2>2
<1>6. Blank'
  BY <1>2 DEF Blank, TypeOK
<1>7. ASSUME NEW q \in Peer, conn'[q] = "live" PROVE Led(q)'
  <2>1. q # p /\ conn[q] = "live" /\ UNCHANGED <<home[q], view[q]>>
    BY <1>2, <1>7 DEF TypeOK
  <2>2. Led(q)
    BY <2>1 DEF Coherent
  <2>3. PICK x \in Room : home[q] = x /\ q \in Members(x) /\ peers[x] \in View
                         /\ \A y \in Room : q \in Members(y) => y = x
    BY <2>1, LiveHome
  <2>4. CASE x = r
    <3>1. stream'[q] = Append(stream[q], f)
      BY <1>1, <2>1, <2>3, <2>4 DEF Announced, Live
    <3>2. Without(peers'[r], q) = Apply(Without(peers[r], q), f)
      BY <1>1, <1>4, <2>1, ApplyLeft
    <3>3. Fits(q, Without(peers[r], q), f)
      BY DEF Fits
    <3>. HIDE DEF f
    <3>. QED BY <1>3, <1>5, <1>7, <2>1, <2>2, <2>3, <2>4, <3>1, <3>2, <3>3, LedOn
  <2>5. CASE x # r
    <3>1. stream'[q] = stream[q] /\ peers'[x] = peers[x]
      BY <1>1, <2>3, <2>5 DEF Announced, Live
    <3>. QED BY <1>5, <2>1, <2>2, <2>3, <3>1, LedStill
  <2>. QED BY <2>4, <2>5
<1>. QED BY <1>6, <1>7 DEF Coherent

\* Steps that neither change a room nor send a frame.
LEMMA StillCoherent ==
  ASSUME TypeOK, Coherent, TypeOK', Structure', UNCHANGED <<peers, home>>,
         NEW S \in SUBSET Peer, \A q \in S : UNCHANGED <<conn[q], stream[q], view[q]>>,
         Steady
  PROVE  \A q \in S : conn'[q] = "live" => Led(q)'
<1>. TAKE q \in S
<1>. HAVE conn'[q] = "live"
<1>1. Led(q)
  BY DEF Coherent
<1>. QED BY <1>1, LedStill

LEMMA OtherCoherent ==
  ASSUME TypeOK, Structure, Blank, Coherent, TypeOK', Structure', NEW p \in Peer,
         Disconnect(p) \/ Read(p)
  PROVE  Coherent' /\ Blank'
<1>1. /\ UNCHANGED <<peers, home>> /\ conn[p] = "live"
      /\ \A q \in Peer \ {p} : UNCHANGED <<conn[q], stream[q], view[q]>>
  BY DEF Disconnect, Read, TypeOK
<1>2. Steady
  BY <1>1 DEF Steady, Disconnect, Read, TypeOK
<1>3. \A q \in Peer \ {p} : conn'[q] = "live" => Led(q)'
  BY <1>1, <1>2, StillCoherent
<1>4. conn'[p] = "live" => Led(p)'
  <2>1. CASE Disconnect(p)
    BY <2>1 DEF Disconnect, TypeOK
  <2>2. CASE Read(p)
    <3>1. PICK s, a, z : s = stream[p] /\ a = view[p] /\ z = Without(peers[home[p]], p)
      OBVIOUS
    <3>2. PICK w : Leads(p, w, s, a, z) /\ \A i \in 0..Len(s) : Known(p, w[i])
      BY <1>1, <3>1 DEF Coherent, Led
    <3>. DEFINE x == [i \in 0..Len(s) - 1 |-> w[i + 1]]
    <3>3. /\ s \in Seq(Frame) /\ s # <<>>
          /\ stream'[p] = Tail(s) /\ view'[p] = Apply(a, Head(s))
      BY <2>2, <3>1 DEF Read, TypeOK
    <3>4. Leads(p, x, Tail(s), Apply(a, Head(s)), z)
      BY <3>2, <3>3, DropLeads
    <3>5. Len(s) \in Nat /\ Len(Tail(s)) = Len(s) - 1
      BY <3>3
    <3>6. ASSUME NEW i \in 0..Len(s) - 1 PROVE Known(p, x[i])'
      <4>1. i + 1 \in 0..Len(s) /\ x[i] = w[i + 1]
        BY <3>5
      <4>2. Known(p, w[i + 1])'
        BY <4>1, <3>2, <1>1, <1>2, KnownStays
      <4>. QED BY <4>1, <4>2
    <3>. HIDE DEF x
    <3>. QED BY <1>1, <3>1, <3>3, <3>4, <3>5, <3>6 DEF Led
  <2>. QED BY <2>1, <2>2
<1>5. Blank'
  BY <1>1 DEF Blank, Disconnect, Read, TypeOK
<1>. QED BY <1>3, <1>4, <1>5 DEF Coherent

LEMMA RestartCoherent ==
  ASSUME Restart PROVE Coherent' /\ Blank'
BY DEF Restart, Coherent, Blank

\* The strengthening of what is proved below.
Inductive == TypeOK /\ Structure /\ Blank /\ Coherent

LEMMA InitInductive == Init => Inductive
<1>1. Init => Blank /\ Coherent
  BY DEF Init, Blank, Coherent
<1>. QED BY <1>1, InitType, InitStructure DEF Inductive

LEMMA NextInductive == Inductive /\ [Next]_vars => Inductive'
<1>. SUFFICES ASSUME Inductive, [Next]_vars PROVE Inductive'
  OBVIOUS
<1>. USE DEF Inductive
<1>0. TypeOK' /\ Structure'
  BY NextType, NextStructure
<1>1. ASSUME NEW p \in Peer, Disconnect(p) \/ Leave(p) \/ Read(p)
      PROVE  Coherent' /\ Blank'
  BY <1>0, <1>1, OtherCoherent, LeaveCoherent
<1>2. ASSUME UNCHANGED <<peers, conn, home, stream, view>> PROVE Coherent' /\ Blank'
  <2>1. Steady
    BY <1>2 DEF Steady
  <2>2. Coherent'
    BY <1>0, <1>2, <2>1, StillCoherent DEF Coherent
  <2>. QED BY <1>2, <2>2 DEF Blank
<1>3. ASSUME NEW w \in Watcher, WatchLobby(w) \/ LeaveLobby(w) \/ ReadLobby(w)
      PROVE  Coherent' /\ Blank'
  BY <1>2, <1>3 DEF WatchLobby, LeaveLobby, ReadLobby
<1>4. ASSUME Keepalive \/ UNCHANGED vars PROVE Coherent' /\ Blank'
  BY <1>2, <1>4 DEF Keepalive, vars
<1>5. ASSUME NEW r \in Room, NEW u \in User, NEW from \in Peer, NEW s \in Source,
             SetSources(r, u, from, s)
      PROVE  Coherent' /\ Blank'
  BY <1>0, <1>5, SourcesCoherent DEF SetSources, Blank
<1>6. ASSUME NEW r \in Room, NEW u \in User, NEW from \in Peer, NEW to \in Peer,
             NEW k \in Kind, Relay(r, u, from, to, k)
      PROVE  Coherent' /\ Blank'
  BY <1>0, <1>6, RelayCoherent DEF Relay, Blank
<1>7. ASSUME Restart PROVE Coherent' /\ Blank'
  BY <1>7, RestartCoherent
<1>8. ASSUME NEW p \in Peer, NEW r \in Room, NEW u \in User, NEW t \in Title,
             Join(p, r, u, t)
      PROVE  Coherent' /\ Blank'
  BY <1>0, <1>8, JoinCoherent
<1>9. Coherent' /\ Blank'
  BY <1>1, <1>3, <1>4, <1>5, <1>6, <1>7, <1>8 DEF Next
<1>. QED BY <1>0, <1>9

LEMMA AlwaysInductive == Spec => []Inductive
BY InitInductive, NextInductive, PTL DEF Spec

\* A page that has read all it was sent shows who is in its room, whatever the
\* interleaving of arrivals, departures and source changes with its reading.
THEOREM CaughtUpPagesAreCurrent == Spec => []CaughtUpIsCurrent
<1>1. Inductive => CaughtUpIsCurrent
  <2>. SUFFICES ASSUME Inductive, NEW p \in Peer, conn[p] = "live", stream[p] = <<>>
                PROVE  view[p] = Without(peers[home[p]], p)
    BY DEF CaughtUpIsCurrent
  <2>1. PICK w : Leads(p, w, stream[p], view[p], Without(peers[home[p]], p))
    BY DEF Inductive, Coherent, Led
  <2>. QED BY <2>1 DEF Leads
<1>. QED BY <1>1, AlwaysInductive, PTL

\* A signal reaches a page while its sender is on the page's roster.
THEOREM SignalsReachKnownPeers == Spec => []SignalsComeFromTheRoster
<1>1. Inductive => SignalsComeFromTheRoster
  <2>. SUFFICES ASSUME Inductive, NEW p \in Peer, conn[p] = "live", stream[p] # <<>>,
                       Head(stream[p]).type = "signal"
                PROVE  \/ Head(stream[p]).from = p
                       \/ view[p] # NoView /\ view[p][Head(stream[p]).from] # Absent
    BY DEF SignalsComeFromTheRoster
  <2>1. PICK w : Leads(p, w, stream[p], view[p], Without(peers[home[p]], p))
    BY DEF Inductive, Coherent, Led
  <2>2. stream[p] \in Seq(Frame) /\ Len(stream[p]) \in Nat \ {0}
    BY DEF Inductive, TypeOK
  <2>3. Fits(p, w[1 - 1], stream[p][1]) /\ w[0] = view[p]
    BY <2>1, <2>2 DEF Leads
  <2>4. Head(stream[p]) = stream[p][1] /\ w[1 - 1] = w[0]
    BY <2>2
  <2>. QED BY <2>3, <2>4 DEF Fits
<1>. QED BY <1>1, AlwaysInductive, PTL

\* Of two pages that see each other exactly one offers.
THEOREM PairsMakeOneOffer == Spec => []OneOfAPairOffers
<1>1. Inductive => OneOfAPairOffers
  <2>. SUFFICES ASSUME Inductive, NEW p \in Peer, NEW q \in Peer, SeeEachOther(p, q)
                PROVE  Offers(p, q) <=> ~Offers(q, p)
    BY DEF OneOfAPairOffers
  <2>1. conn[p] = "live" /\ conn[q] = "live" /\ Known(p, view[p]) /\ Known(q, view[q])
    <3>1. ASSUME NEW x \in Peer, conn[x] = "live" PROVE Known(x, view[x])
      <4>1. PICK w : /\ Leads(x, w, stream[x], view[x], Without(peers[home[x]], x))
                     /\ \A i \in 0..Len(stream[x]) : Known(x, w[i])
        BY <3>1 DEF Inductive, Coherent, Led
      <4>2. 0 \in 0..Len(stream[x])
        BY DEF Inductive, TypeOK
      <4>. QED BY <4>1, <4>2 DEF Leads
    <3>. QED BY <3>1 DEF SeeEachOther
  <2>2. /\ p # q /\ home[p] = home[q]
        /\ view[p][q].seq = peers[home[p]][q].seq
        /\ view[q][p].seq = peers[home[p]][p].seq
    BY <2>1 DEF SeeEachOther, Known
  <2>3. PICK r \in Room : home[p] = r /\ p \in Members(r)
    BY <2>1 DEF Inductive, Structure, Homes
  <2>4. q \in Members(r)
    BY <2>1, <2>2, <2>3 DEF Inductive, Structure, Homes
  <2>5. peers[r][p].seq \in Nat /\ peers[r][q].seq \in Nat
    BY <2>3, <2>4, MemberInfo DEF Inductive, Info
  <2>6. peers[r][p].seq # peers[r][q].seq
    BY <2>2, <2>3, <2>4 DEF Inductive, Structure, Sequences
  <2>. QED BY <2>2, <2>3, <2>5, <2>6 DEF Offers
<1>. QED BY <1>1, AlwaysInductive, PTL

-----------------------------------------------------------------------------
(* What a lobby page has been sent: the whole list each time, so the last     *)
(* list on its way to it, or else the one it shows, is the present.           *)

\* The newest list a lobby page was sent, read or not.
Newest(w) == IF lobbyStream[w] = <<>> THEN lobbyView[w] ELSE lobbyStream[w][Len(lobbyStream[w])]

\* An open page is on the registry's list and has been sent the rooms there are.
Listens(w) == w \in lobby /\ Newest(w) = Summaries
LobbyInv == \A w \in Watcher : watch[w] = "open" => Listens(w)

\* What an operation that tells the lobby does for an open page.
LEMMA TellListens ==
  ASSUME TypeOK, TypeOK', LobbyInv, TellLobby PROVE LobbyInv'
<1> SUFFICES ASSUME NEW w \in Watcher, watch'[w] = "open" PROVE Listens(w)'
  BY DEF LobbyInv
<1>1. w \in lobby /\ watch[w] = "open"
  BY DEF TellLobby, LobbyInv, Listens
<1>2. lobbyStream[w] \in Seq(RoomList) /\ lobbyStream' \in [Watcher -> Seq(RoomList)]
  BY DEF TypeOK
<1>3. lobbyStream'[w] = Append(lobbyStream[w], Summaries')
  BY <1>1 DEF TellLobby
<1>4. Summaries' \in RoomList
  BY <1>2, <1>3 DEF TypeOK
<1>5. Newest(w)' = Summaries'
  BY <1>2, <1>3, <1>4 DEF Newest
<1> QED
  BY <1>1, <1>5 DEF Listens, TellLobby

\* An operation that changes neither a room nor who is in it changes no list.
LEMMA SameList ==
  ASSUME UNCHANGED room, \A r \in Room : Members(r)' = Members(r)
  PROVE  Summaries' = Summaries
BY DEF Summaries

\* Neither does one that leaves the lobby alone disturb its pages.
LEMMA StillListens ==
  ASSUME LobbyInv, UNCHANGED lobbyVars, Summaries' = Summaries
  PROVE  LobbyInv'
BY DEF LobbyInv, Listens, Newest, lobbyVars

\* What is read from the front leaves the last where it is.
LEMMA LastOfTail ==
  ASSUME NEW S, NEW s \in Seq(S), s # <<>>
  PROVE  IF Tail(s) = <<>> THEN Head(s) = s[Len(s)]
                           ELSE Tail(s)[Len(Tail(s))] = s[Len(s)]
<1>1. /\ Len(s) \in Nat \ {0} /\ Tail(s) \in Seq(S) /\ Len(Tail(s)) = Len(s) - 1
      /\ Head(s) = s[1] /\ \A i \in 1..Len(Tail(s)) : Tail(s)[i] = s[i + 1]
  BY SMT
<1>2. CASE Tail(s) = <<>>
  <2>1. Len(<<>>) = 0
    OBVIOUS
  <2>2. Len(Tail(s)) = 0
    BY <1>2, <2>1, Zenon
  <2>3. \A n \in Nat \ {0} : n - 1 = 0 => n = 1
    OBVIOUS
  <2> QED
    BY <1>1, <1>2, <2>2, <2>3, Zenon
<1>3. CASE Tail(s) # <<>>
  <2>1. Len(Tail(s)) \in Nat \ {0}
    BY <1>1, <1>3
  <2>2. Tail(s)[Len(Tail(s))] = s[Len(Tail(s)) + 1]
    BY <1>1, <2>1
  <2> QED
    BY <1>1, <1>3, <2>2
<1> QED
  BY <1>2, <1>3

LEMMA ReadListens ==
  ASSUME TypeOK, LobbyInv, NEW w \in Watcher, ReadLobby(w) PROVE LobbyInv'
<1>1. Summaries' = Summaries
  BY DEF ReadLobby, Summaries, Members, InView
<1>2. watch[w] = "open" /\ Listens(w)
  BY DEF ReadLobby, LobbyInv
<1>3. lobbyStream[w] \in Seq(RoomList) /\ lobbyStream[w] # <<>>
  BY DEF ReadLobby, TypeOK
<1>4. lobbyView'[w] = Head(lobbyStream[w]) /\ lobbyStream'[w] = Tail(lobbyStream[w])
  BY DEF ReadLobby, TypeOK
<1>5. Newest(w)' = Newest(w)
  BY <1>3, <1>4, LastOfTail DEF Newest
<1>6. \A v \in Watcher \ {w} : lobbyView'[v] = lobbyView[v] /\ lobbyStream'[v] = lobbyStream[v]
  BY DEF ReadLobby, TypeOK
<1> QED
  BY <1>1, <1>2, <1>5, <1>6 DEF LobbyInv, Listens, Newest, ReadLobby

LEMMA WatchListens ==
  ASSUME TypeOK, LobbyInv, NEW w \in Watcher, WatchLobby(w) PROVE LobbyInv'
<1>1. Summaries' = Summaries
  BY DEF WatchLobby, Summaries, Members, InView
<1>2. lobbyStream'[w] = <<Summaries>>
  BY DEF WatchLobby, TypeOK
<1>3. Listens(w)'
  BY <1>1, <1>2 DEF Listens, Newest, WatchLobby
<1>4. \A v \in Watcher \ {w} : watch'[v] = watch[v] /\ lobbyStream'[v] = lobbyStream[v]
  BY DEF WatchLobby, TypeOK
<1> QED
  BY <1>1, <1>3, <1>4 DEF LobbyInv, Listens, Newest, WatchLobby

LEMMA LeaveLobbyListens ==
  ASSUME TypeOK, LobbyInv, NEW w \in Watcher, LeaveLobby(w) PROVE LobbyInv'
<1>1. Summaries' = Summaries
  BY DEF LeaveLobby, Summaries, Members, InView
<1>2. watch'[w] = "closed"
  BY DEF LeaveLobby, TypeOK
<1>3. \A v \in Watcher \ {w} : /\ watch'[v] = watch[v] /\ lobbyStream'[v] = lobbyStream[v]
                               /\ lobbyView'[v] = lobbyView[v]
  BY DEF LeaveLobby, TypeOK
<1> QED
  BY <1>1, <1>2, <1>3 DEF LobbyInv, Listens, Newest, LeaveLobby

LEMMA NextListens ==
  ASSUME TypeOK, TypeOK', Structure, LobbyInv, [Next]_vars PROVE LobbyInv'
<1>1. ASSUME NEW p \in Peer, NEW r \in Room, NEW u \in User, NEW t \in Title, Join(p, r, u, t)
      PROVE  LobbyInv'
  BY <1>1, TellListens DEF Join
<1>2. ASSUME NEW r \in Room, NEW u \in User, NEW from \in Peer, NEW s \in Source,
             SetSources(r, u, from, s)
      PROVE  LobbyInv'
  BY <1>2, SourcesEffect, SameList, StillListens DEF SetSources
<1>3. ASSUME NEW r \in Room, NEW u \in User, NEW from \in Peer, NEW to \in Peer, NEW k \in Kind,
             Relay(r, u, from, to, k)
      PROVE  LobbyInv'
  BY <1>3, SameList, StillListens DEF Relay, Members, InView
<1>4. ASSUME NEW p \in Peer, Disconnect(p) \/ Read(p) PROVE LobbyInv'
  BY <1>4, SameList, StillListens DEF Disconnect, Read, Members, InView
<1>5. ASSUME NEW p \in Peer, Leave(p) PROVE LobbyInv'
  <2>1. CASE p \in Members(home[p])
    BY <1>5, <2>1, TellListens DEF Leave
  <2>2. CASE p \notin Members(home[p])
    BY <1>5, <2>2, SameList, StillListens DEF Leave, Members, InView
  <2> QED
    BY <2>1, <2>2
<1>6. CASE Keepalive
  BY <1>6, SameList DEF Keepalive, LobbyInv, Listens, Newest, Members, InView
<1>7. CASE Restart
  BY <1>7 DEF Restart, LobbyInv
<1>8. CASE UNCHANGED vars
  BY <1>8, SameList, StillListens DEF vars, Members, InView
<1> QED
  BY <1>1, <1>2, <1>3, <1>4, <1>5, <1>6, <1>7, <1>8, ReadListens, WatchListens, LeaveLobbyListens
     DEF Next

\* A lobby page that has read everything shows the rooms there are (state.rs,
\* tell_lobby, watch_lobby, keepalive).
THEOREM LobbyPagesAreCurrent == Spec => []LobbyCaughtUpIsCurrent
<1>1. Init => LobbyInv
  BY DEF Init, LobbyInv
<1>2. Inductive /\ Inductive' /\ LobbyInv /\ [Next]_vars => LobbyInv'
  BY NextListens DEF Inductive
<1>3. LobbyInv => LobbyCaughtUpIsCurrent
  BY DEF LobbyInv, Listens, Newest, LobbyCaughtUpIsCurrent
<1> QED
  BY AlwaysInductive, <1>1, <1>2, <1>3, PTL DEF Spec

-----------------------------------------------------------------------------
\* Of a room that stays open, what a step may change of its plate.
StaysPut(r) ==
  room[r] # Absent /\ room'[r] # Absent
    => /\ room'[r].title = room[r].title
       /\ room'[r].startedBy = room[r].startedBy
       /\ room'[r].nextSeq >= room[r].nextSeq

LEMMA PlatesStay ==
  ASSUME TypeOK, [Next]_vars, NEW r \in Room PROVE StaysPut(r)
<1>0. room[r] # Absent => room[r] \in Plate
  BY DEF TypeOK
<1>1. CASE room'[r] = room[r] \/ room'[r] = Absent
  BY <1>0, <1>1 DEF StaysPut, Plate
<1>2. ASSUME NEW p \in Peer, NEW s \in Room, NEW u \in User, NEW t \in Title, Join(p, s, u, t)
      PROVE  StaysPut(r)
  <2>1. CASE s = r /\ room[r] # Absent
    <3>1. room'[r] = [room[r] EXCEPT !.nextSeq = @ + 1]
      BY <1>2, <2>1 DEF Join, Found, TypeOK
    <3> QED
      BY <1>0, <3>1 DEF StaysPut, Plate
  <2>2. CASE s # r
    BY <1>1, <1>2, <2>2 DEF Join, TypeOK
  <2> QED
    BY <2>1, <2>2 DEF StaysPut
<1>3. ASSUME NEW p \in Peer, Leave(p) PROVE StaysPut(r)
  BY <1>1, <1>3 DEF Leave, Kept, TypeOK
<1>4. CASE Restart
  BY <1>1, <1>4 DEF Restart
<1>5. CASE UNCHANGED room
  BY <1>1, <1>5
<1> QED
  BY <1>2, <1>3, <1>4, <1>5 DEF Next, vars, SetSources, Relay, Disconnect, Read, WatchLobby,
     LeaveLobby, ReadLobby, Keepalive

\* A room keeps its title and its opener, and its sequences only grow (state.rs,
\* join).
THEOREM PlatesAreKept == Spec => RoomKeepsItsPlate
<1>1. TypeOK /\ [Next]_vars =>
        [\A r \in Room :
           room[r] # Absent /\ room'[r] # Absent
             => /\ room'[r].title = room[r].title
                /\ room'[r].startedBy = room[r].startedBy
                /\ room'[r].nextSeq >= room[r].nextSeq]_vars
  BY PlatesStay DEF StaysPut
<1> QED
  BY TypeCorrect, <1>1, PTL DEF Spec, RoomKeepsItsPlate
-----------------------------------------------------------------------------
(* The refinement of LiveMembership: each step of LiveRooms is a step of the *)
(* abstract room or none.  What a stream amounts to is defined by recursion  *)
(* on its length, so what is said of it is said by induction on that length, *)
(* an induction over a set of numbers.                                       *)
(*                                                                           *)
(* Induction, from the library's fact that no chain of ever smaller finite   *)
(* sets is endless.                                                          *)

\* A set of numbers has a least one: of the intervals up to each of its members
\* none is strictly within all the others but one.
LEMMA LeastOf ==
  ASSUME NEW S \in SUBSET Nat, NEW n \in S
  PROVE  \E m \in S : \A k \in S : m <= k
<1>. DEFINE T == {1..k : k \in S}
<1>1. T \subseteq FiniteSubsetsOf(Nat) /\ T # {}
  BY FS_Interval DEF FiniteSubsetsOf
<1>2. PICK x \in T : \A y \in T : <<y, x>> \notin StrictSubsetOrdering(Nat)
  BY <1>1, FS_StrictSubsetOrderingWellFounded, WFMin
<1>3. PICK m \in S : x = 1..m
  BY <1>2
<1>4. ASSUME NEW k \in S, k < m PROVE FALSE
  <2>1. 1..k \subseteq 1..m /\ m \in 1..m /\ m \notin 1..k
    BY <1>3, <1>4
  <2>2. 1..k \in T /\ 1..k \in SUBSET Nat /\ 1..m \in SUBSET Nat
    BY <1>3, <1>4
  <2>. QED BY <1>2, <1>3, <2>1, <2>2 DEF StrictSubsetOrdering
<1>. QED BY <1>4

\* A set that has 0, and with each number up to n the next, has them all.
LEMMA ByInduction ==
  ASSUME NEW n \in Nat, NEW P, 0 \in P, \A i \in 0..n - 1 : i \in P => i + 1 \in P
  PROVE  \A i \in 0..n : i \in P
<1>. DEFINE Bad == {i \in 0..n : i \notin P}
<1>1. ASSUME NEW b \in Bad PROVE FALSE
  <2>1. Bad \in SUBSET Nat
    OBVIOUS
  <2>2. PICK m \in Bad : \A k \in Bad : m <= k
    BY <2>1, LeastOf
  <2>3. m # 0 /\ m - 1 \in 0..n - 1 /\ m - 1 \notin Bad
    BY <2>2
  <2>4. m - 1 \in P
    BY <2>3
  <2>5. m - 1 + 1 = m
    BY <2>2
  <2>. QED BY <2>2, <2>3, <2>4, <2>5
<1>. QED BY <1>1

-----------------------------------------------------------------------------
(* What a stream amounts to.                                                 *)

\* The rosters after frame f, q being those before it.
Shown(v, q, f) == IF f.type = "signal" THEN q ELSE Append(q, Apply(Latest(v, q), f))

\* g[i] lists the rosters the first i frames of s lead to.
Showing(g, v, s) ==
  g = [i \in 0..Len(s) |-> IF i = 0 THEN <<>>
                           ELSE IF s[i].type = "signal" THEN g[i - 1]
                           ELSE Append(g[i - 1], Apply(Latest(v, g[i - 1]), s[i]))]

LEMMA ToShowIs ==
  ASSUME NEW v, NEW s PROVE ToShow(v, s) = (CHOOSE g : Showing(g, v, s))[Len(s)]
BY DEF ToShow, Showing

\* The same up to frame n, an entry at a time.
Upto(g, v, s, n) ==
  /\ g = [i \in 0..n |-> g[i]]
  /\ g[0] = <<>>
  /\ \A i \in 1..n : g[i] = Shown(v, g[i - 1], s[i])

LEMMA ShowingIs ==
  ASSUME NEW v, NEW s \in Seq(Frame), NEW g
  PROVE  Showing(g, v, s) <=> Upto(g, v, s, Len(s))
<1>. DEFINE n == Len(s)
            e(i) == IF i = 0 THEN <<>>
                    ELSE IF s[i].type = "signal" THEN g[i - 1]
                    ELSE Append(g[i - 1], Apply(Latest(v, g[i - 1]), s[i]))
<1>1. n \in Nat /\ \A i \in 0..n : i # 0 <=> i \in 1..n
  OBVIOUS
<1>2. e(0) = <<>> /\ \A i \in 1..n : e(i) = Shown(v, g[i - 1], s[i])
  BY <1>1 DEF Shown
<1>3. Showing(g, v, s) <=> g = [i \in 0..n |-> e(i)]
  BY DEF Showing
<1>. HIDE DEF e, n
<1>4. g = [i \in 0..n |-> e(i)] <=> g = [i \in 0..n |-> g[i]] /\ \A i \in 0..n : g[i] = e(i)
  OBVIOUS
<1>5. (\A i \in 0..n : g[i] = e(i)) <=> g[0] = e(0) /\ \A i \in 1..n : g[i] = e(i)
  BY <1>1
<1>. QED BY <1>2, <1>3, <1>4, <1>5 DEF n, Upto

\* There is such a list.
LEMMA SomeShowing ==
  ASSUME NEW v, NEW s \in Seq(Frame) PROVE \E g : Showing(g, v, s)
<1>. DEFINE n == Len(s)
            P == {k \in 0..n : \E g : Upto(g, v, s, k)}
<1>1. n \in Nat
  OBVIOUS
<1>2. 0 \in P
  <2>1. Upto([i \in 0..0 |-> <<>>], v, s, 0)
    BY DEF Upto
  <2>. QED BY <1>1, <2>1
<1>3. ASSUME NEW k \in 0..n - 1, k \in P PROVE k + 1 \in P
  <2>1. PICK g : Upto(g, v, s, k)
    BY <1>3
  <2>. DEFINE h == [i \in 0..k + 1 |-> IF i = k + 1 THEN Shown(v, g[k], s[k + 1]) ELSE g[i]]
  <2>2. h = [i \in 0..k + 1 |-> h[i]] /\ h[0] = <<>>
    BY <1>1, <2>1 DEF Upto
  <2>3. ASSUME NEW i \in 1..k + 1 PROVE h[i] = Shown(v, h[i - 1], s[i])
    <3>1. CASE i = k + 1
      <4>1. h[i] = Shown(v, g[k], s[k + 1]) /\ i - 1 = k /\ h[k] = g[k]
        BY <1>1, <3>1
      <4>. HIDE DEF h
      <4>. QED BY <3>1, <4>1
    <3>2. CASE i # k + 1
      <4>1. i \in 1..k /\ h[i] = g[i] /\ h[i - 1] = g[i - 1]
        BY <1>1, <3>2
      <4>. HIDE DEF h
      <4>. QED BY <2>1, <4>1 DEF Upto
    <3>. QED BY <3>1, <3>2
  <2>4. Upto(h, v, s, k + 1) /\ k + 1 \in 0..n
    <3>. HIDE DEF h
    <3>. QED BY <1>1, <2>2, <2>3 DEF Upto
  <2>. QED BY <2>4
<1>4. n \in P
  <2>. HIDE DEF P, n
  <2>1. \A i \in 0..n : i \in P
    BY <1>1, <1>2, <1>3, ByInduction
  <2>. QED BY <1>1, <2>1
<1>5. PICK g : Upto(g, v, s, n)
  BY <1>4
<1>6. Showing(g, v, s)
  BY <1>5, ShowingIs
<1>. QED BY <1>6

\* And ToShow is its last entry.
LEMMA TheShowing ==
  ASSUME NEW v, NEW s \in Seq(Frame)
  PROVE  \E g : ToShow(v, s) = g[Len(s)] /\ Upto(g, v, s, Len(s))
<1>1. PICK g : g = CHOOSE h : Showing(h, v, s)
  OBVIOUS
<1>2. Showing(g, v, s)
  BY <1>1, SomeShowing
<1>3. ToShow(v, s) = g[Len(s)]
  BY <1>1, ToShowIs
<1>. QED BY <1>2, <1>3, ShowingIs

\* Two streams that begin with the same n frames.
LEMMA Alike ==
  ASSUME NEW v, NEW s, NEW t, NEW n \in Nat, NEW g, NEW h, Upto(g, v, s, n),
         NEW m \in Nat, n <= m, Upto(h, v, t, m), \A i \in 1..n : s[i] = t[i]
  PROVE  g[n] = h[n]
<1>. DEFINE P == {i \in 0..n : g[i] = h[i]}
<1>1. 0 \in P
  BY DEF Upto
<1>2. ASSUME NEW i \in 0..n - 1, i \in P PROVE i + 1 \in P
  <2>1. i + 1 \in 1..n /\ i + 1 \in 1..m /\ (i + 1) - 1 = i /\ g[i] = h[i]
    BY <1>2
  <2>2. g[i + 1] = Shown(v, g[i], s[i + 1]) /\ h[i + 1] = Shown(v, h[i], t[i + 1])
    BY <2>1 DEF Upto
  <2>3. g[i + 1] = h[i + 1]
    BY <2>1, <2>2
  <2>. QED BY <2>1, <2>3
<1>. HIDE DEF P
<1>3. n \in P
  BY <1>1, <1>2, ByInduction
<1>. QED BY <1>3 DEF P

LEMMA ShowNothing ==
  ASSUME NEW v, NEW s \in Seq(Frame), s = <<>> PROVE ToShow(v, s) = <<>>
<1>1. PICK g : ToShow(v, s) = g[Len(s)] /\ Upto(g, v, s, Len(s))
  BY TheShowing
<1>. QED BY <1>1 DEF Upto

\* One frame more, at the end of a stream.
LEMMA ShowMore ==
  ASSUME NEW v, NEW s \in Seq(Frame), NEW f \in Frame
  PROVE  ToShow(v, Append(s, f)) = Shown(v, ToShow(v, s), f)
<1>1. PICK n, t : n = Len(s) /\ t = Append(s, f)
  OBVIOUS
<1>2. /\ n \in Nat /\ n + 1 \in Nat /\ t \in Seq(Frame) /\ Len(t) = n + 1 /\ t[n + 1] = f
      /\ \A i \in 1..n : s[i] = t[i]
  BY <1>1
<1>3. PICK g : ToShow(v, s) = g[n] /\ Upto(g, v, s, n)
  BY <1>1, TheShowing
<1>4. PICK h : ToShow(v, t) = h[Len(t)] /\ Upto(h, v, t, Len(t))
  BY <1>2, TheShowing
<1>5. h[n + 1] = Shown(v, h[n], f)
  <2>1. n + 1 \in 1..Len(t) /\ (n + 1) - 1 = n
    BY <1>2
  <2>2. h[n + 1] = Shown(v, h[(n + 1) - 1], t[n + 1])
    BY <1>4, <2>1 DEF Upto
  <2>. QED BY <1>2, <2>1, <2>2
<1>6. g[n] = h[n]
  <2>1. Upto(h, v, t, n + 1) /\ n <= n + 1
    BY <1>2, <1>4
  <2>. QED BY <1>2, <1>3, <2>1, Alike
<1>. QED BY <1>1, <1>2, <1>3, <1>4, <1>5, <1>6

Rosters == Seq(View \cup {NoView})

LEMMA ShownType ==
  ASSUME NEW v \in View \cup {NoView}, NEW q \in Rosters, NEW f \in Frame
  PROVE  Shown(v, q, f) \in Rosters
<1>1. Latest(v, q) \in View \cup {NoView}
  <2>1. q # <<>> => Len(q) \in 1..Len(q)
    BY DEF Rosters
  <2>. QED BY <2>1 DEF Latest, Rosters
<1>2. Apply(Latest(v, q), f) \in View \cup {NoView}
  BY <1>1, ApplyType
<1>. QED BY <1>2 DEF Shown, Rosters

LEMMA UptoType ==
  ASSUME NEW v \in View \cup {NoView}, NEW s \in Seq(Frame), NEW g, Upto(g, v, s, Len(s))
  PROVE  \A i \in 0..Len(s) : g[i] \in Rosters
<1>1. PICK n : n = Len(s) /\ n \in Nat
  OBVIOUS
<1>. DEFINE P == {i \in 0..n : g[i] \in Rosters}
<1>2. 0 \in P
  <2>1. <<>> \in Rosters
    BY DEF Rosters
  <2>. QED BY <1>1, <2>1 DEF Upto
<1>3. ASSUME NEW i \in 0..n - 1, i \in P PROVE i + 1 \in P
  <2>1. i + 1 \in 1..n /\ (i + 1) - 1 = i /\ g[i] \in Rosters /\ s[i + 1] \in Frame
    BY <1>1, <1>3
  <2>2. g[i + 1] = Shown(v, g[i], s[i + 1])
    BY <1>1, <2>1 DEF Upto
  <2>3. g[i + 1] \in Rosters
    BY <2>1, <2>2, ShownType
  <2>. QED BY <1>1, <2>1, <2>3
<1>. HIDE DEF P
<1>4. \A i \in 0..n : i \in P
  BY <1>1, <1>2, <1>3, ByInduction
<1>. QED BY <1>1, <1>4 DEF P

LEMMA ToShowType ==
  ASSUME NEW v \in View \cup {NoView}, NEW s \in Seq(Frame)
  PROVE  ToShow(v, s) \in Rosters
<1>1. PICK g : ToShow(v, s) = g[Len(s)] /\ Upto(g, v, s, Len(s))
  BY TheShowing
<1>2. \A i \in 0..Len(s) : g[i] \in Rosters
  BY <1>1, UptoType
<1>3. Len(s) \in 0..Len(s)
  OBVIOUS
<1>. QED BY <1>1, <1>2, <1>3

LEMMA LatestOfMore ==
  ASSUME NEW v, NEW q \in Rosters, NEW u \in View \cup {NoView}
  PROVE  Latest(v, Append(q, u)) = u
<1>1. PICK x : x = Append(q, u)
  OBVIOUS
<1>2. Len(q) \in Nat /\ Len(x) = Len(q) + 1 /\ x[Len(q) + 1] = u
  BY <1>1 DEF Rosters
<1>3. x # <<>>
  BY <1>2
<1>. QED BY <1>1, <1>2, <1>3 DEF Latest

\* Roster u and then those of q.
FirstOf(u, q) == <<u>> \o q

LEMMA FirstOfIs ==
  ASSUME NEW u \in View \cup {NoView}, NEW q \in Rosters
  PROVE  FirstOf(u, q) # <<>> /\ Head(FirstOf(u, q)) = u /\ Tail(FirstOf(u, q)) = q
BY DEF FirstOf, Rosters

LEMMA ShownBehind ==
  ASSUME NEW v, NEW u \in View \cup {NoView}, NEW q \in Rosters, NEW f \in Frame,
         NEW x, x = FirstOf(u, q)
  PROVE  Shown(v, x, f) = FirstOf(u, Shown(u, q, f))
<1>1. /\ x \in Rosters /\ Len(x) = Len(q) + 1 /\ Len(q) \in Nat /\ x[1] = u
      /\ \A i \in 1..Len(q) : x[i + 1] = q[i]
  BY DEF Rosters, FirstOf
<1>2. Latest(v, x) = Latest(u, q)
  <2>1. x # <<>>
    BY <1>1
  <2>2. CASE q = <<>>
    <3>1. Len(q) = 0
      BY <2>2
    <3>. QED BY <1>1, <2>1, <2>2, <3>1 DEF Latest
  <2>3. CASE q # <<>>
    <3>1. Len(q) \in 1..Len(q)
      BY <2>3 DEF Rosters
    <3>. QED BY <1>1, <2>1, <2>3, <3>1 DEF Latest
  <2>. QED BY <2>2, <2>3
<1>3. CASE f.type = "signal"
  BY <1>3 DEF Shown
<1>4. CASE f.type # "signal"
  <2>. DEFINE y == Apply(Latest(u, q), f)
  <2>1. Append(x, y) = FirstOf(u, Append(q, y))
    BY DEF Rosters, FirstOf
  <2>. QED BY <1>2, <1>4, <2>1 DEF Shown
<1>. QED BY <1>3, <1>4

\* What reading the first frame of a stream leaves to be shown.
LEMMA ShowRest ==
  ASSUME NEW v \in View \cup {NoView}, NEW s \in Seq(Frame), s # <<>>,
         NEW u, u = Apply(v, Head(s))
  PROVE  IF Head(s).type = "signal" THEN ToShow(v, s) = ToShow(u, Tail(s))
                                    ELSE ToShow(v, s) = FirstOf(u, ToShow(u, Tail(s)))
<1>1. PICK n, t : n = Len(s) - 1 /\ t = Tail(s)
  OBVIOUS
<1>2. /\ n \in Nat /\ Len(s) = n + 1 /\ t \in Seq(Frame) /\ Len(t) = n /\ Head(s) = s[1]
      /\ Head(s) \in Frame /\ \A i \in 1..n : t[i] = s[i + 1] /\ t[i] \in Frame
  BY <1>1
<1>3. u \in View \cup {NoView}
  BY <1>2, ApplyType
<1>4. PICK g : ToShow(v, s) = g[n + 1] /\ Upto(g, v, s, n + 1)
  BY <1>2, TheShowing
<1>5. PICK h : ToShow(u, t) = h[n] /\ Upto(h, u, t, n)
  BY <1>2, TheShowing
<1>6. \A i \in 0..n : h[i] \in Rosters
  BY <1>2, <1>3, <1>5, UptoType
<1>7. g[1] = Shown(v, <<>>, Head(s)) /\ h[0] = <<>>
  <2>1. 1 \in 1..n + 1 /\ 1 - 1 = 0
    BY <1>2
  <2>2. g[1] = Shown(v, g[1 - 1], s[1]) /\ g[0] = <<>>
    BY <1>4, <2>1 DEF Upto
  <2>3. h[0] = <<>>
    BY <1>5 DEF Upto
  <2>. QED BY <1>2, <2>1, <2>2, <2>3
<1>8. ASSUME NEW i \in 0..n - 1
      PROVE  /\ i + 1 \in 0..n /\ t[i + 1] \in Frame /\ h[i] \in Rosters
             /\ g[(i + 1) + 1] = Shown(v, g[i + 1], t[i + 1])
             /\ h[i + 1] = Shown(u, h[i], t[i + 1])
  <2>1. /\ i + 1 \in 1..n /\ (i + 1) + 1 \in 1..n + 1 /\ (i + 1) - 1 = i
        /\ ((i + 1) + 1) - 1 = i + 1 /\ i \in 0..n /\ i + 1 \in 0..n
    BY <1>2
  <2>2. t[i + 1] = s[(i + 1) + 1] /\ t[i + 1] \in Frame
    BY <1>2, <2>1
  <2>. QED BY <1>4, <1>5, <1>6, <2>1, <2>2 DEF Upto
<1>9. CASE Head(s).type = "signal"
  <2>. DEFINE P == {i \in 0..n : g[i + 1] = h[i]}
  <2>1. u = v
    BY <1>9 DEF Apply
  <2>2. 0 \in P
    BY <1>2, <1>7, <1>9 DEF Shown
  <2>3. ASSUME NEW i \in 0..n - 1, i \in P PROVE i + 1 \in P
    BY <1>8, <2>1, <2>3
  <2>. HIDE DEF P
  <2>4. n \in P
    BY <1>2, <2>2, <2>3, ByInduction
  <2>. QED BY <1>1, <1>4, <1>5, <1>9, <2>4 DEF P
<1>10. CASE Head(s).type # "signal"
  <2>. DEFINE P == {i \in 0..n : g[i + 1] = FirstOf(u, h[i])}
  <2>1. g[1] = <<u>>
    BY <1>7, <1>10 DEF Shown, Latest
  <2>2. 0 \in P
    <3>1. FirstOf(u, <<>>) = <<u>>
      BY DEF FirstOf
    <3>2. g[0 + 1] = FirstOf(u, h[0])
      BY <1>7, <2>1, <3>1
    <3>. QED BY <1>2, <3>2
  <2>3. ASSUME NEW i \in 0..n - 1, i \in P PROVE i + 1 \in P
    <3>1. g[i + 1] = FirstOf(u, h[i])
      BY <2>3
    <3>2. Shown(v, g[i + 1], t[i + 1]) = FirstOf(u, Shown(u, h[i], t[i + 1]))
      BY <1>3, <1>8, <3>1, ShownBehind
    <3>3. g[(i + 1) + 1] = FirstOf(u, h[i + 1])
      BY <1>8, <3>1, <3>2
    <3>. QED BY <1>8, <3>3
  <2>. HIDE DEF P
  <2>4. n \in P
    BY <1>2, <2>2, <2>3, ByInduction
  <2>. QED BY <1>1, <1>4, <1>5, <1>10, <2>4 DEF P
<1>. QED BY <1>9, <1>10

\* The last of what a page is to be shown is where its stream leads.
LEMMA LastShown ==
  ASSUME NEW p, NEW s \in Seq(Frame), NEW a, NEW z, NEW w, Leads(p, w, s, a, z)
  PROVE  ToShow(a, s) \in Rosters /\ Latest(a, ToShow(a, s)) = z
<1>1. PICK n : n = Len(s) /\ n \in Nat
  OBVIOUS
<1>2. /\ w \in [0..n -> View \cup {NoView}] /\ w[0] = a /\ w[n] = z
      /\ \A i \in 1..n : w[i] = Apply(w[i - 1], s[i])
  BY <1>1 DEF Leads
<1>3. a \in View \cup {NoView}
  BY <1>1, <1>2
<1>4. PICK g : ToShow(a, s) = g[n] /\ Upto(g, a, s, n)
  BY <1>1, TheShowing
<1>5. \A i \in 0..n : g[i] \in Rosters
  BY <1>1, <1>3, <1>4, UptoType
<1>. DEFINE P == {i \in 0..n : Latest(a, g[i]) = w[i]}
<1>6. 0 \in P
  BY <1>1, <1>2, <1>4 DEF Latest, Upto
<1>7. ASSUME NEW i \in 0..n - 1, i \in P PROVE i + 1 \in P
  <2>1. /\ i + 1 \in 1..n /\ (i + 1) - 1 = i /\ i \in 0..n /\ i + 1 \in 0..n
        /\ Latest(a, g[i]) = w[i] /\ g[i] \in Rosters
        /\ w[i + 1] \in View \cup {NoView}
    BY <1>1, <1>2, <1>5, <1>7
  <2>2. g[i + 1] = Shown(a, g[i], s[i + 1]) /\ w[i + 1] = Apply(w[i], s[i + 1])
    BY <1>2, <1>4, <2>1 DEF Upto
  <2>3. CASE s[i + 1].type = "signal"
    BY <2>1, <2>2, <2>3 DEF Shown, Apply
  <2>4. CASE s[i + 1].type # "signal"
    <3>1. g[i + 1] = Append(g[i], w[i + 1])
      BY <2>1, <2>2, <2>4 DEF Shown
    <3>2. Latest(a, g[i + 1]) = w[i + 1]
      BY <2>1, <3>1, LatestOfMore
    <3>. QED BY <2>1, <3>2
  <2>. QED BY <2>3, <2>4
<1>. HIDE DEF P
<1>8. n \in P
  BY <1>1, <1>6, <1>7, ByInduction
<1>. QED BY <1>1, <1>2, <1>4, <1>5, <1>8 DEF P

-----------------------------------------------------------------------------
(* How far sequences go.                                                     *)

\* Who has ever joined.  Each of them took one sequence.
Born == {p \in Peer : conn[p] # "unborn"}
SeqsMinted == \A r \in Room : room[r] # Absent => room[r].nextSeq <= Cardinality(Born)

LEMMA BornFinite == /\ IsFiniteSet(Born) /\ Cardinality(Born) \in Nat
                    /\ Cardinality(Peer) \in Nat /\ Cardinality(Born) <= Cardinality(Peer)
<1>1. Born \subseteq Peer
  BY DEF Born
<1>2. IsFiniteSet(Born) /\ Cardinality(Born) <= Cardinality(Peer)
  BY <1>1, FS_Subset
<1>. QED BY <1>2, FS_CardinalityType

LEMMA NextMinted ==
  ASSUME TypeOK, Structure, SeqsMinted, [Next]_vars PROVE SeqsMinted'
<1>1. ASSUME NEW p \in Peer, NEW r \in Room, NEW u \in User, NEW t \in Title, Join(p, r, u, t)
      PROVE  SeqsMinted'
  <2>1. Born' = Born \cup {p} /\ p \notin Born
    BY <1>1 DEF Join, Born, TypeOK
  <2>2. Cardinality(Born') = Cardinality(Born) + 1
    BY <2>1, BornFinite, FS_AddElement
  <2>3. Found(r, u, t) \in Plate /\ Found(r, u, t).nextSeq <= Cardinality(Born)
    <3>1. Found(r, u, t) \in Plate
      BY FoundType DEF TypeOK
    <3>. QED BY <3>1, BornFinite DEF Found, SeqsMinted
  <2>4. /\ room'[r].nextSeq = Found(r, u, t).nextSeq + 1
        /\ \A s \in Room \ {r} : room'[s] = room[s]
    <3>1. /\ room'[r] = [Found(r, u, t) EXCEPT !.nextSeq = @ + 1]
          /\ \A s \in Room \ {r} : room'[s] = room[s]
      BY <1>1, JoinEffect
    <3>. QED BY <2>3, <3>1 DEF Plate
  <2>5. \A s \in Room : room[s] # Absent => room[s].nextSeq \in Nat
    BY DEF TypeOK, Plate
  <2>. SUFFICES ASSUME NEW s \in Room, room'[s] # Absent
                PROVE  room'[s].nextSeq <= Cardinality(Born')
    BY DEF SeqsMinted
  <2>6. CASE s = r
    BY <2>2, <2>3, <2>4, <2>6, BornFinite DEF Plate
  <2>7. CASE s # r
    BY <2>2, <2>4, <2>5, <2>7, BornFinite DEF SeqsMinted
  <2>. QED BY <2>6, <2>7
<1>2. ASSUME Born' = Born, \A r \in Room : room'[r] = room[r] \/ room'[r] = Absent
      PROVE  SeqsMinted'
  BY <1>2 DEF SeqsMinted
<1>3. ASSUME NEW p \in Peer, Disconnect(p) \/ Leave(p) \/ Read(p) PROVE SeqsMinted'
  <2>1. Born' = Born
    BY <1>3 DEF Disconnect, Leave, Read, Born, TypeOK
  <2>2. \A r \in Room : room'[r] = room[r] \/ room'[r] = Absent
    BY <1>3 DEF Disconnect, Leave, Read, Kept, TypeOK
  <2>. QED BY <1>2, <2>1, <2>2
<1>4. CASE Restart
  BY <1>4 DEF Restart, SeqsMinted
<1>5. ASSUME UNCHANGED <<room, conn>> PROVE SeqsMinted'
  BY <1>2, <1>5 DEF Born
<1>. QED
  BY <1>1, <1>3, <1>4, <1>5 DEF Next, vars, SetSources, Relay, WatchLobby, LeaveLobby, ReadLobby,
     Keepalive

LEMMA BoundedEntries ==
  ASSUME TypeOK, Structure, SeqsMinted, NEW r \in Room, NEW p \in Members(r)
  PROVE  peers[r][p] \in BoundedInfo
<1>1. peers[r][p] \in Info
  BY MemberInfo
<1>2. room[r] # Absent /\ peers[r][p].seq < room[r].nextSeq
  BY DEF Structure, RoomIsItsPeople, Sequences
<1>3. room[r].nextSeq \in Nat /\ room[r].nextSeq <= Cardinality(Born)
  BY <1>2 DEF TypeOK, Plate, SeqsMinted
<1>4. peers[r][p].seq \in 0..Cardinality(Peer)
  BY <1>1, <1>2, <1>3, BornFinite DEF Info
<1>. QED BY <1>1, <1>4 DEF Info, BoundedInfo

-----------------------------------------------------------------------------
(* Each step.                                                                *)

\* What a frame adds to what a page has still to be shown.
LEMMA OwedMore ==
  ASSUME TypeOK, Coherent, NEW q \in Peer, conn[q] = "live", NEW f \in Frame,
         NEW m, m = Apply(Without(peers[home[q]], q), f)
  PROVE  ToShow(view[q], Append(stream[q], f)) =
           IF f.type = "signal" THEN Owed[q] ELSE Append(Owed[q], m)
<1>1. PICK v, s, z : v = view[q] /\ s = stream[q] /\ z = Without(peers[home[q]], q)
  OBVIOUS
<1>2. s \in Seq(Frame) /\ Owed[q] = ToShow(v, s)
  BY <1>1 DEF TypeOK, Owed
<1>3. PICK w : Leads(q, w, s, v, z)
  BY <1>1 DEF Coherent, Led
<1>4. Latest(v, ToShow(v, s)) = z
  BY <1>2, <1>3, LastShown
<1>5. ToShow(v, Append(s, f)) = Shown(v, ToShow(v, s), f)
  BY <1>2, ShowMore
<1>. QED BY <1>1, <1>2, <1>4, <1>5 DEF Shown

LEMMA Same == /\ \A r \in Room : Membership!InRoom(r) = Members(r)
              /\ \A m, p : Membership!Others(m, p) = Without(m, p)
BY DEF Membership!InRoom, Membership!Others, Members, InView, Without

LEMMA JoinEnters ==
  ASSUME Inductive, SeqsMinted, Inductive', SeqsMinted', NEW p \in Peer, NEW r \in Room, NEW u \in User,
         NEW t \in Title, Join(p, r, u, t)
  PROVE  Membership!Enter(p, r, Newcomer(r, u, t)) /\ Newcomer(r, u, t) \in BoundedInfo
<1>. DEFINE i == Newcomer(r, u, t)
            f == [type |-> "peer-joined", peer |-> p, info |-> i]
            g == Greeting(p, r, u, t)
<1>0. TypeOK /\ Structure /\ Coherent /\ Blank
  BY DEF Inductive
<1>1. /\ conn[p] = "unborn" /\ view' = view
      /\ conn' = [conn EXCEPT ![p] = "live"]
      /\ stream' = [Announced(Members(r), f) EXCEPT ![p] = <<g>>]
      /\ peers' = [peers EXCEPT ![r][p] = i]
  BY DEF Join
<1>2. \A s \in Room : p \notin Members(s)
  BY <1>0, JoinEffect
<1>3. i \in Info /\ g \in Frame /\ f \in Frame /\ g.type = "hello" /\ g.roster = peers[r]
  <2>1. i \in Info /\ Found(r, u, t) \in Plate
    BY <1>0, FoundType DEF TypeOK
  <2>. QED BY <1>0, <2>1 DEF TypeOK, Greeting, Frame, Hello, Joined, Plate
<1>4. i \in BoundedInfo
  <2>1. /\ Cardinality(Born') \in Nat /\ Cardinality(Peer) \in Nat
        /\ Cardinality(Born') <= Cardinality(Peer)
    <3>1. Born' \subseteq Peer
      BY DEF Born
    <3>. QED BY <3>1, FS_Subset, FS_CardinalityType
  <2>2. Found(r, u, t) \in Plate
    BY <1>0, FoundType DEF TypeOK
  <2>3. room'[r].nextSeq = i.seq + 1 /\ i.seq \in Nat /\ room'[r] # Absent
    <3>1. room'[r] = [Found(r, u, t) EXCEPT !.nextSeq = @ + 1]
      BY <1>0, JoinEffect
    <3>. QED BY <2>2, <3>1 DEF Plate, Newcomer
  <2>4. i.seq \in 0..Cardinality(Peer)
    BY <2>1, <2>3 DEF SeqsMinted
  <2>. QED BY <1>3, <2>4 DEF Info, BoundedInfo
<1>5. p \notin Live(Peer) /\ Live(Peer)' = Live(Peer) \cup {p}
  BY <1>0, <1>1 DEF Live, TypeOK
<1>6. peers[r] \in View /\ peers[r][p] = Absent
      /\ peers'[r] = [peers[r] EXCEPT ![p] = i]
  BY <1>0, <1>1, <1>2 DEF TypeOK, Members, InView
<1>. HIDE DEF i, f, g
<1>7. Owed'[p] = <<peers[r]>>
  <2>1. stream'[p] = <<g>> /\ view'[p] = NoView
    BY <1>0, <1>1 DEF TypeOK, Announced, Blank
  <2>2. <<>> \in Seq(Frame) /\ <<g>> = Append(<<>>, g)
    BY <1>3
  <2>3. ToShow(NoView, <<>>) = <<>>
    BY <2>2, ShowNothing
  <2>4. ToShow(NoView, Append(<<>>, g)) = Shown(NoView, ToShow(NoView, <<>>), g)
    BY <1>3, <2>2, ShowMore
  <2>5. ToShow(NoView, <<g>>) = <<peers[r]>>
    BY <1>3, <2>2, <2>3, <2>4 DEF Shown, Apply
  <2>. QED BY <2>1, <2>5 DEF Owed
<1>8. ASSUME NEW q \in Peer, q # p
      PROVE  Owed'[q] = IF q \in Members(r) \cap Live(Peer)
                        THEN Append(Owed[q], Without(peers'[r], q)) ELSE Owed[q]
  <2>1. view'[q] = view[q] /\ stream'[q] = Announced(Members(r), f)[q]
    BY <1>0, <1>1, <1>8 DEF TypeOK, Announced
  <2>2. CASE q \in Members(r) \cap Live(Peer)
    <3>1. stream'[q] = Append(stream[q], f) /\ conn[q] = "live" /\ home[q] = r
      BY <1>0, <2>1, <2>2 DEF Announced, Live, Structure, RoomIsItsPeople
    <3>2. Without(peers'[r], q) = Apply(Without(peers[r], q), f)
      BY <1>3, <1>6, <1>8, ApplyJoined DEF f
    <3>3. f.type # "signal"
      BY DEF f
    <3>4. ToShow(view[q], Append(stream[q], f)) = Append(Owed[q], Without(peers'[r], q))
      BY <1>0, <1>3, <3>1, <3>2, <3>3, OwedMore
    <3>. QED BY <2>1, <2>2, <3>1, <3>4 DEF Owed
  <2>3. CASE q \notin Members(r) \cap Live(Peer)
    <3>1. stream'[q] = stream[q]
      BY <2>1, <2>3 DEF Announced, Live
    <3>. QED BY <2>1, <2>3, <3>1 DEF Owed
  <2>. QED BY <2>2, <2>3
<1>9. Owed' = [q \in Peer |->
                IF q = p THEN <<peers[r]>>
                ELSE IF q \in Members(r) \cap Live(Peer)
                     THEN Append(Owed[q], Without(peers'[r], q)) ELSE Owed[q]]
  BY <1>7, <1>8 DEF Owed
<1>10. Membership!Enter(p, r, i)
  BY <1>1, <1>2, <1>5, <1>9, Same DEF Membership!Enter
<1>. QED BY <1>4, <1>10 DEF i

\* Frame f says to everyone in r but p that m is the membership now.
SaysTo(f, r, p, m) ==
  \A q \in Members(r) \ {p} : Without(m, q) = Apply(Without(peers[r], q), f)

\* Each page of r but p's is owed m.
Owes(r, p, m) ==
  Owed' = [q \in Peer |-> IF q \in (Members(r) \cap Live(Peer)) \ {p}
                          THEN Append(Owed[q], Without(m, q)) ELSE Owed[q]]

\* What the others are sent of a room that goes on, and what it leaves owed.
LEMMA OthersAreOwed ==
  ASSUME Inductive, NEW r \in Room, NEW p \in Peer, NEW f \in Frame, f.type # "signal",
         NEW m, SaysTo(f, r, p, m),
         stream' = Announced(Members(r) \ {p}, f), view' = view
  PROVE  Owes(r, p, m)
<1>0. TypeOK /\ Structure /\ Coherent
  BY DEF Inductive
<1>1. ASSUME NEW q \in Peer
      PROVE  Owed'[q] = IF q \in (Members(r) \cap Live(Peer)) \ {p}
                        THEN Append(Owed[q], Without(m, q)) ELSE Owed[q]
  <2>1. CASE q \in (Members(r) \cap Live(Peer)) \ {p}
    <3>1. stream'[q] = Append(stream[q], f) /\ conn[q] = "live" /\ home[q] = r
      BY <1>0, <2>1 DEF Announced, Live, Structure, RoomIsItsPeople
    <3>2. Without(m, q) = Apply(Without(peers[r], q), f)
      BY <2>1 DEF SaysTo
    <3>3. ToShow(view[q], Append(stream[q], f)) = Append(Owed[q], Without(m, q))
      BY <1>0, <3>1, <3>2, OwedMore
    <3>. QED BY <2>1, <3>1, <3>3 DEF Owed
  <2>2. CASE q \notin (Members(r) \cap Live(Peer)) \ {p}
    <3>1. stream'[q] = stream[q]
      BY <2>2 DEF Announced, Live
    <3>. QED BY <2>2, <3>1 DEF Owed
  <2>. QED BY <2>1, <2>2
<1>. QED BY <1>1 DEF Owed, Owes

LEMMA SourcesChange ==
  ASSUME Inductive, SeqsMinted, Inductive', SeqsMinted', NEW r \in Room, NEW u \in User,
         NEW from \in Peer, NEW x \in Source, SetSources(r, u, from, x)
  PROVE  \E i \in BoundedInfo : Membership!Change(from, r, i)
<1>. DEFINE i == [peers[r][from] EXCEPT !.sources = x]
            f == [type |-> "sources", from |-> from, sources |-> x]
<1>0. TypeOK /\ Structure /\ Coherent
  BY DEF Inductive
<1>1. /\ from \in Members(r) /\ UNCHANGED <<conn, view>>
      /\ peers' = [peers EXCEPT ![r][from].sources = x]
      /\ stream' = Announced(Members(r) \ {from}, f)
  BY DEF SetSources
<1>2. peers[r] \in View /\ peers[r][from] \in BoundedInfo /\ peers[r][from] # Absent
  <2>1. from \in Members(r)
    BY <1>1
  <2>2. peers[r][from] \in BoundedInfo
    BY <1>0, <2>1, BoundedEntries
  <2>. QED BY <1>0, <2>1, <2>2 DEF TypeOK, Members, InView
<1>3. i \in BoundedInfo
  BY <1>2 DEF BoundedInfo
<1>4. [peers[r] EXCEPT ![from].sources = x] = [peers[r] EXCEPT ![from] = i]
  BY <1>2 DEF View
<1>5. peers' = [peers EXCEPT ![r] = [peers[r] EXCEPT ![from] = i]]
  BY <1>0, <1>1, <1>4 DEF TypeOK
<1>6. PICK m : m = [peers[r] EXCEPT ![from] = i]
  OBVIOUS
<1>7. SaysTo(f, r, from, m)
  <2>. SUFFICES ASSUME NEW q \in Members(r) \ {from}
                PROVE  Without(m, q) = Apply(Without(peers[r], q), f)
    BY DEF SaysTo
  <2>1. q \in Peer /\ q # from
    BY DEF Members, InView
  <2>2. Without([peers[r] EXCEPT ![from].sources = x], q) = Apply(Without(peers[r], q), f)
    BY <1>2, <2>1, ApplySources
  <2>. QED BY <1>4, <1>6, <2>2
<1>8. f \in Frame /\ f.type # "signal"
  BY DEF Frame, SourcesOut
<1>9. stream' = Announced(Members(r) \ {from}, f) /\ view' = view
  BY <1>1
<1>. HIDE DEF i, f
<1>10. Owes(r, from, m)
  BY <1>7, <1>8, <1>9, OthersAreOwed
<1>11. Live(Peer)' = Live(Peer)
  BY <1>1 DEF Live
<1>12. Membership!Change(from, r, i)
  <2>1. from \in Members(r) /\ peers' = [peers EXCEPT ![r] = m] /\ view' = view
    BY <1>1, <1>5, <1>6
  <2>. QED BY <1>6, <1>10, <1>11, <2>1, Same DEF Owes, Membership!Change, Membership!Becomes
<1>. QED BY <1>3, <1>12

\* A signal shows no page a membership.
LEMMA RelayStutters ==
  ASSUME Inductive, NEW r \in Room, NEW u \in User, NEW from \in Peer, NEW to \in Peer,
         NEW k \in Kind, Relay(r, u, from, to, k)
  PROVE  UNCHANGED Membership!vars
<1>. DEFINE f == [type |-> "signal", from |-> from, kind |-> k]
<1>0. TypeOK /\ Structure /\ Coherent
  BY DEF Inductive
<1>1. UNCHANGED <<peers, conn, view>> /\ stream' = Announced({to}, f)
  BY DEF Relay
<1>2. f \in Frame /\ f.type = "signal"
  BY DEF Frame, SignalOut
<1>. HIDE DEF f
<1>3. ASSUME NEW q \in Peer PROVE Owed'[q] = Owed[q]
  <2>1. CASE q = to /\ conn[q] = "live"
    <3>1. stream'[q] = Append(stream[q], f)
      BY <1>1, <2>1 DEF Announced, Live
    <3>2. ToShow(view[q], Append(stream[q], f)) = Owed[q]
      BY <1>0, <1>2, <2>1, OwedMore
    <3>. QED BY <1>1, <3>1, <3>2 DEF Owed
  <2>2. CASE ~(q = to /\ conn[q] = "live")
    <3>1. stream'[q] = stream[q]
      BY <1>1, <2>2 DEF Announced, Live
    <3>. QED BY <1>1, <3>1 DEF Owed
  <2>. QED BY <2>1, <2>2
<1>4. Owed' = Owed
  BY <1>3 DEF Owed
<1>5. Live(Peer)' = Live(Peer)
  BY <1>1 DEF Live
<1>. QED BY <1>1, <1>4, <1>5 DEF Membership!vars

LEMMA DisconnectVanishes ==
  ASSUME Inductive, NEW p \in Peer, Disconnect(p) PROVE Membership!Vanish(p)
<1>0. TypeOK
  BY DEF Inductive
<1>1. /\ conn[p] = "live" /\ conn' = [conn EXCEPT ![p] = "lost"]
      /\ stream' = [stream EXCEPT ![p] = <<>>] /\ view' = [view EXCEPT ![p] = NoView]
      /\ peers' = peers
  BY DEF Disconnect
<1>2. p \in Live(Peer) /\ Live(Peer)' = Live(Peer) \ {p}
  BY <1>0, <1>1 DEF Live, TypeOK
<1>3. Owed'[p] = <<>>
  <2>1. stream'[p] = <<>> /\ <<>> \in Seq(Frame)
    BY <1>0, <1>1 DEF TypeOK
  <2>. QED BY <2>1, ShowNothing DEF Owed
<1>4. ASSUME NEW q \in Peer, q # p PROVE Owed'[q] = Owed[q]
  BY <1>0, <1>1, <1>4 DEF Owed, TypeOK
<1>5. Owed' = [Owed EXCEPT ![p] = <<>>]
  BY <1>3, <1>4 DEF Owed
<1>. QED BY <1>1, <1>2, <1>5 DEF Membership!Vanish

LEMMA LeaveDeparts ==
  ASSUME Inductive, NEW p \in Peer, Leave(p) PROVE \E r \in Room : Membership!Depart(p, r)
<1>. DEFINE f == [type |-> "peer-left", peer |-> p]
<1>0. TypeOK /\ Structure
  BY DEF Inductive
<1>1. PICK r \in Room :
        /\ home[p] = r /\ p \in Members(r)
        /\ \A s \in Room \ {r} : peers'[s] = peers[s]
        /\ peers'[r] = Without(peers[r], p)
        /\ stream' = Announced(Members(r) \ {p}, f)
  BY <1>0, LeaveEffect
<1>2. conn[p] = "lost" /\ conn' = [conn EXCEPT ![p] = "gone"] /\ view' = view
  BY DEF Leave
<1>3. peers' = [peers EXCEPT ![r] = Without(peers[r], p)]
  <2>1. peers \in [Room -> View] /\ peers' \in [Room -> View]
    <3>1. TypeOK'
      BY <1>0, LeaveType
    <3>. QED BY <1>0, <3>1 DEF TypeOK
  <2>. QED BY <1>1, <2>1
<1>4. p \notin Live(Peer) /\ Live(Peer)' = Live(Peer)
  BY <1>0, <1>2 DEF Live, TypeOK
<1>5. SaysTo(f, r, p, Without(peers[r], p))
  <2>. SUFFICES ASSUME NEW q \in Members(r) \ {p}
                PROVE  Without(Without(peers[r], p), q) = Apply(Without(peers[r], q), f)
    BY DEF SaysTo
  <2>1. q \in Peer /\ q # p /\ peers[r] \in View
    BY <1>0 DEF Members, InView, TypeOK
  <2>. QED BY <2>1, ApplyLeft
<1>6. f \in Frame /\ f.type # "signal"
  BY DEF Frame, Left
<1>. HIDE DEF f
<1>7. Owes(r, p, Without(peers[r], p))
  BY <1>1, <1>2, <1>5, <1>6, OthersAreOwed
<1>8. (Members(r) \cap Live(Peer)) \ {p} = Members(r) \cap Live(Peer)
  BY <1>4
<1>9. Membership!Depart(p, r)
  BY <1>1, <1>2, <1>3, <1>4, <1>7, <1>8, Same DEF Owes, Membership!Depart, Membership!Becomes
<1>. QED BY <1>9

\* A page that reads a roster event is shown the next membership; one that reads
\* a signal goes on showing what it shows.
LEMMA ReadObserves ==
  ASSUME Inductive, NEW p \in Peer, Read(p)
  PROVE  Membership!Observe(p) \/ UNCHANGED Membership!vars
<1>. DEFINE v == view[p]
            s == stream[p]
            u == Apply(v, Head(s))
<1>0. TypeOK
  BY DEF Inductive
<1>1. /\ conn[p] = "live" /\ s # <<>> /\ UNCHANGED <<peers, conn>>
      /\ view' = [view EXCEPT ![p] = u] /\ stream' = [stream EXCEPT ![p] = Tail(s)]
  BY DEF Read
<1>2. v \in View \cup {NoView} /\ s \in Seq(Frame)
  BY <1>0 DEF TypeOK
<1>3. p \in Live(Peer) /\ Live(Peer)' = Live(Peer)
  BY <1>1 DEF Live
<1>4. Owed[p] = ToShow(v, s) /\ Owed'[p] = ToShow(u, Tail(s)) /\ view'[p] = u
  BY <1>0, <1>1 DEF Owed, TypeOK
<1>5. \A q \in Peer \ {p} : Owed'[q] = Owed[q]
  BY <1>0, <1>1 DEF Owed, TypeOK
<1>. HIDE DEF v, s, u
<1>6. IF Head(s).type = "signal" THEN ToShow(v, s) = ToShow(u, Tail(s))
                                 ELSE ToShow(v, s) = FirstOf(u, ToShow(u, Tail(s)))
  <2>1. u = Apply(v, Head(s))
    BY DEF u
  <2>. QED BY <1>1, <1>2, <2>1, ShowRest
<1>7. CASE Head(s).type = "signal"
  <2>1. Owed' = Owed
    BY <1>4, <1>5, <1>6, <1>7 DEF Owed
  <2>2. view' = view
    <3>1. u = v
      BY <1>7 DEF u, Apply
    <3>. QED BY <1>0, <1>1, <3>1 DEF v, TypeOK
  <2>. QED BY <1>1, <1>3, <2>1, <2>2 DEF Membership!vars
<1>8. CASE Head(s).type # "signal"
  <2>1. Owed'[p] \in Rosters /\ u \in View \cup {NoView}
    <3>1. Tail(s) \in Seq(Frame) /\ u \in View \cup {NoView}
      BY <1>1, <1>2, ApplyType DEF u
    <3>. QED BY <1>4, <3>1, ToShowType
  <2>2. Owed[p] # <<>> /\ Head(Owed[p]) = u /\ Tail(Owed[p]) = Owed'[p]
    <3>1. Owed[p] = FirstOf(u, Owed'[p])
      BY <1>4, <1>6, <1>8
    <3>. QED BY <2>1, <3>1, FirstOfIs
  <2>3. Owed' = [Owed EXCEPT ![p] = Tail(Owed[p])]
    BY <1>5, <2>2 DEF Owed
  <2>4. view' = [view EXCEPT ![p] = Head(Owed[p])]
    BY <1>1, <2>2
  <2>5. Membership!Observe(p)
    BY <1>1, <1>3, <2>2, <2>3, <2>4 DEF Membership!Observe
  <2>. QED BY <2>5
<1>. QED BY <1>7, <1>8

LEMMA RestartEnds == ASSUME Restart PROVE Membership!End
<1>1. /\ peers' = [r \in Room |-> [p \in Peer |-> Absent]] /\ view' = [p \in Peer |-> NoView]
      /\ stream' = [p \in Peer |-> <<>>] /\ \A p \in Peer : conn'[p] # "live"
  BY DEF Restart, NoPeers
<1>2. Live(Peer)' = {}
  BY <1>1 DEF Live
<1>3. Owed' = [p \in Peer |-> <<>>]
  <2>1. \A p \in Peer : stream'[p] = <<>> /\ <<>> \in Seq(Frame)
    BY <1>1
  <2>2. \A p \in Peer : ToShow(view'[p], stream'[p]) = <<>>
    BY <2>1, ShowNothing
  <2>. QED BY <2>2 DEF Owed
<1>. QED BY <1>1, <1>2, <1>3 DEF Membership!End

LEMMA StillStutters ==
  ASSUME UNCHANGED <<peers, conn, stream, view>> PROVE UNCHANGED Membership!vars
BY DEF Membership!vars, Owed, Live

LEMMA NextRefines ==
  ASSUME Inductive, SeqsMinted, Inductive', SeqsMinted', [Next]_vars
  PROVE  [Membership!Next]_(Membership!vars)
<1>1. ASSUME NEW p \in Peer, NEW r \in Room, NEW u \in User, NEW t \in Title, Join(p, r, u, t)
      PROVE  Membership!Next
  BY <1>1, JoinEnters DEF Membership!Next
<1>2. ASSUME NEW r \in Room, NEW u \in User, NEW from \in Peer, NEW s \in Source,
             SetSources(r, u, from, s)
      PROVE  Membership!Next
  BY <1>2, SourcesChange DEF Membership!Next
<1>3. ASSUME NEW p \in Peer, Disconnect(p) \/ Leave(p) \/ Read(p)
      PROVE  [Membership!Next]_(Membership!vars)
  BY <1>3, DisconnectVanishes, LeaveDeparts, ReadObserves DEF Membership!Next
<1>4. ASSUME NEW w \in Watcher, WatchLobby(w) \/ LeaveLobby(w) \/ ReadLobby(w)
      PROVE  UNCHANGED Membership!vars
  BY <1>4, StillStutters DEF WatchLobby, LeaveLobby, ReadLobby
<1>5. CASE Keepalive \/ UNCHANGED vars
  BY <1>5, StillStutters DEF Keepalive, vars
<1>6. CASE Restart
  BY <1>6, RestartEnds DEF Membership!Next
<1>. QED BY <1>1, <1>2, <1>3, <1>4, <1>5, <1>6, RelayStutters DEF Next

LEMMA InitRefines == Init => Membership!Init /\ SeqsMinted
<1>. SUFFICES ASSUME Init PROVE Membership!Init /\ SeqsMinted
  OBVIOUS
<1>1. Live(Peer) = {} /\ SeqsMinted
  BY DEF Init, Live, SeqsMinted
<1>2. Owed = [p \in Peer |-> <<>>]
  <2>1. \A p \in Peer : stream[p] = <<>> /\ <<>> \in Seq(Frame)
    BY DEF Init
  <2>2. \A p \in Peer : ToShow(view[p], stream[p]) = <<>>
    BY <2>1, ShowNothing
  <2>. QED BY <2>2 DEF Owed
<1>. QED BY <1>1, <1>2 DEF Init, Membership!Init, NoPeers

\* Whatever the order in which people come, go and change what they publish,
\* and however far each page lags, it is shown every membership of its room from
\* its arrival on, once and in order (state.rs join, set_sources and leave
\* against roster.ts apply).
THEOREM RoomsImplementMembership == Spec => ImplementsMembership
<1>1. Inductive /\ SeqsMinted /\ [Next]_vars => SeqsMinted'
  BY NextMinted DEF Inductive
<1>2. Inductive /\ Inductive' /\ SeqsMinted /\ SeqsMinted' /\ [Next]_vars
        => [Membership!Next]_(Membership!vars)
  BY NextRefines
<1>. QED
  BY AlwaysInductive, InitRefines, <1>1, <1>2, PTL DEF Spec, ImplementsMembership, Membership!Spec
=============================================================================
