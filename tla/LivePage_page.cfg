\* Two visits of one tab beside somebody in another browser; the server
\* restarts, a stream breaks or a POST fails once.
CONSTANTS
  Room = {r1}
  Peer = {p1, p2}
  User = {u1}
  Title = {t1}
  Source = {off, on}
  NoSource = off
  On = on
  Kind = {}
  Watcher = {}
  Tab = {a}
  Capacity = 2
  MaxPending = 6
  MaxVisits = 2
  MaxPosts = 1
  MaxTracks = 2
  MaxTroubles = 1
  Absent = Absent
  NoView = NoView
  NoRoom = NoRoom
  NoPeer = NoPeer
SYMMETRY Symmetry
SPECIFICATION PageSpec
INVARIANTS OneStreamPerTab TracksAreHeld LeavingIsLeaving ButtonsAreTrue FlagsAreTold
CHECK_DEADLOCK FALSE
