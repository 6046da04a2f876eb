\* A page that is left while its relay list or a permission is awaited.
CONSTANTS
  Room = {r1}
  Peer = {p1, p2, p3}
  User = {u1}
  Title = {t1}
  Source = {off, on}
  NoSource = off
  On = on
  Kind = {}
  Watcher = {}
  Tab = {a}
  Capacity = 2
  MaxPending = 6
  MaxVisits = 2
  MaxPosts = 2
  MaxTracks = 2
  MaxTroubles = 1
  Absent = Absent
  NoView = NoView
  NoRoom = NoRoom
  NoPeer = NoPeer
SYMMETRY Symmetry
SPECIFICATION PageSpec
INVARIANT LeftIsLeft
CHECK_DEADLOCK FALSE
