\* A candidate overtakes the offer it goes with.
CONSTANTS
  Room = {r1}
  Peer = {p1, p2}
  User = {u1}
  Title = {t1}
  Source = {off}
  NoSource = off
  Kind = {"offer", "answer", "ice"}
  Watcher = {}
  Capacity = 2
  MaxPending = 3
  Absent = Absent
  NoView = NoView
  NoRoom = NoRoom
  NoLink = NoLink
SPECIFICATION MeshSpec
INVARIANT CandidatesAreKept
CHECK_DEADLOCK FALSE
