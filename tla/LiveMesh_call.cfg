\* Two seats and three connections: a call, a crash in it, and who comes next.
CONSTANTS
  Room = {r1}
  Peer = {p1, p2, p3}
  User = {u1}
  Title = {t1}
  Source = {off}
  NoSource = off
  Kind = {"offer", "answer", "ice"}
  Watcher = {}
  Capacity = 2
  MaxPending = 3
  Absent = Absent
  NoView = NoView
  NoRoom = NoRoom
  NoLink = NoLink
SPECIFICATION CallSpec
INVARIANTS
  NoGlare
  ConnectionsAreOnTheRoster
  SignalsFindTheirState
  NothingIsLeftEarly
PROPERTY PairsConnect
CHECK_DEADLOCK FALSE
