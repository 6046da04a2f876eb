\* Three people compete for the two seats of a room: publishing, offering,
\* crashing and leaving.  And two people in two rooms of two titles, with two
\* pages watching the lobby.
CONSTANTS
  Room = {r1, r2}
  Peer = {p1, p2, p3}
  User = {u1}
  Title = {t1, t2}
  Source = {off, on}
  NoSource = off
  Kind = {offer}
  Watcher = {w1, w2}
  Capacity = 2
  MaxPending = 2
  Absent = Absent
  NoView = NoView
  NoRoom = NoRoom
  Crowd = r1
  Hall = {p1, p2}
SPECIFICATION RoomsSpec
INVARIANTS
  RoomIsItsPeople
  CaughtUpIsCurrent
  OneOfAPairOffers
  SignalsComeFromTheRoster
  LobbyCaughtUpIsCurrent
PROPERTIES
  ImplementsMembership
  RoomKeepsItsPlate
  NoGhosts
  ClosedWatchersAreForgotten
CHECK_DEADLOCK FALSE
