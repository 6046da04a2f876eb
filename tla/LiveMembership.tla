-------------------------- MODULE LiveMembership --------------------------
(***************************************************************************)
(* What a live room promises the people in it, without frames, locks or    *)
(* deltas: each room has one current membership, and every page is shown   *)
(* the memberships of its room from its own arrival on: each of them once, *)
(* whole, and in order.  A page may lag; it may not skip or invent.        *)
(***************************************************************************)
EXTENDS Sequences

CONSTANTS Room, Peer, Info, Absent, NoView

VARIABLES
  member,  \* member[r]: who is in room r, with what the others may know of them
  here,    \* peers with a page that is being shown the room
  owed,    \* owed[p]: the memberships p's page has still to be shown
  shown    \* shown[p]: the membership p's page shows
vars == <<member, here, owed, shown>>

InRoom(r) == {p \in Peer : member[r][p] # Absent}

\* What p's page is shown of a membership: the others.
Others(m, p) == [m EXCEPT ![p] = Absent]

\* Membership m of room r becomes the current one; each page in `to` is owed it.
Becomes(r, m, to) ==
  /\ member' = [member EXCEPT ![r] = m]
  /\ owed' = [q \in Peer |-> IF q \in to THEN Append(owed[q], Others(m, q)) ELSE owed[q]]

Init ==
  /\ member = [r \in Room |-> [p \in Peer |-> Absent]]
  /\ here = {}
  /\ owed = [p \in Peer |-> <<>>]
  /\ shown = [p \in Peer |-> NoView]

\* p arrives: it is owed the room as it finds it, the others the room with p.
Enter(p, r, i) ==
  /\ p \notin here
  /\ \A s \in Room : p \notin InRoom(s)
  /\ member' = [member EXCEPT ![r][p] = i]
  /\ owed' = [q \in Peer |->
                IF q = p THEN <<member[r]>>
                ELSE IF q \in InRoom(r) \cap here
                     THEN Append(owed[q], Others(member'[r], q)) ELSE owed[q]]
  /\ here' = here \cup {p}
  /\ UNCHANGED shown

\* p changes what the others may know of it.
Change(p, r, i) ==
  /\ p \in InRoom(r)
  /\ Becomes(r, [member[r] EXCEPT ![p] = i], (InRoom(r) \cap here) \ {p})
  /\ UNCHANGED <<here, shown>>

\* p's page is shown nothing any more.
Vanish(p) ==
  /\ p \in here
  /\ here' = here \ {p}
  /\ owed' = [owed EXCEPT ![p] = <<>>]
  /\ shown' = [shown EXCEPT ![p] = NoView]
  /\ UNCHANGED member

\* p, whose page is gone, is no longer a member.
Depart(p, r) ==
  /\ p \in InRoom(r) \ here
  /\ Becomes(r, Others(member[r], p), InRoom(r) \cap here)
  /\ UNCHANGED <<here, shown>>

\* p's page is shown the next membership it is owed.
Observe(p) ==
  /\ p \in here
  /\ owed[p] # <<>>
  /\ shown' = [shown EXCEPT ![p] = Head(owed[p])]
  /\ owed' = [owed EXCEPT ![p] = Tail(owed[p])]
  /\ UNCHANGED <<member, here>>

\* Everything ends at once.
End ==
  /\ member' = [r \in Room |-> [p \in Peer |-> Absent]]
  /\ here' = {}
  /\ owed' = [p \in Peer |-> <<>>]
  /\ shown' = [p \in Peer |-> NoView]

Next ==
  \/ \E p \in Peer, r \in Room : \/ \E i \in Info : Enter(p, r, i) \/ Change(p, r, i)
                                 \/ Depart(p, r)
  \/ \E p \in Peer : Vanish(p) \/ Observe(p)
  \/ End

Spec == Init /\ [][Next]_vars
=============================================================================
