--------------------------- MODULE LivePageProofs ---------------------------
(* What the room page promises, for any number of tabs, visits, tracks and   *)
(* people: the streams and tracks of a tab, and the flags its room lists.    *)
EXTENDS LivePage, LiveRoomsProofs

USE PageAssumption

-----------------------------------------------------------------------------
(* Types. *)

VisitSet ==
  [tab : Tab, room : Room, source : {"none", "connecting", "open", "closed"},
   peer : Peer \cup {NoPeer}, self : Peer \cup {NoPeer}, sources : Source, asks : Nat,
   shows : {"joining", "here", "reconnecting", "failed"}]

Post == [room : Room, from : Peer, sources : Source]

\* A tab's own, or none.
OwnVisit(t, v) == v = 0 \/ (v \in Visits /\ TabOf(v) = t)

PageTypeOK ==
  /\ visits \in Seq(VisitSet)
  /\ at \in [Tab -> Nat] /\ leave \in [Tab -> Nat] /\ track \in [Tab -> Nat]
  /\ \A t \in Tab : OwnVisit(t, at[t]) /\ OwnVisit(t, leave[t]) /\ track[t] \in 0..Len(owner)
  /\ owner \in Seq(Nat) /\ \A n \in 1..Len(owner) : owner[n] \in Visits
  /\ capturing \subseteq 1..Len(owner)
  /\ posts \subseteq Post
  /\ \A v \in Visits : visits[v].source = "open" => visits[v].peer \in Peer

LEMMA SeqSet ==
  ASSUME NEW S, NEW s \in Seq(S), NEW i \in 1..Len(s), NEW x \in S
  PROVE  /\ [s EXCEPT ![i] = x] \in Seq(S)
         /\ Len([s EXCEPT ![i] = x]) = Len(s)
         /\ \A j \in 1..Len(s) : [s EXCEPT ![i] = x][j] = IF j = i THEN x ELSE s[j]
OBVIOUS

LEMMA SeqAppend ==
  ASSUME NEW S, NEW s \in Seq(S), NEW x \in S
  PROVE  /\ Append(s, x) \in Seq(S)
         /\ Len(Append(s, x)) = Len(s) + 1
         /\ \A j \in 1..Len(s) : Append(s, x)[j] = s[j]
         /\ Append(s, x)[Len(s) + 1] = x
OBVIOUS

LEMMA VisitFields ==
  ASSUME PageTypeOK, NEW v \in Visits
  PROVE  /\ visits[v] \in VisitSet /\ TabOf(v) \in Tab /\ visits[v].room \in Room
         /\ visits[v].self \in Peer \cup {NoPeer} /\ visits[v].sources \in Source
         /\ visits[v].asks \in Nat
<1>1. visits[v] \in VisitSet
  BY DEF PageTypeOK, Visits
<1> QED
  BY <1>1 DEF VisitSet, TabOf

\* A visit changes into x, and the others stay.
Turns(v, x) ==
  /\ v \in Visits /\ x \in VisitSet /\ x.tab = visits[v].tab /\ x.room = visits[v].room
  /\ visits' \in Seq(VisitSet) /\ Len(visits') = Len(visits)
  /\ \A w \in Visits : visits'[w] = IF w = v THEN x ELSE visits[w]

LEMMA TurnsInto ==
  ASSUME visits \in Seq(VisitSet), NEW v \in Visits, NEW x \in VisitSet,
         x.tab = visits[v].tab, x.room = visits[v].room, visits' = [visits EXCEPT ![v] = x]
  PROVE  Turns(v, x)
BY SeqSet DEF Turns, Visits

-----------------------------------------------------------------------------
(* The tab: its streams and its tracks. *)

\* A visit that is not shown any more is over, unless something was awaited when
\* it was left.
Rests ==
  \A v \in Visits : TabOf(v) \notin hasty /\ v # at[TabOf(v)]
                     => visits[v].source = "closed" /\ visits[v].asks = 0

\* A tab that shows another page holds no track, and a page that is shown asked
\* for the tracks itself; with the same exception.
Idles == \A t \in Tab : t \notin hasty /\ at[t] = 0 => track[t] = 0
Owns == \A n \in capturing : TabOf(owner[n]) \notin hasty => owner[n] = at[TabOf(owner[n])]

\* A visit that failed does not try again.
Failed == \A v \in Visits : visits[v].shows = "failed" => visits[v].source = "closed"

TabsInv == OneStreamPerTab /\ TracksAreHeld /\ Rests /\ Idles /\ Owns /\ Failed /\ ButtonsAreTrue

\* A visit that turns into x leaves its tab as it is.
LEMMA TurnTabs ==
  ASSUME PageTypeOK, TabsInv, NEW v, NEW x, Turns(v, x),
         UNCHANGED <<at, leave, track, capturing, owner, hasty>>, posts' \subseteq Post,
         x.source = "open" => x.peer \in Peer,
         x.sources = visits[v].sources,
         x.source \in {"connecting", "open"} => visits[v].source \in {"connecting", "open"},
         x.shows = "failed" <=> visits[v].shows = "failed",
         x.shows = "failed" => x.source = "closed",
         v = at[TabOf(v)] \/ TabOf(v) \in hasty \/ (x.source = "closed" /\ x.asks = 0)
  PROVE  PageTypeOK' /\ TabsInv'
<1>1. Visits' = Visits /\ \A w \in Visits : TabOf(w)' = TabOf(w)
  BY DEF Turns, Visits, TabOf
<1>2. PageTypeOK'
  BY <1>1 DEF PageTypeOK, Turns, OwnVisit
<1>3. OneStreamPerTab'
  BY <1>1 DEF TabsInv, OneStreamPerTab, Turns
<1>4. TracksAreHeld' /\ Idles' /\ Owns'
  BY <1>1 DEF TabsInv, TracksAreHeld, Idles, Owns, PageTypeOK
<1>5. Rests'
  BY <1>1 DEF TabsInv, Rests, Turns
<1>6. Failed'
  BY <1>1 DEF TabsInv, Failed, Turns
<1>7. ButtonsAreTrue'
  BY <1>1 DEF TabsInv, ButtonsAreTrue, Turns, PageTypeOK, OwnVisit
<1> QED
  BY <1>2, <1>3, <1>4, <1>5, <1>6, <1>7 DEF TabsInv

LEMMA SetTrackTurns ==
  ASSUME PageTypeOK, NEW v \in Visits, NEW n, NEW asks \in Nat, SetTrack(v, n, asks)
  PROVE  /\ \E x : /\ Turns(v, x) /\ x.sources = IF n = 0 THEN NoSource ELSE On
                   /\ x.asks = asks /\ x.source = visits[v].source /\ x.peer = visits[v].peer
                   /\ x.self = visits[v].self /\ x.shows = visits[v].shows
         /\ Announces(v, visits[v].self, IF n = 0 THEN NoSource ELSE On)
         /\ capturing' = (capturing \ {track[TabOf(v)]}) \cup ({n} \ {0})
         /\ track' = [track EXCEPT ![TabOf(v)] = n]
<1> DEFINE s == IF n = 0 THEN NoSource ELSE On
           x == [visits[v] EXCEPT !.sources = s, !.asks = asks]
<1>1. visits[v] \in VisitSet /\ s \in Source /\ visits \in Seq(VisitSet)
  BY DEF PageTypeOK, Visits
<1>2. visits' = [visits EXCEPT ![v] = x]
  BY DEF SetTrack
<1> HIDE DEF s
<1>3. /\ x \in VisitSet /\ x.sources = s /\ x.asks = asks
      /\ x.tab = visits[v].tab /\ x.room = visits[v].room /\ x.source = visits[v].source
      /\ x.peer = visits[v].peer /\ x.self = visits[v].self /\ x.shows = visits[v].shows
  BY <1>1 DEF VisitSet
<1> HIDE DEF x
<1>5. Turns(v, x)
  BY <1>1, <1>2, <1>3, TurnsInto
<1> QED
  BY <1>3, <1>5 DEF SetTrack, s

LEMMA AnnouncesType ==
  ASSUME PageTypeOK, NEW v \in Visits, NEW self \in Peer \cup {NoPeer}, NEW s \in Source,
         Announces(v, self, s)
  PROVE  posts' \subseteq Post
<1>1. visits[v].room \in Room
  BY VisitFields
<1>2. CASE self = NoPeer
  <2>1. posts' = posts
    BY <1>2 DEF Announces
  <2> QED
    BY <2>1 DEF PageTypeOK
<1>3. CASE self # NoPeer
  <2>1. posts' = posts \cup {[room |-> visits[v].room, from |-> self, sources |-> s]}
    BY <1>3 DEF Announces
  <2> QED
    BY <1>1, <1>3, <2>1 DEF PageTypeOK, Post
<1> QED
  BY <1>2, <1>3

\* The track of a tab makes way for another, or for none.
LEMMA SetTrackTabs ==
  ASSUME PageTypeOK, TabsInv, NEW v \in Visits, NEW n, NEW asks \in Nat,
         SetTrack(v, n, asks), UNCHANGED <<at, leave, hasty>>,
         \/ n = 0 /\ owner' = owner
         \/ n = Len(owner) + 1 /\ owner' = Append(owner, v),
         v = at[TabOf(v)] \/ TabOf(v) \in hasty
  PROVE  PageTypeOK' /\ TabsInv'
<1> DEFINE s == IF n = 0 THEN NoSource ELSE On
           t == TabOf(v)
<1>1. PICK x : /\ Turns(v, x) /\ x.sources = s /\ x.source = visits[v].source
               /\ x.peer = visits[v].peer /\ x.shows = visits[v].shows
  BY SetTrackTurns
<1>a. /\ Announces(v, visits[v].self, s)
      /\ capturing' = (capturing \ {track[t]}) \cup ({n} \ {0})
      /\ track' = [track EXCEPT ![t] = n]
  BY SetTrackTurns
<1>2. Visits' = Visits /\ \A w \in Visits : TabOf(w)' = TabOf(w)
  BY <1>1 DEF Turns, Visits, TabOf
<1>3. visits[v] \in VisitSet /\ t \in Tab
  BY VisitFields
<1>4. /\ owner' \in Seq(Nat) /\ Len(owner') \in Nat /\ Len(owner') >= Len(owner) /\ n \in 0..Len(owner')
      /\ \A i \in 1..Len(owner) : owner'[i] = owner[i]
      /\ \A i \in 1..Len(owner') : i \in 1..Len(owner) \/ (i = n /\ owner'[i] = v)
      /\ n # 0 => owner'[n] = v
  <2>1. owner \in Seq(Nat) /\ Len(owner) \in Nat /\ v \in Nat
    BY DEF PageTypeOK, Visits
  <2>2. CASE n = 0 /\ owner' = owner
    BY <2>1, <2>2
  <2>3. CASE n = Len(owner) + 1 /\ owner' = Append(owner, v)
    BY <2>1, <2>3, SeqAppend
  <2> QED
    BY <2>2, <2>3
<1>b. /\ capturing \subseteq 1..Len(owner) /\ track \in [Tab -> Nat] /\ Len(owner) \in Nat
      /\ \A i \in 1..Len(owner) : owner[i] \in Visits
      /\ \A u \in Tab : track[u] \in 0..Len(owner)
  BY DEF PageTypeOK
<1>c. ASSUME NEW m \in capturing'
      PROVE  \/ /\ m \in capturing /\ owner'[m] = owner[m] /\ TabOf(owner[m]) # t
                /\ TabOf(owner[m])' = TabOf(owner[m])
             \/ m = n /\ owner'[m] = v /\ TabOf(owner[m])' = t
  <2>1. CASE m \in capturing /\ m # track[t]
    <3>1. m \in 1..Len(owner) /\ owner'[m] = owner[m] /\ owner[m] \in Visits
      BY <1>4, <1>b, <2>1
    <3>2. TabOf(owner[m]) # t
      BY <2>1 DEF TabsInv, TracksAreHeld
    <3> QED
      BY <1>2, <2>1, <3>1, <3>2
  <2>2. CASE m = n /\ n # 0
    BY <1>2, <1>4, <2>2
  <2> QED
    BY <1>a, <1>c, <2>1, <2>2
<1> HIDE DEF s
<1>5. posts' \subseteq Post
  BY <1>a, VisitFields, AnnouncesType DEF s
<1>6. PageTypeOK'
  <2>1. \A u \in Tab : track'[u] \in 0..Len(owner')
    BY <1>a, <1>3, <1>4, <1>b
  <2>2. capturing' \subseteq 1..Len(owner')
    <3>1. \A m \in 1..Len(owner) : m \in 1..Len(owner')
      BY <1>4, <1>b
    <3>2. n # 0 => n \in 1..Len(owner')
      BY <1>4
    <3> QED
      BY <1>a, <1>b, <3>1, <3>2
  <2>3. \A w \in Visits : visits'[w].source = "open" => visits'[w].peer \in Peer
    BY <1>1 DEF PageTypeOK, Turns
  <2>4. \A u \in Tab : OwnVisit(u, at[u])' /\ OwnVisit(u, leave[u])'
    BY <1>2 DEF PageTypeOK, OwnVisit
  <2>5. \A i \in 1..Len(owner') : owner'[i] \in Visits'
    BY <1>2, <1>4, <1>b
  <2>6. track' \in [Tab -> Nat]
    BY <1>a, <1>3, <1>4, <1>b
  <2> QED
    BY <1>1, <1>2, <1>4, <1>5, <2>1, <2>2, <2>3, <2>4, <2>5, <2>6 DEF PageTypeOK, Turns
<1>7. OneStreamPerTab'
  BY <1>1, <1>2 DEF TabsInv, OneStreamPerTab, Turns
<1>8. TracksAreHeld'
  BY <1>3, <1>a, <1>b, <1>c DEF TabsInv, TracksAreHeld
<1>9. Idles'
  BY <1>3, <1>a, <1>b DEF TabsInv, Idles, Visits
<1>10. Owns'
  BY <1>2, <1>c DEF TabsInv, Owns
<1>11. Rests' /\ Failed'
  BY <1>1, <1>2, <1>3 DEF TabsInv, Rests, Failed, Turns
<1>12. ButtonsAreTrue'
  <2> SUFFICES ASSUME NEW u \in Tab, at[u] # 0, u \notin hasty, visits'[at[u]].shows # "failed"
               PROVE  visits'[at[u]].sources = On <=> track'[u] # 0
    BY DEF ButtonsAreTrue
  <2>1. at[u] \in Visits /\ TabOf(at[u]) = u
    BY DEF PageTypeOK, OwnVisit
  <2>2. CASE u = t
    BY <1>1, <1>3, <1>a, <1>b, <2>1, <2>2 DEF Turns, s
  <2>3. CASE u # t
    BY <1>1, <1>3, <1>a, <1>b, <2>1, <2>3 DEF Turns, TabsInv, ButtonsAreTrue
  <2> QED
    BY <2>2, <2>3
<1> QED
  BY <1>6, <1>7, <1>8, <1>9, <1>10, <1>11, <1>12 DEF TabsInv

\* A visit that does anything is the one shown, or its tab was left in haste.
LEMMA Here ==
  ASSUME TabsInv, NEW v \in Visits, visits[v].source # "closed" \/ visits[v].asks # 0
  PROVE  /\ v = at[TabOf(v)] \/ TabOf(v) \in hasty
         /\ visits[v].source # "closed" => visits[v].shows # "failed"
BY DEF TabsInv, Rests, Failed

LEMMA EnterTabs ==
  ASSUME PageTypeOK, TabsInv, NEW t \in Tab, NEW r \in Room, Enter(t, r)
  PROVE  PageTypeOK' /\ TabsInv'
<1> DEFINE x == Visit(t, r)
<1>n. PICK n : n = Len(visits) + 1
  OBVIOUS
<1>1. x \in VisitSet
  BY DEF Visit, VisitSet
<1>2. /\ x.tab = t /\ x.source = "none" /\ x.sources = NoSource /\ x.asks = 0 /\ x.shows = "joining"
  BY DEF Visit
<1>3. /\ at[t] = 0 /\ at' = [at EXCEPT ![t] = n]
      /\ UNCHANGED <<leave, track, capturing, owner, posts, hasty>>
      /\ visits' = Append(visits, x)
  BY <1>n DEF Enter, tabVars
<1> HIDE DEF x
<1>4. /\ visits' \in Seq(VisitSet) /\ Len(visits) \in Nat /\ Len(visits') = n
      /\ \A u \in Visits : visits'[u] = visits[u]
      /\ visits'[n] = x
  BY <1>n, <1>1, <1>3, SeqAppend DEF PageTypeOK, Visits
<1>5. /\ Visits' = Visits \cup {n} /\ n \in Nat \ Visits /\ n # 0
      /\ \A u \in Visits : TabOf(u)' = TabOf(u)
      /\ TabOf(n)' = t
  <2>1. Visits' = Visits \cup {n} /\ n \in Nat \ Visits /\ n # 0
    BY <1>n, <1>4 DEF Visits
  <2>2. \A u \in Visits : TabOf(u)' = TabOf(u)
    BY <1>4 DEF TabOf
  <2>3. TabOf(n)' = t
    BY <1>2, <1>4 DEF TabOf
  <2> QED
    BY <2>1, <2>2, <2>3
<1>6. /\ \A m \in capturing : owner[m] \in Visits /\ TabOf(owner[m])' = TabOf(owner[m])
      /\ \A m \in capturing : m # 0
      /\ \A u \in Visits : u # 0 /\ visits[u] \in VisitSet /\ TabOf(u) \in Tab
  BY <1>3, <1>5, VisitFields DEF PageTypeOK, Visits
<1>7. PageTypeOK'
  <2>1. at' \in [Tab -> Nat]
    BY <1>3, <1>5 DEF PageTypeOK
  <2>2. \A u \in Tab : OwnVisit(u, at[u])' /\ OwnVisit(u, leave[u])'
    <3> TAKE u \in Tab
    <3>1. OwnVisit(u, at[u]) /\ OwnVisit(u, leave[u]) /\ at'[u] = IF u = t THEN n ELSE at[u]
      BY <1>3 DEF PageTypeOK
    <3> QED
      BY <1>3, <1>5, <3>1 DEF OwnVisit
  <2>3. \A u \in Visits' : visits'[u].source = "open" => visits'[u].peer \in Peer
    BY <1>2, <1>4, <1>5 DEF PageTypeOK
  <2> QED
    BY <1>3, <1>4, <1>5, <2>1, <2>2, <2>3 DEF PageTypeOK
<1>8. OneStreamPerTab' /\ Failed'
  BY <1>2, <1>3, <1>4, <1>5 DEF TabsInv, OneStreamPerTab, Failed
<1>9. TracksAreHeld'
  BY <1>3, <1>6 DEF TabsInv, TracksAreHeld
<1>10. Rests'
  <2> SUFFICES ASSUME NEW u \in Visits', TabOf(u)' \notin hasty', u # at'[TabOf(u)']
               PROVE  visits'[u].source = "closed" /\ visits'[u].asks = 0
    BY DEF Rests
  <2>1. u # n
    BY <1>3, <1>5 DEF PageTypeOK
  <2>2. u \in Visits /\ TabOf(u)' = TabOf(u) /\ TabOf(u) \in Tab /\ u # 0 /\ visits'[u] = visits[u]
    BY <1>4, <1>5, <1>6, <2>1
  <2>3. at[TabOf(u)] # u
    BY <1>3, <2>2 DEF PageTypeOK
  <2> QED
    BY <1>3, <2>2, <2>3 DEF TabsInv, Rests
<1>13. Idles'
  BY <1>3, <1>5 DEF TabsInv, Idles, PageTypeOK
<1>11. Owns'
  BY <1>3, <1>6 DEF TabsInv, Owns, PageTypeOK
<1>12. ButtonsAreTrue'
  <2> SUFFICES ASSUME NEW u \in Tab, at'[u] # 0, u \notin hasty, visits'[at'[u]].shows # "failed"
               PROVE  visits'[at'[u]].sources = On <=> track[u] # 0
    BY <1>3 DEF ButtonsAreTrue
  <2>1. CASE u = t
    BY <1>2, <1>3, <1>4, <2>1 DEF TabsInv, Idles, PageTypeOK
  <2>2. CASE u # t
    BY <1>3, <1>4, <2>2 DEF TabsInv, ButtonsAreTrue, PageTypeOK, OwnVisit
  <2> QED
    BY <2>1, <2>2
<1> QED
  BY <1>7, <1>8, <1>9, <1>10, <1>11, <1>12, <1>13 DEF TabsInv

\* Visit w is closed and the others stay.
LEMMA ShutFacts ==
  ASSUME NEW vs \in Seq(VisitSet), NEW w, w = 0 \/ w \in 1..Len(vs)
  PROVE  /\ Shut(vs, w) \in Seq(VisitSet) /\ Len(Shut(vs, w)) = Len(vs)
         /\ w # 0 => /\ Shut(vs, w)[w].tab = vs[w].tab /\ Shut(vs, w)[w].room = vs[w].room
                     /\ Shut(vs, w)[w].source = "closed" /\ Shut(vs, w)[w].peer = vs[w].peer
                     /\ Shut(vs, w)[w].self = vs[w].self /\ Shut(vs, w)[w].asks = vs[w].asks
                     /\ Shut(vs, w)[w].sources = vs[w].sources /\ Shut(vs, w)[w].shows = vs[w].shows
         /\ \A u \in 1..Len(vs) : u # w => Shut(vs, w)[u] = vs[u]
<1>1. CASE w = 0
  BY <1>1 DEF Shut
<1>2. CASE w # 0
  <2> DEFINE x == [vs[w] EXCEPT !.source = "closed"]
  <2>1. vs[w] \in VisitSet
    BY <1>2
  <2>2. /\ x \in VisitSet /\ x.tab = vs[w].tab /\ x.room = vs[w].room /\ x.source = "closed"
        /\ x.peer = vs[w].peer /\ x.self = vs[w].self /\ x.asks = vs[w].asks
        /\ x.sources = vs[w].sources /\ x.shows = vs[w].shows
    BY <2>1 DEF VisitSet
  <2>3. Shut(vs, w) = [vs EXCEPT ![w] = x]
    BY <1>2 DEF Shut
  <2> HIDE DEF x
  <2> QED
    BY <1>2, <2>2, <2>3, SeqSet
<1> QED
  BY <1>1, <1>2
\* What disposeLiveRoom leaves of the tracks of a tab and of its stream.
LEMMA DisposeFacts ==
  ASSUME PageTypeOK, TracksAreHeld, NEW t \in Tab, DisposeLiveRoom(t), owner' = owner,
         visits' \in Seq(VisitSet), Len(visits') = Len(visits),
         \A u \in Visits : visits'[u].tab = visits[u].tab
  PROVE  /\ Visits' = Visits /\ \A u \in Visits : TabOf(u)' = TabOf(u) /\ TabOf(u) \in Tab /\ u # 0
         /\ leave' \in [Tab -> Nat] /\ track' \in [Tab -> Nat] /\ capturing' \subseteq capturing
         /\ \A u \in Tab : leave'[u] = (IF u = t THEN 0 ELSE leave[u])
         /\ \A u \in Tab : track'[u] = (IF u = t THEN 0 ELSE track[u])
         /\ \A u \in Tab : OwnVisit(u, leave[u])' /\ track'[u] \in 0..Len(owner')
         /\ \A n \in capturing' : owner[n] \in Visits /\ TabOf(owner[n])' = TabOf(owner[n])
                                  /\ TabOf(owner[n]) # t
         /\ TracksAreHeld'
         /\ \A n \in 1..Len(owner') : owner'[n] \in Visits'
<1>1. Visits' = Visits /\ \A u \in Visits : TabOf(u)' = TabOf(u) /\ TabOf(u) \in Tab /\ u # 0
  BY VisitFields DEF Visits, TabOf
<1>2. /\ leave' \in [Tab -> Nat] /\ track' \in [Tab -> Nat] /\ capturing' = capturing \ {track[t]}
      /\ \A u \in Tab : leave'[u] = (IF u = t THEN 0 ELSE leave[u])
      /\ \A u \in Tab : track'[u] = (IF u = t THEN 0 ELSE track[u])
  BY DEF DisposeLiveRoom, PageTypeOK
<1>3. \A n \in 1..Len(owner) : owner[n] \in Visits
  BY DEF PageTypeOK
<1>4. \A u \in Tab : OwnVisit(u, leave[u])' /\ track'[u] \in 0..Len(owner')
  <2> TAKE u \in Tab
  <2>1. OwnVisit(u, leave[u]) /\ track[u] \in 0..Len(owner) /\ Len(owner) \in Nat
    BY DEF PageTypeOK
  <2>2. OwnVisit(u, leave[u])'
    BY <1>1, <1>2, <2>1 DEF OwnVisit
  <2> QED
    BY <1>2, <2>1, <2>2
<1>5. \A n \in capturing' : owner[n] \in Visits /\ TabOf(owner[n])' = TabOf(owner[n])
                            /\ TabOf(owner[n]) # t /\ track[TabOf(owner[n])] = n
  <2> TAKE n \in capturing'
  <2>1. n \in capturing /\ n # track[t] /\ n \in 1..Len(owner)
    BY <1>2 DEF PageTypeOK
  <2>2. track[TabOf(owner[n])] = n
    BY <2>1 DEF TracksAreHeld
  <2> QED
    BY <1>1, <1>3, <2>1, <2>2
<1>6. TracksAreHeld'
  BY <1>1, <1>2, <1>5 DEF TracksAreHeld
<1> QED
  BY <1>1, <1>2, <1>3, <1>4, <1>5, <1>6

\* The visits once a stream was closed.
LEMMA ShutVisits ==
  ASSUME PageTypeOK, NEW t \in Tab
  PROVE  /\ Shut(visits, leave[t]) \in Seq(VisitSet) /\ Len(Shut(visits, leave[t])) = Len(visits)
         /\ \A u \in Visits :
              /\ Shut(visits, leave[t])[u] \in VisitSet
              /\ Shut(visits, leave[t])[u].tab = visits[u].tab
              /\ Shut(visits, leave[t])[u].room = visits[u].room
              /\ Shut(visits, leave[t])[u].peer = visits[u].peer
              /\ Shut(visits, leave[t])[u].self = visits[u].self
              /\ Shut(visits, leave[t])[u].sources = visits[u].sources
              /\ Shut(visits, leave[t])[u].asks = visits[u].asks
              /\ Shut(visits, leave[t])[u].shows = visits[u].shows
              /\ Shut(visits, leave[t])[u].source = IF u = leave[t] THEN "closed" ELSE visits[u].source
<1> DEFINE w == leave[t]
           vs == Shut(visits, w)
<1>1. visits \in Seq(VisitSet) /\ (w = 0 \/ w \in 1..Len(visits))
  BY DEF PageTypeOK, OwnVisit, Visits
<1> HIDE DEF w
<1>2. /\ vs \in Seq(VisitSet) /\ Len(vs) = Len(visits)
      /\ w # 0 => /\ vs[w].tab = visits[w].tab /\ vs[w].room = visits[w].room
                  /\ vs[w].source = "closed" /\ vs[w].peer = visits[w].peer
                  /\ vs[w].self = visits[w].self /\ vs[w].asks = visits[w].asks
                  /\ vs[w].sources = visits[w].sources /\ vs[w].shows = visits[w].shows
      /\ \A u \in 1..Len(visits) : u # w => vs[u] = visits[u]
  BY <1>1, ShutFacts
<1> HIDE DEF vs
<1>3. \A u \in Visits : vs[u] \in VisitSet /\ u # 0
  BY <1>2 DEF Visits
<1>4. \A u \in Visits :
        /\ vs[u].tab = visits[u].tab /\ vs[u].room = visits[u].room /\ vs[u].peer = visits[u].peer
        /\ vs[u].self = visits[u].self /\ vs[u].sources = visits[u].sources
        /\ vs[u].asks = visits[u].asks /\ vs[u].shows = visits[u].shows
        /\ vs[u].source = IF u = w THEN "closed" ELSE visits[u].source
  BY <1>2, <1>3 DEF Visits
<1> QED
  BY <1>2, <1>3, <1>4 DEF vs, w

LEMMA StartTabs ==
  ASSUME PageTypeOK, TabsInv, NEW v \in Visits, Start(v)
  PROVE  PageTypeOK' /\ TabsInv'
<1> DEFINE t == TabOf(v)
           vs == Shut(visits, leave[t])
           x == [vs[v] EXCEPT !.source = "connecting"]
<1>1. /\ visits[v] \in VisitSet /\ t \in Tab /\ v \in Nat \ {0}
  BY VisitFields DEF Visits
<1>2. /\ vs \in Seq(VisitSet) /\ Len(vs) = Len(visits)
      /\ \A u \in Visits :
           /\ vs[u] \in VisitSet /\ vs[u].tab = visits[u].tab /\ vs[u].peer = visits[u].peer
           /\ vs[u].sources = visits[u].sources /\ vs[u].asks = visits[u].asks
           /\ vs[u].shows = visits[u].shows
           /\ vs[u].source = IF u = leave[t] THEN "closed" ELSE visits[u].source
  BY <1>1, ShutVisits
<1>3. visits[v].source = "none" /\ visits' = [vs EXCEPT ![v] = x] /\ leave' = [leave EXCEPT ![t] = v]
      /\ UNCHANGED <<at, track, capturing, owner, posts, hasty>>
  BY DEF Start
<1> HIDE DEF vs
<1>4. /\ x \in VisitSet /\ x.tab = vs[v].tab /\ x.peer = vs[v].peer /\ x.source = "connecting"
      /\ x.sources = vs[v].sources /\ x.asks = vs[v].asks /\ x.shows = vs[v].shows
  BY <1>2 DEF VisitSet
<1> HIDE DEF x
<1>5. /\ visits' \in Seq(VisitSet) /\ Len(visits') = Len(visits)
      /\ visits'[v] = x /\ \A u \in Visits : u # v => visits'[u] = vs[u]
  BY <1>2, <1>3, <1>4, SeqSet DEF Visits
<1>6. /\ Visits' = Visits
      /\ \A u \in Visits :
           /\ TabOf(u)' = TabOf(u) /\ TabOf(u) \in Tab /\ u # 0
           /\ visits'[u].peer = visits[u].peer /\ visits'[u].sources = visits[u].sources
           /\ visits'[u].asks = visits[u].asks /\ visits'[u].shows = visits[u].shows
           /\ visits'[u].source = IF u = v THEN "connecting"
                                  ELSE IF u = leave[t] THEN "closed" ELSE visits[u].source
  <2>1. Visits' = Visits
    BY <1>5 DEF Visits
  <2>2. ASSUME NEW u \in Visits
        PROVE  /\ TabOf(u)' = TabOf(u) /\ TabOf(u) \in Tab /\ u # 0
               /\ visits'[u].peer = visits[u].peer /\ visits'[u].sources = visits[u].sources
               /\ visits'[u].asks = visits[u].asks /\ visits'[u].shows = visits[u].shows
               /\ visits'[u].source = IF u = v THEN "connecting"
                                      ELSE IF u = leave[t] THEN "closed" ELSE visits[u].source
    <3>1. TabOf(u) \in Tab /\ u # 0
      BY VisitFields DEF Visits
    <3>2. CASE u = v
      BY <1>2, <1>4, <1>5, <3>1, <3>2 DEF TabOf
    <3>3. CASE u # v
      BY <1>2, <1>5, <3>1, <3>3 DEF TabOf
    <3> QED
      BY <3>2, <3>3
  <2> QED
    BY <2>1, <2>2
<1>7. PageTypeOK'
  <2>1. \A u \in Tab : OwnVisit(u, at[u])' /\ OwnVisit(u, leave[u])'
    <3> TAKE u \in Tab
    <3>1. OwnVisit(u, at[u]) /\ OwnVisit(u, leave[u]) /\ leave'[u] = IF u = t THEN v ELSE leave[u]
      BY <1>3 DEF PageTypeOK
    <3> QED
      BY <1>3, <1>6, <3>1 DEF OwnVisit
  <2>2. \A u \in Visits' : visits'[u].source = "open" => visits'[u].peer \in Peer
    BY <1>6 DEF PageTypeOK
  <2>3. leave' \in [Tab -> Nat]
    BY <1>1, <1>3 DEF PageTypeOK
  <2> QED
    BY <1>3, <1>5, <1>6, <2>1, <2>2, <2>3 DEF PageTypeOK
<1>8. OneStreamPerTab'
  <2> SUFFICES ASSUME NEW u \in Visits, visits'[u].source \in {"connecting", "open"}
               PROVE  leave'[TabOf(u)] = u
    BY <1>6 DEF OneStreamPerTab
  <2>1. CASE u = v
    BY <1>1, <1>3, <2>1 DEF PageTypeOK
  <2>2. CASE u # v
    <3>1. u # leave[t] /\ visits[u].source \in {"connecting", "open"}
      BY <1>6, <2>2
    <3>2. leave[TabOf(u)] = u
      BY <3>1 DEF TabsInv, OneStreamPerTab
    <3> QED
      BY <1>3, <1>6, <3>1, <3>2 DEF PageTypeOK
  <2> QED
    BY <2>1, <2>2
<1>9. TracksAreHeld' /\ Owns'
  <2>1. \A n \in capturing : owner[n] \in Visits
    BY DEF PageTypeOK
  <2> QED
    BY <1>3, <1>6, <2>1 DEF TabsInv, TracksAreHeld, Owns
<1>10. Idles'
  BY <1>3 DEF TabsInv, Idles
<1>11. Rests' /\ Failed'
  <2>1. v = at[t] \/ t \in hasty
    BY <1>3, Here
  <2>2. visits[v].shows # "failed"
    BY <1>3, Here
  <2> QED
    BY <1>3, <1>6, <2>1, <2>2 DEF TabsInv, Rests, Failed
<1>12. ButtonsAreTrue'
  <2>1. \A u \in Tab : at[u] # 0 => at[u] \in Visits
    BY DEF PageTypeOK, OwnVisit
  <2>2. \A u \in Tab : at[u] # 0 => visits'[at[u]].sources = visits[at[u]].sources
                                    /\ visits'[at[u]].shows = visits[at[u]].shows
    BY <1>6, <2>1
  <2> QED
    BY <1>3, <2>2 DEF TabsInv, ButtonsAreTrue
<1> QED
  BY <1>7, <1>8, <1>9, <1>10, <1>11, <1>12 DEF TabsInv

\* What is left of the visit that was left: a closure that waits, or nothing.
LEMMA ExitTabs ==
  ASSUME PageTypeOK, TabsInv, NEW t \in Tab, Exit(t)
  PROVE  PageTypeOK' /\ TabsInv'
<1> DEFINE v == at[t]
           vs == Shut(visits, leave[t])
           x == [Visit(vs[v].tab, vs[v].room) EXCEPT !.source = "closed"]
<1>1. v \in Visits /\ TabOf(v) = t /\ v # 0
  BY DEF Exit, PageTypeOK, OwnVisit
<1>2. /\ vs \in Seq(VisitSet) /\ Len(vs) = Len(visits)
      /\ \A u \in Visits :
           /\ vs[u] \in VisitSet /\ vs[u].tab = visits[u].tab /\ vs[u].peer = visits[u].peer
           /\ vs[u].sources = visits[u].sources /\ vs[u].asks = visits[u].asks
           /\ vs[u].shows = visits[u].shows
           /\ vs[u].source = IF u = leave[t] THEN "closed" ELSE visits[u].source
  BY ShutVisits
<1>3. /\ visits' = IF Awaits(v) THEN vs ELSE [vs EXCEPT ![v] = x]
      /\ hasty' = IF Awaits(v) THEN hasty \cup {t} ELSE hasty
      /\ at' = [at EXCEPT ![t] = 0]
      /\ DisposeLiveRoom(t) /\ UNCHANGED <<owner, posts>>
  BY DEF Exit, Forgotten
<1> HIDE DEF vs
<1>4. x \in VisitSet /\ x.tab = vs[v].tab /\ x.source = "closed" /\ x.asks = 0 /\ x.shows = "joining"
  BY <1>1, <1>2 DEF VisitSet, Visit
<1> HIDE DEF x, v
<1>5. /\ visits' \in Seq(VisitSet) /\ Len(visits') = Len(visits)
      /\ \A u \in Visits : visits'[u] = IF u = v /\ ~Awaits(v) THEN x ELSE vs[u]
  BY <1>1, <1>2, <1>3, <1>4, SeqSet DEF Visits
<1>6. \A u \in Visits : visits'[u].tab = visits[u].tab
  BY <1>2, <1>4, <1>5
<1>7. /\ Visits' = Visits /\ \A u \in Visits : TabOf(u)' = TabOf(u) /\ TabOf(u) \in Tab /\ u # 0
      /\ leave' \in [Tab -> Nat] /\ track' \in [Tab -> Nat] /\ capturing' \subseteq capturing
      /\ \A u \in Tab : leave'[u] = (IF u = t THEN 0 ELSE leave[u])
      /\ \A u \in Tab : track'[u] = (IF u = t THEN 0 ELSE track[u])
      /\ \A u \in Tab : OwnVisit(u, leave[u])' /\ track'[u] \in 0..Len(owner')
      /\ \A n \in capturing' : owner[n] \in Visits /\ TabOf(owner[n])' = TabOf(owner[n])
                               /\ TabOf(owner[n]) # t
      /\ TracksAreHeld'
      /\ \A n \in 1..Len(owner') : owner'[n] \in Visits'
  BY <1>3, <1>5, <1>6, DisposeFacts DEF TabsInv
<1>8. \A u \in Tab : at'[u] = IF u = t THEN 0 ELSE at[u]
  BY <1>3 DEF PageTypeOK
<1>9. \A u \in Visits : /\ visits'[u].source = "closed" \/ visits'[u].source = visits[u].source
                        /\ visits'[u].asks = 0 \/ visits'[u].asks = visits[u].asks
                        /\ visits'[u].shows = "joining" \/ visits'[u].shows = visits[u].shows
                        /\ u = leave[t] => visits'[u].source = "closed"
                        /\ u = v /\ ~Awaits(v) => visits'[u].source = "closed" /\ visits'[u].asks = 0
                                                  /\ visits'[u].shows = "joining"
                        /\ u # v => visits'[u].sources = visits[u].sources
                                    /\ visits'[u].shows = visits[u].shows
                        /\ visits'[u].peer = visits[u].peer \/ visits'[u].source = "closed"
  BY <1>2, <1>4, <1>5
<1>10. PageTypeOK'
  <2>1. \A u \in Tab : OwnVisit(u, at[u])'
    <3> TAKE u \in Tab
    <3>1. OwnVisit(u, at[u])
      BY DEF PageTypeOK
    <3> QED
      BY <1>7, <1>8, <3>1 DEF OwnVisit
  <2>2. \A u \in Visits' : visits'[u].source = "open" => visits'[u].peer \in Peer
    BY <1>7, <1>9 DEF PageTypeOK
  <2>3. at' \in [Tab -> Nat] /\ capturing' \subseteq 1..Len(owner')
    BY <1>3, <1>7 DEF PageTypeOK
  <2> QED
    BY <1>3, <1>5, <1>7, <2>1, <2>2, <2>3 DEF PageTypeOK
<1>11. OneStreamPerTab'
  BY <1>7, <1>9 DEF TabsInv, OneStreamPerTab
<1>12. Rests'
  <2> SUFFICES ASSUME NEW u \in Visits, TabOf(u) \notin hasty', u # at'[TabOf(u)]
               PROVE  visits'[u].source = "closed" /\ visits'[u].asks = 0
    BY <1>7 DEF Rests
  <2>1. TabOf(u) \notin hasty
    BY <1>3
  <2>2. CASE u = v
    <3>1. ~Awaits(v)
      BY <1>1, <1>3, <2>2
    <3> QED
      BY <1>9, <2>2, <3>1
  <2>3. CASE u # v
    <3>1. u # at[TabOf(u)]
      BY <1>1, <1>7, <1>8, <2>3 DEF v
    <3>2. visits[u].source = "closed" /\ visits[u].asks = 0
      BY <2>1, <3>1 DEF TabsInv, Rests
    <3> QED
      BY <1>9, <3>2
  <2> QED
    BY <2>2, <2>3
<1>h. \A u \in Tab : u \notin hasty' => u \notin hasty
  BY <1>3
<1>13. Idles'
  BY <1>h, <1>7, <1>8 DEF TabsInv, Idles
<1>16. Owns'
  <2> SUFFICES ASSUME NEW n \in capturing', TabOf(owner[n])' \notin hasty'
               PROVE  owner'[n] = at'[TabOf(owner[n])']
    BY DEF Owns
  <2>1. n \in capturing /\ owner'[n] = owner[n] /\ TabOf(owner[n])' = TabOf(owner[n])
        /\ TabOf(owner[n]) \in Tab \ {t}
    BY <1>3, <1>7
  <2> QED
    BY <1>h, <1>8, <2>1 DEF TabsInv, Owns
<1>14. Failed'
  BY <1>7, <1>9 DEF TabsInv, Failed
<1>15. ButtonsAreTrue'
  <2> SUFFICES ASSUME NEW u \in Tab, at'[u] # 0, u \notin hasty', visits'[at'[u]].shows # "failed"
               PROVE  visits'[at'[u]].sources = On <=> track'[u] # 0
    BY DEF ButtonsAreTrue
  <2>1. u # t /\ u \notin hasty /\ at'[u] = at[u] /\ track'[u] = track[u]
    BY <1>3, <1>7, <1>8
  <2>2. at[u] \in Visits /\ TabOf(at[u]) = u
    BY <1>8 DEF PageTypeOK, OwnVisit
  <2>3. at[u] # v
    BY <1>1, <2>1, <2>2
  <2>4. visits'[at[u]].sources = visits[at[u]].sources /\ visits'[at[u]].shows = visits[at[u]].shows
    BY <1>9, <2>2, <2>3
  <2> QED
    BY <2>1, <2>4 DEF TabsInv, ButtonsAreTrue
<1> QED
  BY <1>7, <1>10, <1>11, <1>12, <1>13, <1>14, <1>15, <1>16 DEF TabsInv

\* With no hello so far the visit is over; otherwise its source tries again.
LEMMA DroppedTabs ==
  ASSUME PageTypeOK, TabsInv, NEW v \in Visits, NEW source \in {"closed", "connecting"},
         visits[v].source \in {"connecting", "open"}, Dropped(v, source)
  PROVE  PageTypeOK' /\ TabsInv'
<1> DEFINE t == TabOf(v)
<1>1. /\ visits[v] \in VisitSet /\ t \in Tab /\ v \in Nat \ {0} /\ visits \in Seq(VisitSet)
      /\ visits[v].shows # "failed" /\ leave[t] = v /\ (v = at[t] \/ t \in hasty)
  BY VisitFields, Here DEF Visits, PageTypeOK, TabsInv, OneStreamPerTab
<1>2. CASE visits[v].self = NoPeer
  <2> DEFINE x == [visits[v] EXCEPT !.source = source, !.shows = "failed"]
             y == [x EXCEPT !.source = "closed"]
  <2>1. visits' = Shut([[visits EXCEPT ![v].source = source] EXCEPT ![v].shows = "failed"], v)
    BY <1>1, <1>2 DEF Dropped
  <2>2. DisposeLiveRoom(t) /\ UNCHANGED <<at, owner, posts, hasty>>
    BY <1>2 DEF Dropped
  <2>3. [[visits EXCEPT ![v].source = source] EXCEPT ![v].shows = "failed"] = [visits EXCEPT ![v] = x]
    BY <1>1 DEF VisitSet, Visits
  <2>4. x \in VisitSet /\ x.tab = visits[v].tab /\ x.shows = "failed" /\ x.asks = visits[v].asks
    BY <1>1 DEF VisitSet
  <2> HIDE DEF x
  <2>5. /\ [visits EXCEPT ![v] = x] \in Seq(VisitSet) /\ Len([visits EXCEPT ![v] = x]) = Len(visits)
        /\ \A u \in 1..Len(visits) : [visits EXCEPT ![v] = x][u] = IF u = v THEN x ELSE visits[u]
    BY <1>1, <2>4, SeqSet DEF Visits
  <2>6. /\ visits' \in Seq(VisitSet) /\ Len(visits') = Len(visits)
        /\ visits'[v].tab = visits[v].tab /\ visits'[v].source = "closed"
        /\ visits'[v].shows = "failed" /\ visits'[v].asks = visits[v].asks
        /\ \A u \in Visits : u # v => visits'[u] = visits[u]
    <3> DEFINE vs == [visits EXCEPT ![v] = x]
    <3>1. vs \in Seq(VisitSet) /\ v \in 1..Len(vs) /\ Len(vs) = Len(visits) /\ vs[v] = x
      BY <2>5 DEF Visits
    <3>2. visits' = Shut(vs, v)
      BY <2>1, <2>3
    <3> HIDE DEF vs
    <3>3. /\ Shut(vs, v) \in Seq(VisitSet) /\ Len(Shut(vs, v)) = Len(vs)
          /\ Shut(vs, v)[v].tab = vs[v].tab /\ Shut(vs, v)[v].source = "closed"
          /\ Shut(vs, v)[v].shows = vs[v].shows /\ Shut(vs, v)[v].asks = vs[v].asks
          /\ \A u \in 1..Len(vs) : u # v => Shut(vs, v)[u] = vs[u]
      BY <1>1, <3>1, ShutFacts
    <3>4. \A u \in Visits : u # v => vs[u] = visits[u]
      BY <2>5 DEF vs, Visits
    <3> QED
      BY <2>4, <3>1, <3>2, <3>3, <3>4 DEF Visits
  <2>7. /\ Visits' = Visits /\ \A u \in Visits : TabOf(u)' = TabOf(u) /\ TabOf(u) \in Tab /\ u # 0
        /\ leave' \in [Tab -> Nat] /\ track' \in [Tab -> Nat] /\ capturing' \subseteq capturing
        /\ \A u \in Tab : leave'[u] = (IF u = t THEN 0 ELSE leave[u])
        /\ \A u \in Tab : track'[u] = (IF u = t THEN 0 ELSE track[u])
        /\ \A u \in Tab : OwnVisit(u, leave[u])' /\ track'[u] \in 0..Len(owner')
        /\ \A n \in capturing' : owner[n] \in Visits /\ TabOf(owner[n])' = TabOf(owner[n])
                                 /\ TabOf(owner[n]) # t
        /\ TracksAreHeld'
        /\ \A n \in 1..Len(owner') : owner'[n] \in Visits'
    <3>1. \A u \in Visits : visits'[u].tab = visits[u].tab
      BY <2>6
    <3> QED
      BY <1>1, <2>2, <2>6, <3>1, DisposeFacts DEF TabsInv
  <2>8. PageTypeOK'
    <3>1. \A u \in Tab : OwnVisit(u, at[u])'
      BY <2>2, <2>7 DEF OwnVisit, PageTypeOK
    <3>2. \A u \in Visits' : visits'[u].source = "open" => visits'[u].peer \in Peer
      BY <2>6, <2>7 DEF PageTypeOK
    <3>3. capturing' \subseteq 1..Len(owner')
      BY <2>2, <2>7 DEF PageTypeOK
    <3> QED
      BY <2>2, <2>6, <2>7, <3>1, <3>2, <3>3 DEF PageTypeOK
  <2>9. OneStreamPerTab'
    <3> SUFFICES ASSUME NEW u \in Visits, visits'[u].source \in {"connecting", "open"}
                 PROVE  leave'[TabOf(u)] = u
      BY <2>7 DEF OneStreamPerTab
    <3>1. u # v /\ visits'[u] = visits[u]
      BY <2>6
    <3>2. leave[TabOf(u)] = u /\ TabOf(u) \in Tab
      BY <2>7, <3>1 DEF TabsInv, OneStreamPerTab
    <3> QED
      BY <1>1, <2>7, <3>1, <3>2
  <2>10. Rests' /\ Failed'
    <3>1. Rests'
      <4> SUFFICES ASSUME NEW u \in Visits, TabOf(u) \notin hasty, u # at[TabOf(u)]
                   PROVE  visits'[u].source = "closed" /\ visits'[u].asks = 0
        BY <2>2, <2>7 DEF Rests
      <4>1. u # v
        BY <1>1
      <4> QED
        BY <2>6, <4>1 DEF TabsInv, Rests
    <3>2. Failed'
      BY <2>6, <2>7 DEF TabsInv, Failed
    <3> QED
      BY <3>1, <3>2
  <2>11. Idles'
    BY <2>2, <2>7 DEF TabsInv, Idles
  <2>12. Owns'
    BY <2>2, <2>7 DEF TabsInv, Owns
  <2>13. ButtonsAreTrue'
    <3> SUFFICES ASSUME NEW u \in Tab, at[u] # 0, u \notin hasty, visits'[at[u]].shows # "failed"
                 PROVE  visits'[at[u]].sources = On <=> track'[u] # 0
      BY <2>2 DEF ButtonsAreTrue
    <3>1. at[u] \in Visits /\ TabOf(at[u]) = u
      BY DEF PageTypeOK, OwnVisit
    <3>2. at[u] # v
      BY <2>6
    <3>3. u # t
      BY <1>1, <3>2
    <3> QED
      BY <2>6, <2>7, <3>1, <3>2, <3>3 DEF TabsInv, ButtonsAreTrue
  <2> QED
    BY <2>7, <2>8, <2>9, <2>10, <2>11, <2>12, <2>13 DEF TabsInv
<1>3. CASE visits[v].self # NoPeer
  <2> DEFINE x == [visits[v] EXCEPT !.source = source, !.shows = "reconnecting"]
  <2>1. /\ visits' = [[visits EXCEPT ![v].source = source] EXCEPT ![v].shows = "reconnecting"]
        /\ UNCHANGED <<at, leave, track, capturing, owner, posts, hasty>>
    BY <1>3 DEF Dropped, tabVars
  <2>2. visits' = [visits EXCEPT ![v] = x]
    BY <1>1, <2>1 DEF VisitSet, Visits
  <2>3. /\ x \in VisitSet /\ x.tab = visits[v].tab /\ x.room = visits[v].room
        /\ x.source = source /\ x.peer = visits[v].peer /\ x.sources = visits[v].sources
        /\ x.shows = "reconnecting"
    BY <1>1 DEF VisitSet
  <2> HIDE DEF x
  <2>4. Turns(v, x)
    BY <1>1, <2>2, <2>3, TurnsInto
  <2> QED
    BY <1>1, <2>1, <2>3, <2>4, TurnTabs DEF PageTypeOK
<1> QED
  BY <1>2, <1>3

LEMMA StillTabs ==
  ASSUME PageTypeOK, TabsInv, UNCHANGED <<at, visits, leave, track, capturing, owner, hasty>>,
         posts' \subseteq Post
  PROVE  PageTypeOK' /\ TabsInv'
<1>1. Visits' = Visits /\ \A v : TabOf(v)' = TabOf(v)
  BY DEF Visits, TabOf
<1>2. PageTypeOK'
  BY <1>1 DEF PageTypeOK, OwnVisit
<1>3. TabsInv'
  BY <1>1 DEF TabsInv, OneStreamPerTab, TracksAreHeld, Rests, Idles, Owns, Failed, ButtonsAreTrue
<1> QED
  BY <1>2, <1>3

LEMMA ConnectTabs ==
  ASSUME PageTypeOK, TabsInv, NEW v \in Visits, Connect(v)
  PROVE  PageTypeOK' /\ TabsInv'
<1>1. PICK p \in Peer : visits' = [visits EXCEPT ![v] = [@ EXCEPT !.source = "open", !.peer = p]]
  BY DEF Connect
<1>2. /\ visits[v].source = "connecting"
      /\ UNCHANGED <<at, leave, track, capturing, owner, posts, hasty>>
  BY DEF Connect, tabVars
<1> DEFINE x == [visits[v] EXCEPT !.source = "open", !.peer = p]
<1>3. visits[v] \in VisitSet /\ visits \in Seq(VisitSet) /\ (v = at[TabOf(v)] \/ TabOf(v) \in hasty)
      /\ visits[v].shows # "failed"
  BY <1>2, VisitFields, Here DEF PageTypeOK
<1>4. /\ x \in VisitSet /\ x.tab = visits[v].tab /\ x.room = visits[v].room /\ x.source = "open"
      /\ x.peer = p /\ x.sources = visits[v].sources /\ x.shows = visits[v].shows
  BY <1>3 DEF VisitSet
<1>5. visits' = [visits EXCEPT ![v] = x]
  BY <1>1
<1> HIDE DEF x
<1>6. Turns(v, x)
  BY <1>3, <1>4, <1>5, TurnsInto
<1> QED
  BY <1>2, <1>3, <1>4, <1>6, TurnTabs DEF PageTypeOK

LEMMA ReadsTabs ==
  ASSUME PageTypeOK, TabsInv, NEW v \in Visits, Reads(v)
  PROVE  PageTypeOK' /\ TabsInv'
<1> DEFINE p == visits[v].peer
           f == Head(stream[p])
           self == IF f.type = "hello" THEN p ELSE visits[v].self
           x == [visits[v] EXCEPT !.self = self, !.shows = "here"]
<1>1. /\ visits[v].source = "open" /\ UNCHANGED <<at, leave, track, capturing, owner, hasty>>
      /\ IF f.type = "hello" THEN Greeted(v, p) ELSE Changes(v)
  BY DEF Reads, Connected
<1>2. visits[v] \in VisitSet /\ visits \in Seq(VisitSet) /\ (v = at[TabOf(v)] \/ TabOf(v) \in hasty)
      /\ visits[v].shows # "failed" /\ p \in Peer /\ visits[v].sources \in Source
  BY <1>1, VisitFields, Here DEF PageTypeOK
<1>3. visits' = [visits EXCEPT ![v] = x]
  <2>1. CASE f.type = "hello"
    BY <1>1, <2>1 DEF Greeted
  <2>2. CASE f.type # "hello"
    <3>1. visits' = [visits EXCEPT ![v].shows = "here"] /\ self = visits[v].self
      BY <1>1, <2>2 DEF Changes
    <3>2. [visits[v] EXCEPT !.shows = "here"] = [visits[v] EXCEPT !.self = visits[v].self, !.shows = "here"]
      BY <1>2 DEF VisitSet
    <3> QED
      BY <3>1, <3>2
  <2> QED
    BY <2>1, <2>2
<1>4. posts' \subseteq Post
  BY <1>1, <1>2, AnnouncesType DEF Greeted, Changes, PageTypeOK
<1>5. self \in Peer \cup {NoPeer}
  BY <1>2 DEF VisitSet
<1> HIDE DEF self
<1>6. /\ x \in VisitSet /\ x.tab = visits[v].tab /\ x.room = visits[v].room
      /\ x.source = visits[v].source /\ x.peer = visits[v].peer
      /\ x.sources = visits[v].sources /\ x.shows = "here"
  BY <1>2, <1>5 DEF VisitSet
<1> HIDE DEF x
<1>7. Turns(v, x)
  BY <1>2, <1>3, <1>6, TurnsInto
<1> QED
  BY <1>1, <1>2, <1>4, <1>6, <1>7, TurnTabs

\* A browser is asked for a track, or answers.
LEMMA AsksTabs ==
  ASSUME PageTypeOK, TabsInv, NEW v \in Visits, NEW n \in Nat,
         visits' = [visits EXCEPT ![v].asks = n],
         UNCHANGED <<at, leave, track, capturing, owner, posts, hasty>>,
         v = at[TabOf(v)] \/ TabOf(v) \in hasty
  PROVE  PageTypeOK' /\ TabsInv'
<1> DEFINE x == [visits[v] EXCEPT !.asks = n]
<1>1. visits[v] \in VisitSet /\ visits \in Seq(VisitSet)
  BY VisitFields DEF PageTypeOK
<1>2. /\ x \in VisitSet /\ x.tab = visits[v].tab /\ x.room = visits[v].room
      /\ x.source = visits[v].source /\ x.peer = visits[v].peer
      /\ x.sources = visits[v].sources /\ x.shows = visits[v].shows
  BY <1>1 DEF VisitSet
<1>3. visits' = [visits EXCEPT ![v] = x]
  OBVIOUS
<1> HIDE DEF x
<1>4. Turns(v, x)
  BY <1>1, <1>2, <1>3, TurnsInto
<1> QED
  BY <1>2, <1>4, TurnTabs DEF PageTypeOK, TabsInv, Failed

LEMMA PublishTabs ==
  ASSUME PageTypeOK, TabsInv, NEW v \in Visits, Toggle(v) \/ Granted(v) \/ Denied(v)
  PROVE  PageTypeOK' /\ TabsInv'
<1>1. visits[v].asks \in Nat /\ Len(owner) \in Nat
  BY VisitFields DEF PageTypeOK
<1>2. CASE Toggle(v) /\ track[TabOf(v)] # 0
  BY <1>1, <1>2, SetTrackTabs DEF Toggle, quiet
<1>3. CASE Toggle(v) /\ track[TabOf(v)] = 0
  <2>1. visits' = [visits EXCEPT ![v].asks = visits[v].asks + 1]
    BY <1>3 DEF Toggle
  <2>2. visits[v].asks + 1 \in Nat
    BY <1>1
  <2>3. v = at[TabOf(v)] /\ UNCHANGED <<at, leave, track, capturing, owner, posts, hasty>>
    BY <1>3 DEF Toggle, quiet
  <2> QED
    BY <2>1, <2>2, <2>3, AsksTabs
<1>4. CASE Granted(v)
  <2>1. v = at[TabOf(v)] \/ TabOf(v) \in hasty
    BY <1>1, <1>4, Here DEF Granted
  <2>2. visits[v].asks - 1 \in Nat
    BY <1>1, <1>4 DEF Granted
  <2> QED
    BY <1>4, <2>1, <2>2, SetTrackTabs DEF Granted, quiet
<1>5. CASE Denied(v)
  <2>1. v = at[TabOf(v)] \/ TabOf(v) \in hasty
    BY <1>1, <1>5, Here DEF Denied
  <2>2. visits[v].asks - 1 \in Nat /\ visits' = [visits EXCEPT ![v].asks = visits[v].asks - 1]
    BY <1>1, <1>5 DEF Denied
  <2> QED
    BY <1>5, <2>1, <2>2, AsksTabs DEF Denied, quiet
<1> QED
  BY <1>2, <1>3, <1>4, <1>5

LEMMA TrackEndedTabs ==
  ASSUME PageTypeOK, TabsInv, NEW n \in capturing, TrackEnded(n)
  PROVE  PageTypeOK' /\ TabsInv'
<1>1. owner[n] \in Visits
  BY DEF PageTypeOK
<1>2. owner[n] = at[TabOf(owner[n])] \/ TabOf(owner[n]) \in hasty
  BY DEF TabsInv, Owns
<1>3. visits[owner[n]].asks \in Nat
  BY <1>1, VisitFields
<1> QED
  BY <1>1, <1>2, <1>3, SetTrackTabs DEF TrackEnded, quiet

LEMMA InitTabs == PageInit => PageTypeOK /\ TabsInv
<1> SUFFICES ASSUME PageInit PROVE PageTypeOK /\ TabsInv
  OBVIOUS
<1>1. /\ at = [t \in Tab |-> 0] /\ visits = <<>> /\ leave = [t \in Tab |-> 0]
      /\ track = [t \in Tab |-> 0] /\ owner = <<>> /\ capturing = {} /\ posts = {}
  BY DEF PageInit
<1>2. Visits = {} /\ Len(owner) = 0
  BY <1>1 DEF Visits
<1>3. PageTypeOK
  BY <1>1, <1>2 DEF PageTypeOK, OwnVisit
<1>4. TabsInv
  BY <1>1, <1>2 DEF TabsInv, OneStreamPerTab, TracksAreHeld, Rests, Idles, Owns, Failed, ButtonsAreTrue
<1> QED
  BY <1>3, <1>4

LEMMA NextTabs == PageTypeOK /\ TabsInv /\ [PageNext]_allVars => PageTypeOK' /\ TabsInv'
<1> SUFFICES ASSUME PageTypeOK, TabsInv, [PageNext]_allVars PROVE PageTypeOK' /\ TabsInv'
  OBVIOUS
<1>1. ASSUME NEW t \in Tab, Exit(t) PROVE PageTypeOK' /\ TabsInv'
  BY <1>1, ExitTabs
<1>2. ASSUME NEW t \in Tab, NEW r \in Room, Enter(t, r) PROVE PageTypeOK' /\ TabsInv'
  BY <1>2, EnterTabs
<1>3. ASSUME NEW v \in Visits, Start(v) PROVE PageTypeOK' /\ TabsInv'
  BY <1>3, StartTabs
<1>4. ASSUME NEW v \in Visits, Connect(v) PROVE PageTypeOK' /\ TabsInv'
  BY <1>4, ConnectTabs
<1>5. ASSUME NEW v \in Visits, Refused(v) \/ Unreachable(v) \/ Ends(v) PROVE PageTypeOK' /\ TabsInv'
  BY <1>5, DroppedTabs DEF Refused, Unreachable, Ends
<1>6. ASSUME NEW v \in Visits, Breaks(v) PROVE PageTypeOK' /\ TabsInv'
  BY <1>6, StillTabs DEF Breaks, tabVars, PageTypeOK
<1>7. ASSUME NEW v \in Visits, Reads(v) PROVE PageTypeOK' /\ TabsInv'
  BY <1>7, ReadsTabs
<1>8. ASSUME NEW v \in Visits, Toggle(v) \/ Granted(v) \/ Denied(v) PROVE PageTypeOK' /\ TabsInv'
  BY <1>8, PublishTabs
<1>9. ASSUME NEW n \in capturing, TrackEnded(n) PROVE PageTypeOK' /\ TabsInv'
  BY <1>9, TrackEndedTabs
<1>10. ASSUME NEW m \in posts, Delivered(m) \/ Fails(m) PROVE PageTypeOK' /\ TabsInv'
  <2>1. posts' \subseteq Post /\ UNCHANGED <<at, visits, leave, track, capturing, owner, hasty>>
    BY <1>10 DEF Delivered, Fails, PageTypeOK, tabVars
  <2> QED
    BY <2>1, StillTabs
<1>11. CASE ServerRestarts
  BY <1>11, StillTabs DEF ServerRestarts, tabVars, PageTypeOK
<1>12. ASSUME NEW p \in Peer, Notices(p) \/ SomebodyComes(p) \/ SomebodyGoes(p)
       PROVE  PageTypeOK' /\ TabsInv'
  BY <1>12, StillTabs DEF Notices, SomebodyComes, SomebodyGoes, pageVars, tabVars, PageTypeOK
<1>13. CASE UNCHANGED allVars
  BY <1>13, StillTabs DEF allVars, pageVars, tabVars, PageTypeOK
<1> QED
  BY <1>1, <1>2, <1>3, <1>4, <1>5, <1>6, <1>7, <1>8, <1>9, <1>10, <1>11, <1>12, <1>13
  DEF PageNext, PageStep

LEMMA AlwaysTabs == PageSpec => [](PageTypeOK /\ TabsInv)
BY InitTabs, NextTabs, PTL DEF PageSpec

\* Every variable of the pages keeps its type, and what a tab refers to is a
\* visit of its own and a track that was captured.
THEOREM PageTypeCorrect == PageSpec => []PageTypeOK
BY AlwaysTabs, PTL

\* A tab is in one room: no stream of a visit is open, or will be, that the way
\* out of the page does not close.
THEOREM TabsAreInOneRoom == PageSpec => []OneStreamPerTab
<1>1. TabsInv => OneStreamPerTab
  BY DEF TabsInv
<1> QED
  BY <1>1, AlwaysTabs, PTL

\* Every track that goes on is the one its tab will stop.
THEOREM TracksCanBeStopped == PageSpec => []TracksAreHeld
<1>1. TabsInv => TracksAreHeld
  BY DEF TabsInv
<1> QED
  BY <1>1, AlwaysTabs, PTL

\* Whoever leaves a page while nothing is awaited is out of the room, and
\* nothing of that tab is captured.
THEOREM LeftTabsAreOut == PageSpec => []LeavingIsLeaving
<1>1. PageTypeOK /\ TabsInv => LeavingIsLeaving
  <2> SUFFICES ASSUME PageTypeOK, TabsInv, NEW t \in Tab, at[t] = 0, t \notin hasty
               PROVE  Gone(t)
    BY DEF LeavingIsLeaving
  <2>1. \A v \in Visits : TabOf(v) = t => visits[v].source = "closed"
    BY DEF TabsInv, Rests, Visits
  <2>2. ASSUME NEW n \in capturing PROVE TabOf(owner[n]) # t
    BY DEF TabsInv, Owns, PageTypeOK, Visits
  <2> QED
    BY <2>1, <2>2 DEF Gone
<1> QED
  BY <1>1, AlwaysTabs, PTL

\* The buttons of a page say whether anything is captured.
THEOREM ButtonsTellTheTruth == PageSpec => []ButtonsAreTrue
<1>1. TabsInv => ButtonsAreTrue
  BY DEF TabsInv
<1> QED
  BY <1>1, AlwaysTabs, PTL

-----------------------------------------------------------------------------
(* The rooms under the pages. *)

LEMMA ClosesStep ==
  ASSUME PageTypeOK, NEW w, w = 0 \/ w \in Visits, Closes(w)
  PROVE  UNCHANGED vars \/ \E p \in Peer : Disconnect(p)
<1>1. CASE w # 0 /\ Connected(w)
  <2>1. visits[w].peer \in Peer
    BY <1>1 DEF Connected, PageTypeOK
  <2> QED
    BY <1>1, <2>1 DEF Closes
<1>2. CASE ~(w # 0 /\ Connected(w))
  BY <1>2 DEF Closes
<1> QED
  BY <1>1, <1>2

\* What a step of the pages other than an arrival or a delivery may do to rooms.
Quietly == \/ UNCHANGED vars \/ Restart
           \/ \E p \in Peer : Disconnect(p) \/ Leave(p) \/ Read(p)

LEMMA DroppedQuietly ==
  ASSUME PageTypeOK, NEW v \in Visits, NEW source, Dropped(v, source)
  PROVE  Quietly
<1>1. leave[TabOf(v)] = 0 \/ leave[TabOf(v)] \in Visits
  BY VisitFields DEF PageTypeOK, OwnVisit
<1> QED
  BY <1>1, ClosesStep DEF Dropped, Quietly

LEMMA QuietSteps ==
  ASSUME PageTypeOK
  PROVE  /\ \A t \in Tab : Exit(t) => Quietly
         /\ \A t \in Tab, r \in Room : Enter(t, r) => Quietly
         /\ \A v \in Visits : Start(v) \/ Refused(v) \/ Unreachable(v) \/ Ends(v) \/ Breaks(v)
                              \/ Reads(v) \/ Toggle(v) \/ Granted(v) \/ Denied(v) => Quietly
         /\ \A n \in capturing : TrackEnded(n) => Quietly
         /\ \A m \in posts : Fails(m) => Quietly
         /\ ServerRestarts => Quietly
         /\ \A p \in Peer : Notices(p) \/ SomebodyGoes(p) => Quietly
<1>1. \A t \in Tab : leave[t] = 0 \/ leave[t] \in Visits
  BY DEF PageTypeOK, OwnVisit
<1>2. \A t \in Tab : Exit(t) => Quietly
  BY <1>1, ClosesStep DEF Exit, Quietly
<1>3. \A t \in Tab, r \in Room : Enter(t, r) => Quietly
  BY DEF Enter, Quietly
<1>4. ASSUME NEW v \in Visits, Start(v) PROVE Quietly
  BY <1>1, <1>4, VisitFields, ClosesStep DEF Start, Quietly
<1>5. ASSUME NEW v \in Visits, Refused(v) \/ Unreachable(v) \/ Ends(v) PROVE Quietly
  BY <1>5, DroppedQuietly DEF Refused, Unreachable, Ends
<1>6. ASSUME NEW v \in Visits, Breaks(v) PROVE Quietly
  <2>1. visits[v].peer \in Peer
    BY <1>6 DEF Breaks, Connected, PageTypeOK
  <2> QED
    BY <1>6, <2>1 DEF Breaks, Quietly
<1>7. ASSUME NEW v \in Visits, Reads(v) PROVE Quietly
  <2>1. visits[v].peer \in Peer
    BY <1>7 DEF Reads, Connected, PageTypeOK
  <2> QED
    BY <1>7, <2>1 DEF Reads, Quietly
<1>8. ASSUME NEW v \in Visits, Toggle(v) \/ Granted(v) \/ Denied(v) PROVE Quietly
  BY <1>8 DEF Toggle, Granted, Denied, quiet, Quietly
<1>9. \A n \in capturing : TrackEnded(n) => Quietly
  BY DEF TrackEnded, quiet, Quietly
<1>10. \A m \in posts : Fails(m) => Quietly
  BY DEF Fails, Quietly
<1>11. ServerRestarts => Quietly
  BY DEF ServerRestarts, Quietly
<1>12. \A p \in Peer : Notices(p) \/ SomebodyGoes(p) => Quietly
  BY DEF Notices, SomebodyGoes, Quietly
<1> QED
  BY <1>2, <1>3, <1>4, <1>5, <1>6, <1>7, <1>8, <1>9, <1>10, <1>11, <1>12

\* Every step of the pages is one of the registry, the streams and the browsers,
\* or leaves them alone.
LEMMA PageStepsAreRoomSteps == PageTypeOK /\ [PageNext]_allVars => [Next]_vars
<1> SUFFICES ASSUME PageTypeOK, [PageNext]_allVars PROVE [Next]_vars
  OBVIOUS
<1>1. Quietly => [Next]_vars
  BY DEF Quietly, Next
<1>2. ASSUME NEW v \in Visits, Connect(v) PROVE [Next]_vars
  BY <1>2, VisitFields DEF Connect, Next
<1>3. ASSUME NEW m \in posts, Delivered(m) PROVE [Next]_vars
  <2>1. m.room \in Room /\ m.from \in Peer /\ m.sources \in Source
    BY DEF PageTypeOK, Post
  <2> QED
    BY <1>3, <2>1 DEF Delivered, Next
<1>4. ASSUME NEW p \in Peer, SomebodyComes(p) PROVE [Next]_vars
  BY <1>4 DEF SomebodyComes, Next
<1>5. CASE UNCHANGED allVars
  BY <1>5 DEF allVars
<1> QED
  BY <1>1, <1>2, <1>3, <1>4, <1>5, QuietSteps DEF PageNext, PageStep

-----------------------------------------------------------------------------
(* The flags. *)

\* A connection keeps its room and its flags for as long as it is there.
Endures(p) ==
  /\ conn[p] # "unborn" => conn'[p] # "unborn"
  /\ conn'[p] = "live" => /\ conn[p] = "live" /\ home'[p] = home[p]
                          /\ peers'[home[p]][p].sources = peers[home[p]][p].sources

LEMMA QuietEndures ==
  ASSUME TypeOK, Structure, Quietly
  PROVE  \A p \in Peer : Endures(p)
<1>1. CASE UNCHANGED vars
  BY <1>1 DEF vars, Endures
<1>2. CASE Restart
  BY <1>2 DEF Restart, Endures
<1>3. ASSUME NEW p \in Peer, Disconnect(p) PROVE \A q \in Peer : Endures(q)
  BY <1>3 DEF Disconnect, Endures, TypeOK
<1>4. ASSUME NEW p \in Peer, Read(p) PROVE \A q \in Peer : Endures(q)
  BY <1>4 DEF Read, Endures
<1>5. ASSUME NEW p \in Peer, Leave(p) PROVE \A q \in Peer : Endures(q)
  <2> TAKE q \in Peer
  <2>1. /\ conn' = [conn EXCEPT ![p] = "gone"] /\ home' = [home EXCEPT ![p] = NoRoom]
        /\ conn \in [Peer -> {"unborn", "live", "lost", "gone"}] /\ home \in [Peer -> Room \cup {NoRoom}]
    BY <1>5 DEF Leave, TypeOK
  <2>2. CASE q = p
    BY <2>1, <2>2 DEF Endures
  <2>3. CASE q # p
    <3>1. conn'[q] = conn[q] /\ home'[q] = home[q]
      BY <2>1, <2>3
    <3>2. ASSUME NEW s \in Room PROVE peers'[s][q] = peers[s][q]
      <4>1. PICK r \in Room :
               /\ home[p] = r /\ p \in Members(r)
               /\ Members(r)' = Members(r) \ {p}
               /\ \A x \in Room \ {r} : Members(x)' = Members(x) /\ p \notin Members(x)
               /\ \A x \in Room \ {r} : peers'[x] = peers[x] /\ room'[x] = room[x]
               /\ peers'[r] = Without(peers[r], p)
               /\ room'[r] = IF Members(r) \ {p} = {} THEN Absent ELSE room[r]
               /\ stream' = Announced(Members(r) \ {p}, [type |-> "peer-left", peer |-> p])
        BY <1>5, LeaveEffect
      <4>2. Without(peers[r], p)[q] = peers[r][q]
        BY <2>3 DEF Without, View, TypeOK
      <4> QED
        BY <4>1, <4>2
    <3>3. conn[q] = "live" => home[q] \in Room
      BY LiveHome
    <3> QED
      BY <3>1, <3>2, <3>3 DEF Endures
  <2> QED
    BY <2>2, <2>3
<1> QED
  BY <1>1, <1>2, <1>3, <1>4, <1>5 DEF Quietly

LEMMA JoinEndures ==
  ASSUME TypeOK, Structure, NEW p \in Peer, NEW r \in Room, NEW u \in User,
         NEW title \in Title, Join(p, r, u, title)
  PROVE  /\ conn[p] = "unborn" /\ conn'[p] = "live" /\ home'[p] = r
         /\ \A q \in Peer \ {p} : Endures(q)
<1>1. /\ conn' = [conn EXCEPT ![p] = "live"] /\ home' = [home EXCEPT ![p] = r] /\ conn[p] = "unborn"
      /\ conn \in [Peer -> {"unborn", "live", "lost", "gone"}] /\ home \in [Peer -> Room \cup {NoRoom}]
  BY DEF Join, TypeOK
<1>2. \A s \in Room : \A q \in Peer \ {p} : peers'[s][q] = peers[s][q]
  BY JoinEffect DEF Join
<1>3. ASSUME NEW q \in Peer \ {p} PROVE Endures(q)
  <2>1. \A s \in Room : peers'[s][q] = peers[s][q]
    BY <1>2
  <2>2. conn[q] = "live" => home[q] \in Room
    BY LiveHome
  <2> QED
    BY <1>1, <2>1, <2>2 DEF Endures
<1> QED
  BY <1>1, <1>3

LEMMA SourcesEndure ==
  ASSUME TypeOK, Structure, NEW r \in Room, NEW u \in User, NEW from \in Peer,
         NEW s \in Source, SetSources(r, u, from, s)
  PROVE  /\ conn' = conn /\ home' = home /\ peers'[r][from].sources = s
         /\ \A q \in Peer \ {from} : Endures(q)
<1>1. conn' = conn /\ home' = home
  BY DEF SetSources
<1>2. \A x \in Room : \A q \in Peer \ {from} : peers'[x][q] = peers[x][q]
  BY SourcesEffect DEF SetSources
<1>3. peers'[r] = [peers[r] EXCEPT ![from].sources = s]
  BY DEF SetSources, TypeOK
<1>4. ASSUME NEW q \in Peer \ {from} PROVE Endures(q)
  <2>1. \A x \in Room : peers'[x][q] = peers[x][q]
    BY <1>2
  <2>2. conn[q] = "live" => home[q] \in Room
    BY LiveHome
  <2> QED
    BY <1>1, <2>1, <2>2 DEF Endures
<1>5. peers'[r][from].sources = s
  <2>1. peers[r] \in View /\ peers[r][from] \in Info
    BY MemberInfo DEF SetSources, TypeOK
  <2>2. peers'[r][from] = [peers[r][from] EXCEPT !.sources = s]
    BY <1>3, <2>1 DEF View
  <2> QED
    BY <2>1, <2>2 DEF Info
<1> QED
  BY <1>1, <1>4, <1>5

\* An id belongs to one visit, and has been minted.
Ids(v) == {visits[v].peer, visits[v].self} \ {NoPeer}
IdsApart == \A v, w \in Visits : v # w => Ids(v) \cap Ids(w) = {}
Minted == \A v \in Visits : \A p \in Ids(v) : conn[p] # "unborn"

\* An open stream is in the room of its visit.
AtHome == \A v \in Visits : Connected(v) => home[visits[v].peer] = visits[v].room

\* Flags on their way say what their page publishes, unless they are to be
\* overtaken.
PostsSay ==
  \A v \in Visits : \A m \in posts :
    m.from = visits[v].self /\ m.from \notin muddled
      => m.room = visits[v].room /\ m.sources = visits[v].sources

FlagsInv == IdsApart /\ Minted /\ AtHome /\ PostsSay /\ FlagsAreTold

\* A visit keeps its ids and what it publishes, or is without.
Retains(v) ==
  /\ v \in Visits /\ visits'[v].room = visits[v].room
  /\ visits'[v].self # NoPeer => /\ visits'[v].self = visits[v].self
                                 /\ visits'[v].sources = visits[v].sources
  /\ visits'[v].peer # NoPeer => visits'[v].peer = visits[v].peer
  /\ visits'[v].source = "open" => visits[v].source = "open" /\ visits'[v].peer = visits[v].peer

Starts(v) == visits'[v].self = NoPeer /\ visits'[v].peer = NoPeer /\ visits'[v].source # "open"

LEMMA VisitIds ==
  ASSUME PageTypeOK, NEW v \in Visits
  PROVE  /\ Ids(v) \subseteq Peer
         /\ visits[v].source = "open" => visits[v].peer \in Ids(v)
         /\ visits[v].self # NoPeer => visits[v].self \in Ids(v)
<1>1. visits[v] \in VisitSet
  BY VisitFields
<1> QED
  BY <1>1 DEF VisitSet, Ids, PageTypeOK

LEMMA RetainFlags ==
  ASSUME PageTypeOK, PageTypeOK', FlagsInv, \A v \in Visits' : Retains(v) \/ Starts(v),
         \A p \in Peer : conn[p] # "unborn" => Endures(p),
         posts' \subseteq posts, muddled \subseteq muddled',
         \A m \in posts \ posts' : m.from \in muddled'
  PROVE  FlagsInv'
<1>1. ASSUME NEW v \in Visits' PROVE Ids(v)' = {} \/ (v \in Visits /\ Ids(v)' \subseteq Ids(v))
  BY <1>1 DEF Retains, Starts, Ids
<1>2. IdsApart'
  BY <1>1 DEF FlagsInv, IdsApart
<1>3. Minted'
  <2> SUFFICES ASSUME NEW v \in Visits', NEW p \in Ids(v)' PROVE conn'[p] # "unborn"
    BY DEF Minted
  <2>1. v \in Visits /\ p \in Ids(v)
    BY <1>1
  <2>2. p \in Peer /\ conn[p] # "unborn"
    BY <2>1, VisitIds DEF FlagsInv, Minted
  <2> QED
    BY <2>2 DEF Endures
<1>4. ASSUME NEW v \in Visits', Connected(v)'
      PROVE  /\ v \in Visits /\ Connected(v) /\ Retains(v) /\ visits'[v].peer = visits[v].peer
             /\ visits[v].peer \in Peer /\ Endures(visits[v].peer) /\ conn'[visits[v].peer] = "live"
  <2>1. visits'[v].source = "open" /\ conn'[visits'[v].peer] = "live"
    BY <1>4 DEF Connected
  <2>2. Retains(v) /\ v \in Visits /\ visits[v].source = "open" /\ visits'[v].peer = visits[v].peer
    BY <2>1 DEF Retains, Starts
  <2>3. visits[v].peer \in Peer /\ conn[visits[v].peer] # "unborn"
    BY <2>2, VisitIds DEF FlagsInv, Minted
  <2>4. Endures(visits[v].peer)
    BY <2>3
  <2> QED
    BY <2>1, <2>2, <2>3, <2>4 DEF Endures, Connected
<1>5. AtHome'
  <2> SUFFICES ASSUME NEW v \in Visits', Connected(v)' PROVE home'[visits'[v].peer] = visits'[v].room
    BY DEF AtHome
  <2> QED
    BY <1>4 DEF FlagsInv, AtHome, Endures, Retains
<1>6. PostsSay'
  <2> SUFFICES ASSUME NEW v \in Visits', NEW m \in posts', m.from = visits'[v].self, m.from \notin muddled'
               PROVE  m.room = visits'[v].room /\ m.sources = visits'[v].sources
    BY DEF PostsSay
  <2>1. m \in posts /\ m.from \in Peer /\ m.from # NoPeer
    BY DEF PageTypeOK, Post
  <2>2. Retains(v) /\ v \in Visits /\ m.from = visits[v].self
    BY <2>1 DEF Retains, Starts
  <2> QED
    BY <2>1, <2>2 DEF FlagsInv, PostsSay, Retains
<1>7. FlagsAreTold'
  <2> SUFFICES ASSUME NEW v \in Visits', visits'[v].self \notin muddled', Connected(v)',
                      visits'[v].self = visits'[v].peer, \A m \in posts' : m.from # visits'[v].self
               PROVE  peers'[home'[visits'[v].self]][visits'[v].self].sources = visits'[v].sources
    BY DEF FlagsAreTold, SaysWhatItPublishes
  <2> DEFINE p == visits[v].peer
  <2>1. /\ v \in Visits /\ Connected(v) /\ Retains(v) /\ visits'[v].peer = p
        /\ p \in Peer /\ Endures(p) /\ conn'[p] = "live"
    BY <1>4
  <2>2. visits'[v].self = p /\ visits[v].self = p /\ visits'[v].sources = visits[v].sources
    BY <2>1 DEF Retains
  <2>3. \A m \in posts : m.from # p
    BY <2>2
  <2>4. peers[home[p]][p].sources = visits[v].sources
    BY <2>1, <2>2, <2>3 DEF FlagsInv, FlagsAreTold, SaysWhatItPublishes
  <2> QED
    BY <2>1, <2>2, <2>4 DEF Endures
<1> QED
  BY <1>2, <1>3, <1>5, <1>6, <1>7 DEF FlagsInv

\* A visit says what it publishes, under the id it has or the one it was greeted with.
LEMMA AnnounceFlags ==
  ASSUME PageTypeOK, PageTypeOK', FlagsInv, NEW v \in Visits, NEW x, Turns(v, x),
         x.source = visits[v].source, x.peer = visits[v].peer,
         x.self \in {visits[v].self, visits[v].peer}, Announces(v, x.self, x.sources),
         \A p \in Peer : conn[p] # "unborn" => Endures(p)
  PROVE  FlagsInv'
<1> DEFINE m == [room |-> visits[v].room, from |-> x.self, sources |-> x.sources]
<1>1. /\ Visits' = Visits /\ visits'[v] = x /\ x.room = visits[v].room
      /\ \A w \in Visits : w # v => visits'[w] = visits[w]
  BY DEF Turns, Visits
<1>2. /\ posts \subseteq posts' /\ muddled \subseteq muddled'
      /\ \A n \in posts' \ posts : x.self # NoPeer /\ n = m
      /\ x.self # NoPeer => m \in posts' /\ \A n \in posts : n.from = x.self => x.self \in muddled'
  <2>1. CASE x.self = NoPeer
    BY <2>1 DEF Announces
  <2>2. CASE x.self # NoPeer
    <3>1. posts' = posts \cup {m}
          /\ muddled' = IF \E n \in posts : n.from = x.self THEN muddled \cup {x.self} ELSE muddled
      BY <2>2 DEF Announces
    <3> HIDE DEF m
    <3> QED
      BY <2>2, <3>1
  <2> QED
    BY <2>1, <2>2
<1>3. m.from = x.self /\ m.room = visits[v].room /\ m.sources = x.sources
  OBVIOUS
<1> HIDE DEF m
<1>4. ASSUME NEW w \in Visits PROVE Ids(w)' \subseteq Ids(w)
  BY <1>1 DEF Ids
<1>5. IdsApart'
  BY <1>1, <1>4 DEF FlagsInv, IdsApart
<1>6. Minted'
  <2> SUFFICES ASSUME NEW w \in Visits, NEW p \in Ids(w)' PROVE conn'[p] # "unborn"
    BY <1>1 DEF Minted
  <2>1. p \in Ids(w) /\ p \in Peer /\ conn[p] # "unborn"
    BY <1>4, VisitIds DEF FlagsInv, Minted
  <2> QED
    BY <2>1 DEF Endures
<1>7. ASSUME NEW w \in Visits, Connected(w)'
      PROVE  /\ Connected(w) /\ visits'[w].peer = visits[w].peer /\ visits'[w].room = visits[w].room
             /\ visits[w].peer \in Peer /\ Endures(visits[w].peer) /\ conn'[visits[w].peer] = "live"
  <2>1. visits'[w].source = "open" /\ conn'[visits'[w].peer] = "live"
    BY <1>7 DEF Connected
  <2>2. visits[w].source = "open" /\ visits'[w].peer = visits[w].peer /\ visits'[w].room = visits[w].room
    BY <1>1, <2>1
  <2>3. visits[w].peer \in Peer /\ conn[visits[w].peer] # "unborn"
    BY <2>2, VisitIds DEF FlagsInv, Minted
  <2>4. Endures(visits[w].peer)
    BY <2>3
  <2> QED
    BY <2>1, <2>2, <2>3, <2>4 DEF Endures, Connected
<1>8. AtHome'
  <2> SUFFICES ASSUME NEW w \in Visits, Connected(w)' PROVE home'[visits'[w].peer] = visits'[w].room
    BY <1>1 DEF AtHome
  <2> QED
    BY <1>7 DEF FlagsInv, AtHome, Endures
<1>9. PostsSay'
  <2> SUFFICES ASSUME NEW w \in Visits, NEW n \in posts', n.from = visits'[w].self, n.from \notin muddled'
               PROVE  n.room = visits'[w].room /\ n.sources = visits'[w].sources
    BY <1>1 DEF PostsSay
  <2>1. n.from \in Peer /\ n.from # NoPeer
    BY DEF PageTypeOK, Post
  <2>2. CASE w = v
    <3>1. n = m
      BY <1>1, <1>2, <2>1, <2>2
    <3> QED
      BY <1>1, <1>3, <2>2, <3>1
  <2>3. CASE w # v
    <3>1. n.from = visits[w].self /\ n.from \in Ids(w)
      BY <1>1, <2>1, <2>3, VisitIds
    <3>2. n # m
      <4>1. n.from \notin Ids(v)
        BY <2>3, <3>1 DEF FlagsInv, IdsApart
      <4> QED
        BY <1>3, <2>1, <4>1 DEF Ids
    <3>3. n \in posts
      BY <1>2, <3>2
    <3> QED
      BY <1>1, <1>2, <2>3, <3>1, <3>3 DEF FlagsInv, PostsSay
  <2> QED
    BY <2>2, <2>3
<1>10. FlagsAreTold'
  <2> SUFFICES ASSUME NEW w \in Visits, visits'[w].self \notin muddled', Connected(w)',
                      visits'[w].self = visits'[w].peer, \A n \in posts' : n.from # visits'[w].self
               PROVE  peers'[home'[visits'[w].self]][visits'[w].self].sources = visits'[w].sources
    BY <1>1 DEF FlagsAreTold, SaysWhatItPublishes
  <2> DEFINE p == visits[w].peer
  <2>1. /\ Connected(w) /\ visits'[w].peer = p /\ p \in Peer /\ Endures(p) /\ conn'[p] = "live"
    BY <1>7
  <2>2. w # v
    BY <1>1, <1>2, <1>3, <2>1
  <2>3. visits'[w].self = p /\ visits[w].self = p /\ visits'[w].sources = visits[w].sources
    BY <1>1, <2>1, <2>2
  <2>4. p \notin muddled /\ \A n \in posts : n.from # p
    BY <1>2, <2>3
  <2>5. peers[home[p]][p].sources = visits[w].sources
    BY <2>1, <2>3, <2>4 DEF FlagsInv, FlagsAreTold, SaysWhatItPublishes
  <2> QED
    BY <2>1, <2>3, <2>5 DEF Endures
<1> QED
  BY <1>5, <1>6, <1>8, <1>9, <1>10 DEF FlagsInv

\* A stream opens under an id that nobody had.
LEMMA ConnectFlags ==
  ASSUME TypeOK, Structure, PageTypeOK, PageTypeOK', FlagsInv, NEW v \in Visits, Connect(v)
  PROVE  FlagsInv'
<1>1. PICK p \in Peer, u \in User, title \in Title :
        /\ Join(p, visits[v].room, u, title)
        /\ visits' = [visits EXCEPT ![v] = [@ EXCEPT !.source = "open", !.peer = p]]
  BY DEF Connect
<1> DEFINE x == [visits[v] EXCEPT !.source = "open", !.peer = p]
<1>2. visits[v] \in VisitSet /\ visits \in Seq(VisitSet) /\ visits[v].room \in Room
  BY VisitFields DEF PageTypeOK
<1>3. /\ x \in VisitSet /\ x.tab = visits[v].tab /\ x.room = visits[v].room /\ x.source = "open"
      /\ x.peer = p /\ x.self = visits[v].self /\ x.sources = visits[v].sources
  BY <1>2 DEF VisitSet
<1>4. visits' = [visits EXCEPT ![v] = x]
  BY <1>1
<1> HIDE DEF x
<1>5. Turns(v, x)
  BY <1>2, <1>3, <1>4, TurnsInto
<1>6. /\ conn[p] = "unborn" /\ conn'[p] = "live" /\ home'[p] = visits[v].room
      /\ \A q \in Peer \ {p} : Endures(q)
  BY <1>1, <1>2, JoinEndures
<1>7. /\ Visits' = Visits /\ visits'[v] = x /\ \A w \in Visits : w # v => visits'[w] = visits[w]
      /\ posts' = posts /\ muddled' = muddled
  BY <1>5 DEF Turns, Visits, Connect
<1>8. ASSUME NEW w \in Visits PROVE p \notin Ids(w)
  BY <1>6 DEF FlagsInv, Minted
<1>9. ASSUME NEW w \in Visits
      PROVE  /\ w # v => Ids(w)' = Ids(w)
             /\ Ids(v)' \subseteq Ids(v) \cup {p}
  BY <1>3, <1>7 DEF Ids
<1>10. IdsApart'
  BY <1>7, <1>8, <1>9 DEF FlagsInv, IdsApart
<1>11. Minted'
  <2> SUFFICES ASSUME NEW w \in Visits, NEW q \in Ids(w)', q # p PROVE conn'[q] # "unborn"
    BY <1>6, <1>7 DEF Minted
  <2>1. q \in Ids(w) /\ q \in Peer /\ conn[q] # "unborn"
    BY <1>9, VisitIds DEF FlagsInv, Minted
  <2> QED
    BY <1>6, <2>1 DEF Endures
<1>12. ASSUME NEW w \in Visits, Connected(w)', w # v
       PROVE  /\ Connected(w) /\ visits'[w] = visits[w] /\ visits[w].peer \in Peer
              /\ Endures(visits[w].peer) /\ conn'[visits[w].peer] = "live"
  <2>1. visits'[w] = visits[w] /\ visits[w].source = "open" /\ conn'[visits[w].peer] = "live"
    BY <1>7, <1>12 DEF Connected
  <2>2. visits[w].peer \in Peer \ {p}
    BY <1>8, <2>1, VisitIds
  <2> QED
    BY <1>6, <2>1, <2>2 DEF Endures, Connected
<1>13. AtHome'
  <2> SUFFICES ASSUME NEW w \in Visits, Connected(w)' PROVE home'[visits'[w].peer] = visits'[w].room
    BY <1>7 DEF AtHome
  <2>1. CASE w = v
    BY <1>3, <1>6, <1>7, <2>1
  <2>2. CASE w # v
    BY <1>12, <2>2 DEF FlagsInv, AtHome, Endures
  <2> QED
    BY <2>1, <2>2
<1>14. PostsSay'
  BY <1>3, <1>7 DEF FlagsInv, PostsSay
<1>15. FlagsAreTold'
  <2> SUFFICES ASSUME NEW w \in Visits, visits'[w].self \notin muddled, Connected(w)',
                      visits'[w].self = visits'[w].peer, \A n \in posts : n.from # visits'[w].self
               PROVE  peers'[home'[visits'[w].self]][visits'[w].self].sources = visits'[w].sources
    BY <1>7 DEF FlagsAreTold, SaysWhatItPublishes
  <2>1. w # v
    <3>1. visits[v].self # p
      BY <1>8, VisitIds, PageAssumption
    <3> QED
      BY <1>3, <1>7, <3>1
  <2> DEFINE q == visits[w].peer
  <2>2. /\ Connected(w) /\ visits'[w] = visits[w] /\ q \in Peer /\ Endures(q) /\ conn'[q] = "live"
    BY <1>12, <2>1
  <2>3. peers[home[q]][q].sources = visits[w].sources
    BY <2>2 DEF FlagsInv, FlagsAreTold, SaysWhatItPublishes
  <2> QED
    BY <2>2, <2>3 DEF Endures
<1> QED
  BY <1>10, <1>11, <1>13, <1>14, <1>15 DEF FlagsInv

\* The flags of a POST are those of its visit, and go to the room it is in.
LEMMA DeliveredFlags ==
  ASSUME TypeOK, Structure, PageTypeOK, PageTypeOK', FlagsInv, NEW m \in posts, Delivered(m)
  PROVE  FlagsInv'
<1>1. /\ m.room \in Room /\ m.from \in Peer /\ m.sources \in Source
      /\ posts' = posts \ {m} /\ visits' = visits /\ muddled' = muddled /\ Visits' = Visits
  BY DEF Delivered, PageTypeOK, Post, Visits
<1>2. /\ conn' = conn /\ home' = home /\ \A p \in Peer \ {m.from} : Endures(p)
      /\ m.from \in Members(m.room) => peers'[m.room][m.from].sources = m.sources
  <2>1. CASE m.from \in Members(m.room)
    <3>1. PICK u \in User : SetSources(m.room, u, m.from, m.sources)
      BY <2>1 DEF Delivered
    <3> QED
      BY <1>1, <3>1, SourcesEndure
  <2>2. CASE m.from \notin Members(m.room)
    <3>1. UNCHANGED vars
      BY <2>2 DEF Delivered
    <3> QED
      BY <2>2, <3>1 DEF vars, Endures
  <2> QED
    BY <2>1, <2>2
<1>3. IdsApart' /\ Minted' /\ AtHome' /\ PostsSay'
  BY <1>1, <1>2 DEF FlagsInv, IdsApart, Minted, AtHome, PostsSay, Ids, Connected
<1>4. FlagsAreTold'
  <2> SUFFICES ASSUME NEW v \in Visits, visits[v].self \notin muddled, Connected(v),
                      visits[v].self = visits[v].peer, \A n \in posts' : n.from # visits[v].self
               PROVE  peers'[home[visits[v].self]][visits[v].self].sources = visits[v].sources
    BY <1>1, <1>2 DEF FlagsAreTold, SaysWhatItPublishes, Connected
  <2> DEFINE p == visits[v].self
  <2>1. p \in Peer /\ conn[p] = "live" /\ home[p] = visits[v].room
    BY DEF Connected, PageTypeOK, FlagsInv, AtHome
  <2>2. CASE m.from = p
    <3>1. m.room = visits[v].room /\ m.sources = visits[v].sources
      BY <2>2 DEF FlagsInv, PostsSay
    <3>2. m.from \in Members(m.room)
      BY <2>1, <2>2, <3>1, LiveHome
    <3> QED
      BY <1>2, <2>1, <2>2, <3>1, <3>2
  <2>3. CASE m.from # p
    <3>1. \A n \in posts : n.from # p
      BY <1>1, <2>3
    <3>2. peers[home[p]][p].sources = visits[v].sources
      BY <3>1 DEF FlagsInv, FlagsAreTold, SaysWhatItPublishes
    <3>3. Endures(p)
      BY <1>2, <2>1, <2>3
    <3> QED
      BY <1>2, <2>1, <3>2, <3>3 DEF Endures
  <2> QED
    BY <2>2, <2>3
<1> QED
  BY <1>3, <1>4 DEF FlagsInv

\* What Dropped, Start and Exit do to ids and flags.
LEMMA ShutRetains ==
  ASSUME PageTypeOK, NEW t \in Tab, visits' = Shut(visits, leave[t])
  PROVE  \A v \in Visits' : Retains(v)
<1>1. /\ Len(Shut(visits, leave[t])) = Len(visits)
      /\ \A u \in Visits :
           /\ Shut(visits, leave[t])[u].room = visits[u].room
           /\ Shut(visits, leave[t])[u].peer = visits[u].peer
           /\ Shut(visits, leave[t])[u].self = visits[u].self
           /\ Shut(visits, leave[t])[u].sources = visits[u].sources
           /\ Shut(visits, leave[t])[u].source = IF u = leave[t] THEN "closed" ELSE visits[u].source
  BY ShutVisits
<1>2. Visits' = Visits
  BY <1>1 DEF Visits
<1> QED
  BY <1>1, <1>2 DEF Retains

LEMMA StartRetains ==
  ASSUME PageTypeOK, NEW v \in Visits, Start(v)
  PROVE  \A u \in Visits' : Retains(u)
<1> DEFINE t == TabOf(v)
           vs == Shut(visits, leave[t])
           x == [vs[v] EXCEPT !.source = "connecting"]
<1>1. /\ vs \in Seq(VisitSet) /\ Len(vs) = Len(visits)
      /\ \A u \in Visits :
           /\ vs[u] \in VisitSet /\ vs[u].room = visits[u].room /\ vs[u].peer = visits[u].peer
           /\ vs[u].self = visits[u].self /\ vs[u].sources = visits[u].sources
           /\ vs[u].source = IF u = leave[t] THEN "closed" ELSE visits[u].source
  BY VisitFields, ShutVisits
<1>2. visits' = [vs EXCEPT ![v] = x]
  BY DEF Start
<1> HIDE DEF vs
<1>3. /\ x \in VisitSet /\ x.room = vs[v].room /\ x.peer = vs[v].peer /\ x.source = "connecting"
      /\ x.self = vs[v].self /\ x.sources = vs[v].sources
  <2>1. vs[v] \in VisitSet
    BY <1>1
  <2> QED
    BY <2>1 DEF VisitSet
<1> HIDE DEF x
<1>4. /\ visits' \in Seq(VisitSet) /\ Len(visits') = Len(visits)
      /\ visits'[v] = x /\ \A u \in Visits : u # v => visits'[u] = vs[u]
  BY <1>1, <1>2, <1>3, SeqSet DEF Visits
<1>5. Visits' = Visits
  BY <1>4 DEF Visits
<1> SUFFICES ASSUME NEW u \in Visits PROVE Retains(u)
  BY <1>5
<1>6. CASE u = v
  BY <1>1, <1>3, <1>4, <1>6 DEF Retains
<1>7. CASE u # v
  BY <1>1, <1>4, <1>7 DEF Retains
<1> QED
  BY <1>6, <1>7

LEMMA ExitRetains ==
  ASSUME PageTypeOK, NEW t \in Tab, Exit(t)
  PROVE  \A u \in Visits' : Retains(u) \/ Starts(u)
<1> DEFINE v == at[t]
           vs == Shut(visits, leave[t])
           x == [Visit(vs[v].tab, vs[v].room) EXCEPT !.source = "closed"]
<1>1. v \in Visits
  BY DEF Exit, PageTypeOK, OwnVisit
<1>2. CASE Awaits(v)
  <2>1. visits' = vs
    BY <1>2 DEF Exit, Forgotten
  <2> QED
    BY <2>1, ShutRetains
<1>3. CASE ~Awaits(v)
  <2>1. /\ vs \in Seq(VisitSet) /\ Len(vs) = Len(visits)
        /\ \A u \in Visits :
             /\ vs[u] \in VisitSet /\ vs[u].room = visits[u].room /\ vs[u].peer = visits[u].peer
             /\ vs[u].self = visits[u].self /\ vs[u].sources = visits[u].sources
             /\ vs[u].source = IF u = leave[t] THEN "closed" ELSE visits[u].source
    BY ShutVisits
  <2>2. visits' = [vs EXCEPT ![v] = x]
    BY <1>3 DEF Exit, Forgotten
  <2> HIDE DEF vs
  <2>3. x \in VisitSet /\ x.self = NoPeer /\ x.peer = NoPeer /\ x.source = "closed"
    BY <1>1, <2>1 DEF VisitSet, Visit
  <2> HIDE DEF x, v
  <2>4. /\ Len(visits') = Len(visits) /\ visits'[v] = x
        /\ \A u \in Visits : u # v => visits'[u] = vs[u]
    BY <1>1, <2>1, <2>2, <2>3, SeqSet DEF Visits
  <2>5. Visits' = Visits
    BY <2>4 DEF Visits
  <2> SUFFICES ASSUME NEW u \in Visits PROVE Retains(u) \/ Starts(u)
    BY <2>5
  <2>6. CASE u = v
    BY <2>3, <2>4, <2>6 DEF Starts
  <2>7. CASE u # v
    BY <2>1, <2>4, <2>7 DEF Retains
  <2> QED
    BY <2>6, <2>7
<1> QED
  BY <1>2, <1>3

LEMMA EnterRetains ==
  ASSUME PageTypeOK, NEW t \in Tab, NEW r \in Room, Enter(t, r)
  PROVE  \A u \in Visits' : Retains(u) \/ Starts(u)
<1> DEFINE x == Visit(t, r)
<1>1. x \in VisitSet /\ x.self = NoPeer /\ x.peer = NoPeer /\ x.source = "none"
  BY DEF Visit, VisitSet
<1>2. visits' = Append(visits, x) /\ visits \in Seq(VisitSet)
  BY DEF Enter, PageTypeOK
<1> HIDE DEF x
<1>3. /\ Len(visits') = Len(visits) + 1 /\ visits'[Len(visits) + 1] = x
      /\ \A u \in Visits : visits'[u] = visits[u]
  BY <1>1, <1>2, SeqAppend DEF Visits
<1>4. Visits' = Visits \cup {Len(visits) + 1}
  BY <1>2, <1>3 DEF Visits
<1> QED
  BY <1>1, <1>3, <1>4 DEF Retains, Starts

LEMMA TurnRetains ==
  ASSUME NEW v, NEW x, Turns(v, x), x.peer = visits[v].peer, x.self = visits[v].self,
         x.sources = visits[v].sources, x.source = "open" => visits[v].source = "open"
  PROVE  \A u \in Visits' : Retains(u)
<1>1. Visits' = Visits
  BY DEF Turns, Visits
<1> SUFFICES ASSUME NEW u \in Visits PROVE Retains(u)
  BY <1>1
<1> QED
  BY DEF Turns, Retains

LEMMA DroppedRetains ==
  ASSUME PageTypeOK, NEW v \in Visits, NEW source \in {"closed", "connecting"}, Dropped(v, source)
  PROVE  \A u \in Visits' : Retains(u)
<1> DEFINE w == leave[TabOf(v)]
           x == [visits[v] EXCEPT !.source = source,
                                  !.shows = IF visits[v].self = NoPeer THEN "failed" ELSE "reconnecting"]
           vs == [visits EXCEPT ![v] = x]
<1>1. visits[v] \in VisitSet /\ visits \in Seq(VisitSet) /\ (w = 0 \/ w \in 1..Len(visits))
  BY VisitFields DEF PageTypeOK, OwnVisit, Visits
<1>2. /\ x \in VisitSet /\ x.tab = visits[v].tab /\ x.room = visits[v].room /\ x.source = source
      /\ x.peer = visits[v].peer /\ x.self = visits[v].self /\ x.sources = visits[v].sources
  BY <1>1 DEF VisitSet
<1>3. visits' = IF visits[v].self = NoPeer THEN Shut(vs, w) ELSE vs
  <2>1. CASE visits[v].self = NoPeer
    <3>1. visits' = Shut([[visits EXCEPT ![v].source = source] EXCEPT ![v].shows = "failed"], w)
      BY <2>1 DEF Dropped
    <3>2. [[visits EXCEPT ![v].source = source] EXCEPT ![v].shows = "failed"] = vs
      BY <1>1, <2>1 DEF VisitSet, Visits
    <3> QED
      BY <2>1, <3>1, <3>2
  <2>2. CASE visits[v].self # NoPeer
    <3>1. visits' = [[visits EXCEPT ![v].source = source] EXCEPT ![v].shows = "reconnecting"]
      BY <2>2 DEF Dropped
    <3> QED
      BY <1>1, <2>2, <3>1 DEF VisitSet, Visits
  <2> QED
    BY <2>1, <2>2
<1> HIDE DEF x, w
<1>4. /\ vs \in Seq(VisitSet) /\ Len(vs) = Len(visits)
      /\ \A u \in 1..Len(visits) : vs[u] = IF u = v THEN x ELSE visits[u]
  BY <1>1, <1>2, SeqSet DEF Visits
<1> HIDE DEF vs
<1>5. /\ Shut(vs, w) \in Seq(VisitSet) /\ Len(Shut(vs, w)) = Len(vs)
      /\ w # 0 => /\ Shut(vs, w)[w].tab = vs[w].tab /\ Shut(vs, w)[w].room = vs[w].room
                  /\ Shut(vs, w)[w].source = "closed" /\ Shut(vs, w)[w].peer = vs[w].peer
                  /\ Shut(vs, w)[w].self = vs[w].self /\ Shut(vs, w)[w].asks = vs[w].asks
                  /\ Shut(vs, w)[w].sources = vs[w].sources /\ Shut(vs, w)[w].shows = vs[w].shows
      /\ \A u \in 1..Len(vs) : u # w => Shut(vs, w)[u] = vs[u]
  BY <1>1, <1>4, ShutFacts
<1>6. Visits' = Visits
  BY <1>3, <1>4, <1>5 DEF Visits
<1> SUFFICES ASSUME NEW u \in Visits PROVE Retains(u)
  BY <1>6
<1>7. /\ vs[u].room = visits[u].room /\ vs[u].peer = visits[u].peer /\ vs[u].self = visits[u].self
      /\ vs[u].sources = visits[u].sources
      /\ vs[u].source = "open" => visits[u].source = "open"
  BY <1>2, <1>4 DEF Visits
<1>8. /\ visits'[u].room = vs[u].room /\ visits'[u].peer = vs[u].peer /\ visits'[u].self = vs[u].self
      /\ visits'[u].sources = vs[u].sources
      /\ visits'[u].source = "open" => vs[u].source = "open"
  <2>1. u # 0 /\ u \in 1..Len(vs)
    BY <1>4 DEF Visits
  <2>2. CASE visits[v].self = NoPeer /\ u = w
    BY <1>3, <1>5, <2>1, <2>2
  <2>3. CASE ~(visits[v].self = NoPeer /\ u = w)
    BY <1>3, <1>5, <2>1, <2>3
  <2> QED
    BY <2>2, <2>3
<1> QED
  BY <1>7, <1>8 DEF Retains

LEMMA ReadsFlags ==
  ASSUME TypeOK, Structure, PageTypeOK, PageTypeOK', FlagsInv, NEW v \in Visits, Reads(v)
  PROVE  FlagsInv'
<1> DEFINE p == visits[v].peer
           f == Head(stream[p])
           self == IF f.type = "hello" THEN p ELSE visits[v].self
           x == [visits[v] EXCEPT !.self = self, !.shows = "here"]
<1>1. IF f.type = "hello" THEN Greeted(v, p) ELSE Changes(v)
  BY DEF Reads
<1>2. /\ visits[v] \in VisitSet /\ visits \in Seq(VisitSet) /\ p \in Peer
      /\ \A q \in Peer : Endures(q)
  <2>1. p \in Peer
    BY DEF Reads, Connected, PageTypeOK
  <2>2. Quietly
    BY QuietSteps
  <2> QED
    BY <2>1, <2>2, QuietEndures, VisitFields DEF PageTypeOK
<1>3. visits' = [visits EXCEPT ![v] = x]
  <2>1. CASE f.type = "hello"
    BY <1>1, <2>1 DEF Greeted
  <2>2. CASE f.type # "hello"
    <3>1. visits' = [visits EXCEPT ![v].shows = "here"] /\ self = visits[v].self
      BY <1>1, <2>2 DEF Changes
    <3>2. [visits[v] EXCEPT !.shows = "here"] = [visits[v] EXCEPT !.self = visits[v].self, !.shows = "here"]
      BY <1>2 DEF VisitSet
    <3> QED
      BY <3>1, <3>2
  <2> QED
    BY <2>1, <2>2
<1>4. self \in {visits[v].self, p} /\ self \in Peer \cup {NoPeer}
  BY <1>2 DEF VisitSet
<1>5. /\ f.type = "hello" => self = p /\ Announces(v, p, visits[v].sources)
      /\ f.type # "hello" => self = visits[v].self /\ posts' = posts /\ muddled' = muddled
  BY <1>1 DEF Greeted, Changes
<1> HIDE DEF self
<1>6. /\ x \in VisitSet /\ x.tab = visits[v].tab /\ x.room = visits[v].room /\ x.self = self
      /\ x.source = visits[v].source /\ x.peer = visits[v].peer /\ x.sources = visits[v].sources
  BY <1>2, <1>4 DEF VisitSet
<1> HIDE DEF x, f
<1>7. Turns(v, x)
  BY <1>2, <1>3, <1>6, TurnsInto
<1>8. CASE f.type = "hello"
  BY <1>2, <1>4, <1>5, <1>6, <1>7, <1>8, AnnounceFlags
<1>9. CASE f.type # "hello"
  BY <1>2, <1>5, <1>6, <1>7, <1>9, TurnRetains, RetainFlags
<1> QED
  BY <1>8, <1>9

LEMMA SetTrackFlags ==
  ASSUME PageTypeOK, PageTypeOK', FlagsInv, NEW v \in Visits, NEW n, NEW asks \in Nat,
         SetTrack(v, n, asks), UNCHANGED vars
  PROVE  FlagsInv'
<1> DEFINE s == IF n = 0 THEN NoSource ELSE On
<1>1. PICK x : /\ Turns(v, x) /\ x.sources = s /\ x.source = visits[v].source
               /\ x.peer = visits[v].peer /\ x.self = visits[v].self
  BY SetTrackTurns
<1>2. Announces(v, visits[v].self, s)
  BY SetTrackTurns
<1>3. \A p \in Peer : Endures(p)
  BY DEF vars, Endures
<1> HIDE DEF s
<1> QED
  BY <1>1, <1>2, <1>3, AnnounceFlags

LEMMA AsksRetains ==
  ASSUME PageTypeOK, NEW v \in Visits, NEW n \in Nat, visits' = [visits EXCEPT ![v].asks = n]
  PROVE  \A u \in Visits' : Retains(u)
<1> DEFINE x == [visits[v] EXCEPT !.asks = n]
<1>1. visits[v] \in VisitSet /\ visits \in Seq(VisitSet)
  BY VisitFields DEF PageTypeOK
<1>2. /\ x \in VisitSet /\ x.tab = visits[v].tab /\ x.room = visits[v].room
      /\ x.source = visits[v].source /\ x.peer = visits[v].peer
      /\ x.self = visits[v].self /\ x.sources = visits[v].sources
  BY <1>1 DEF VisitSet
<1>3. visits' = [visits EXCEPT ![v] = x]
  OBVIOUS
<1> HIDE DEF x
<1>4. Turns(v, x)
  BY <1>1, <1>2, <1>3, TurnsInto
<1> QED
  BY <1>2, <1>4, TurnRetains

RoomsInv == TypeOK /\ Structure

LEMMA NextRooms == RoomsInv /\ PageTypeOK /\ [PageNext]_allVars => RoomsInv'
BY PageStepsAreRoomSteps, NextType, NextStructure DEF RoomsInv

\* A step that retains the ids and flags of all visits and posts nothing.
LEMMA QuietFlags ==
  ASSUME TypeOK, Structure, PageTypeOK, PageTypeOK', FlagsInv, Quietly,
         \A v \in Visits' : Retains(v) \/ Starts(v), posts' \subseteq posts,
         muddled \subseteq muddled', \A m \in posts \ posts' : m.from \in muddled'
  PROVE  FlagsInv'
BY QuietEndures, RetainFlags

LEMMA NextFlags ==
  ASSUME RoomsInv, PageTypeOK, PageTypeOK', FlagsInv, [PageNext]_allVars
  PROVE  FlagsInv'
<1> USE DEF RoomsInv
<1>s. visits' = visits => \A v \in Visits' : Retains(v)
  BY DEF Retains, Visits
<1>1. ASSUME NEW t \in Tab, Exit(t) PROVE FlagsInv'
  BY <1>1, ExitRetains, QuietSteps, QuietFlags DEF Exit
<1>2. ASSUME NEW t \in Tab, NEW r \in Room, Enter(t, r) PROVE FlagsInv'
  BY <1>2, EnterRetains, QuietSteps, QuietFlags DEF Enter
<1>3. ASSUME NEW v \in Visits, Start(v) PROVE FlagsInv'
  BY <1>3, StartRetains, QuietSteps, QuietFlags DEF Start
<1>4. ASSUME NEW v \in Visits, Connect(v) PROVE FlagsInv'
  BY <1>4, ConnectFlags
<1>5. ASSUME NEW v \in Visits, Refused(v) \/ Unreachable(v) \/ Ends(v) PROVE FlagsInv'
  <2>1. PICK source \in {"closed", "connecting"} : Dropped(v, source)
    BY <1>5 DEF Refused, Unreachable, Ends
  <2>2. Quietly
    BY <1>5, QuietSteps
  <2> QED
    BY <2>1, <2>2, DroppedRetains, QuietFlags DEF Dropped
<1>6. ASSUME NEW v \in Visits, Breaks(v) PROVE FlagsInv'
  BY <1>6, <1>s, QuietSteps, QuietFlags DEF Breaks
<1>7. ASSUME NEW v \in Visits, Reads(v) PROVE FlagsInv'
  BY <1>7, ReadsFlags
<1>8. ASSUME NEW v \in Visits, Toggle(v) \/ Granted(v) \/ Denied(v) PROVE FlagsInv'
  <2>1. visits[v].asks \in Nat /\ UNCHANGED vars
    BY <1>8, VisitFields DEF Toggle, Granted, Denied, quiet
  <2>2. CASE \E n : SetTrack(v, n, visits[v].asks)
    BY <2>1, <2>2, SetTrackFlags
  <2>3. CASE visits[v].asks > 0 /\ \E n : SetTrack(v, n, visits[v].asks - 1)
    BY <2>1, <2>3, SetTrackFlags
  <2>4. ASSUME NEW n \in Nat, visits' = [visits EXCEPT ![v].asks = n], UNCHANGED <<posts, muddled>>
        PROVE  FlagsInv'
    <3>1. Quietly
      BY <2>1 DEF Quietly
    <3> QED
      BY <2>4, <3>1, AsksRetains, QuietFlags
  <2>5. CASE Toggle(v)
    <3>1. CASE track[TabOf(v)] # 0
      BY <2>2, <2>5, <3>1 DEF Toggle
    <3>2. CASE track[TabOf(v)] = 0
      <4>1. visits' = [visits EXCEPT ![v].asks = visits[v].asks + 1] /\ UNCHANGED <<posts, muddled>>
        BY <2>5, <3>2 DEF Toggle
      <4>2. visits[v].asks + 1 \in Nat
        BY <2>1
      <4> QED
        BY <2>4, <4>1, <4>2
    <3> QED
      BY <3>1, <3>2
  <2>6. CASE Granted(v)
    BY <2>3, <2>6 DEF Granted
  <2>7. CASE Denied(v)
    <3>1. /\ visits' = [visits EXCEPT ![v].asks = visits[v].asks - 1] /\ visits[v].asks > 0
          /\ UNCHANGED <<posts, muddled>>
      BY <2>7 DEF Denied
    <3>2. visits[v].asks - 1 \in Nat
      BY <2>1, <3>1
    <3> QED
      BY <2>4, <3>1, <3>2
  <2> QED
    BY <1>8, <2>5, <2>6, <2>7
<1>9. ASSUME NEW n \in capturing, TrackEnded(n) PROVE FlagsInv'
  <2>1. owner[n] \in Visits /\ visits[owner[n]].asks \in Nat
    BY VisitFields DEF PageTypeOK
  <2> QED
    BY <1>9, <2>1, SetTrackFlags DEF TrackEnded, quiet
<1>10. ASSUME NEW m \in posts, Delivered(m) PROVE FlagsInv'
  BY <1>10, DeliveredFlags
<1>11. ASSUME NEW m \in posts, Fails(m) PROVE FlagsInv'
  <2>1. /\ visits' = visits /\ posts' = posts \ {m} /\ muddled' = muddled \cup {m.from} /\ Quietly
    BY <1>11, QuietSteps DEF Fails
  <2> QED
    BY <1>s, <2>1, QuietFlags
<1>12. CASE ServerRestarts
  BY <1>12, <1>s, QuietSteps, QuietFlags DEF ServerRestarts
<1>13. ASSUME NEW p \in Peer, Notices(p) \/ SomebodyGoes(p) PROVE FlagsInv'
  <2>1. visits' = visits /\ posts' = posts /\ muddled' = muddled /\ Quietly
    BY <1>13, QuietSteps DEF Notices, SomebodyGoes, pageVars
  <2> QED
    BY <1>s, <2>1, QuietFlags
<1>14. ASSUME NEW p \in Peer, SomebodyComes(p) PROVE FlagsInv'
  <2>1. visits' = visits /\ posts' = posts /\ muddled' = muddled
    BY <1>14 DEF SomebodyComes, pageVars
  <2>2. \A q \in Peer : conn[q] # "unborn" => Endures(q)
    <3>1. PICK r \in Room, u \in User, title \in Title : Join(p, r, u, title)
      BY <1>14 DEF SomebodyComes
    <3> QED
      BY <3>1, JoinEndures
  <2> QED
    BY <1>s, <2>1, <2>2, RetainFlags
<1>15. CASE UNCHANGED allVars
  <2>1. visits' = visits /\ posts' = posts /\ muddled' = muddled /\ Quietly
    BY <1>15 DEF allVars, pageVars, Quietly
  <2> QED
    BY <1>s, <2>1, QuietFlags
<1> QED
  BY <1>1, <1>2, <1>3, <1>4, <1>5, <1>6, <1>7, <1>8, <1>9, <1>10, <1>11, <1>12, <1>13, <1>14, <1>15
  DEF PageNext, PageStep

LEMMA InitFlags == PageInit => RoomsInv /\ FlagsInv
<1> SUFFICES ASSUME PageInit PROVE RoomsInv /\ FlagsInv
  OBVIOUS
<1>1. RoomsInv
  BY InitType, InitStructure DEF PageInit, RoomsInv
<1>2. Visits = {} /\ posts = {}
  BY DEF PageInit, Visits
<1> QED
  BY <1>1, <1>2 DEF FlagsInv, IdsApart, Minted, AtHome, PostsSay, FlagsAreTold

PageInv == PageTypeOK /\ TabsInv /\ RoomsInv /\ FlagsInv

LEMMA AlwaysPageInv == PageSpec => []PageInv
<1>1. PageInit => PageInv
  BY InitTabs, InitFlags DEF PageInv
<1>2. PageInv /\ [PageNext]_allVars => PageInv'
  BY NextTabs, NextRooms, NextFlags DEF PageInv
<1> QED
  BY <1>1, <1>2, PTL DEF PageSpec

\* A room lists a page with the flags it publishes, once they have arrived,
\* unless two POSTs of one id were under way together or one failed.
THEOREM RoomsListTheFlags == PageSpec => []FlagsAreTold
<1>1. PageInv => FlagsAreTold
  BY DEF PageInv, FlagsInv
<1> QED
  BY <1>1, AlwaysPageInv, PTL

\* The pages do nothing to rooms that the registry does not allow: whatever is
\* proved of LiveRooms holds under the pages too.
THEOREM PagesKeepTheRooms == PageSpec => Spec
<1>1. PageInit => Init
  BY DEF PageInit
<1>2. PageTypeOK /\ [PageNext]_allVars => [Next]_vars
  BY PageStepsAreRoomSteps
<1> QED
  BY <1>1, <1>2, PageTypeCorrect, PTL DEF PageSpec, Spec


=============================================================================
