--------------------------- MODULE LiveMeshProofs ---------------------------
(* What the connections of a call promise, for any number of people in any    *)
(* number of rooms, requests that overtake one another, and any who leave.    *)
EXTENDS LiveMesh, LiveRoomsProofs

USE MarkAssumption, LinkAssumption

-----------------------------------------------------------------------------
(* Types. *)

Post == [from : Peer, to : Peer, kind : Kind]

MeshTypeOK ==
  /\ ourSeq \in [Peer -> Nat]
  /\ links \in [Peer -> [Peer -> Link \cup {NoLink}]]
  /\ posts \subseteq Post
  /\ failed \subseteq SUBSET Peer

\* Every step of a call is one of its rooms, or none.
LEMMA MeshMoves ==
  ASSUME MeshTypeOK, [MeshNext]_allVars PROVE [Next]_vars
<1>1. ASSUME NEW p \in Peer, Handle(p) PROVE Next
  BY <1>1 DEF Handle, Next
<1>2. ASSUME NEW m \in posts, Deliver(m) PROVE [Next]_vars
  BY <1>2 DEF Deliver, Next, MeshTypeOK, Post
<1>3. ASSUME NEW m \in posts, Lose(m) PROVE [Next]_vars
  BY <1>3 DEF Lose
<1>4. ASSUME NEW p \in Peer, NEW q \in Peer, Proceed(p, q) \/ Gather(p, q) PROVE [Next]_vars
  BY <1>4 DEF Proceed, Gather, Moves
<1> QED
  BY <1>1, <1>2, <1>3, <1>4 DEF MeshNext, allVars, Arrive, Close, Depart, Next

LEMMA OpenType ==
  ASSUME NEW step \in Steps
  PROVE  Open(step) \in Link /\ Open(step).step = step /\ Open(step).offers = (step = "offering")
         /\ Open(step).early = FALSE
BY DEF Open, Link

\* A frame keeps the type of a page's map.
LEMMA HearsType ==
  ASSUME NEW map \in [Peer -> Link \cup {NoLink}], NEW f \in Frame, NEW seq
  PROVE  Hears(map, f, seq) \in [Peer -> Link \cup {NoLink}]
<1>1. Open("offering") \in Link /\ Open("applying") \in Link
  BY OpenType DEF Steps
<1>2. CASE f.type = "hello"
  <2>1. \A q \in Peer : Add(NoLinks, f.seq, q, f.roster[q])[q] \in Link \cup {NoLink}
    BY <1>1 DEF Add, NoLinks
  <2> QED
    BY <1>2, <2>1 DEF Hears
<1>3. CASE f.type = "peer-joined"
  BY <1>1, <1>3 DEF Hears, Add
<1>4. CASE f.type = "peer-left"
  BY <1>4 DEF Hears, Remove
<1>5. CASE f.type = "signal"
  <2>1. f.from \in Peer
    BY <1>5 DEF Frame, Hello, Joined, Left, SourcesOut, SignalOut
  <2>2. \A k \in Link : /\ [k EXCEPT !.step = "applying"] \in Link
                        /\ [k EXCEPT !.added = TRUE] \in Link /\ [k EXCEPT !.early = TRUE] \in Link
    BY DEF Link, Steps
  <2>3. Signal(map, f.from, f.kind) \in [Peer -> Link \cup {NoLink}]
    BY <1>1, <2>1, <2>2 DEF Signal
  <2> QED
    BY <1>5, <2>3 DEF Hears
<1> QED
  BY <1>2, <1>3, <1>4, <1>5 DEF Hears

LEMMA MeshTypeInit == MeshInit => MeshTypeOK
BY DEF MeshInit, MeshTypeOK, NoLinks

LEMMA MeshTypeStep ==
  ASSUME TypeOK, MeshTypeOK, [MeshNext]_allVars PROVE MeshTypeOK'
<1>1. ASSUME NEW p \in Peer, Handle(p) PROVE MeshTypeOK'
  <2> DEFINE f == Head(stream[p])
  <2>1. f \in Frame
    BY <1>1 DEF Handle, Read, TypeOK
  <2>2. Hears(links[p], f, ourSeq[p]) \in [Peer -> Link \cup {NoLink}]
    BY <2>1, HearsType DEF MeshTypeOK
  <2>3. f.type = "hello" => f.seq \in Nat
    BY <2>1 DEF Frame, Hello, Joined, Left, SourcesOut, SignalOut
  <2>4. /\ ourSeq' = IF f.type = "hello" THEN [ourSeq EXCEPT ![p] = f.seq] ELSE ourSeq
        /\ links' = [links EXCEPT ![p] = Hears(links[p], f, ourSeq[p])]
        /\ UNCHANGED <<posts, failed>>
    BY <1>1 DEF Handle
  <2> HIDE DEF f
  <2> QED
    BY <2>2, <2>3, <2>4 DEF MeshTypeOK
<1>2. ASSUME NEW p \in Peer, NEW q \in Peer, NEW k \in Link, NEW sent \in SUBSET Post,
             Moves(p, q, k, sent)
      PROVE  MeshTypeOK'
  BY <1>2 DEF Moves, MeshTypeOK
<1>3. ASSUME NEW p \in Peer, NEW q \in Peer, Proceed(p, q) PROVE MeshTypeOK'
  <2> DEFINE k == links[p][q]
  <2>1. k \in Link
    BY <1>3 DEF Proceed, MeshTypeOK
  <2>2. /\ \A s \in Steps : [k EXCEPT !.step = s] \in Link
        /\ Drained(k) \in Link
    BY <2>1 DEF Link, Steps, Drained
  <2>3. /\ Says(p, q, "offer") \in SUBSET Post /\ Says(p, q, "answer") \in SUBSET Post
        /\ {} \in SUBSET Post
    BY KindAssumption DEF Says, Post
  <2>4. \E new \in Link, sent \in SUBSET Post : Moves(p, q, new, sent)
    <3>1. CASE k.step = "offering"
      BY <1>3, <2>2, <2>3, <3>1 DEF Proceed, Steps
    <3>2. CASE k.step = "applying"
      BY <1>3, <2>2, <2>3, <3>2 DEF Proceed, Steps
    <3>3. CASE k.step = "answering"
      BY <1>3, <2>2, <2>3, <3>3 DEF Proceed, Steps
    <3>4. CASE k.step = "draining"
      BY <1>3, <2>2, <2>3, <3>4 DEF Proceed, Steps
    <3> QED
      BY <1>3, <3>1, <3>2, <3>3, <3>4 DEF Proceed
  <2> QED
    BY <1>2, <2>4
<1>4. ASSUME NEW p \in Peer, NEW q \in Peer, Gather(p, q) PROVE MeshTypeOK'
  <2>0. links[p][q] \in Link
    BY <1>4 DEF Gather, MeshTypeOK
  <2>1. [links[p][q] EXCEPT !.sent = TRUE] \in Link
    BY <2>0 DEF Link
  <2>2. Says(p, q, "ice") \in SUBSET Post
    BY KindAssumption DEF Says, Post
  <2> QED
    BY <1>2, <1>4, <2>1, <2>2 DEF Gather
<1>5. ASSUME NEW m \in posts, Deliver(m) \/ Lose(m) PROVE MeshTypeOK'
  BY <1>5 DEF Deliver, Lose, MeshTypeOK, Post
<1>6. ASSUME NEW p \in Peer, Close(p) PROVE MeshTypeOK'
  BY <1>6 DEF Close, MeshTypeOK, NoLinks
<1> QED
  BY <1>1, <1>3, <1>4, <1>5, <1>6 DEF MeshNext, allVars, meshVars, Arrive, Depart, MeshTypeOK

-----------------------------------------------------------------------------
(* The candidates that came early. *)

\* A connection whose candidates were taken up has none waiting.
TakenUp(k) == k # NoLink /\ k.step \in {"draining", "stable"} => k.early = FALSE
Settled == \A p, q \in Peer : TakenUp(links[p][q])

LEMMA SignalTakesUp ==
  ASSUME NEW map \in [Peer -> Link \cup {NoLink}], \A q \in Peer : TakenUp(map[q]),
         NEW x \in Peer, NEW kind, NEW q \in Peer
  PROVE  TakenUp(Signal(map, x, kind)[q])
<1>1. \A step \in Steps : TakenUp(Open(step))
  BY OpenType DEF TakenUp
<1>2. map[x] # NoLink => map[x] \in Link
  OBVIOUS
<1>3. \A k \in Link : TakenUp([k EXCEPT !.step = "applying"])
  BY DEF TakenUp, Link
<1>4. \A k \in Link : TakenUp(k) => TakenUp([k EXCEPT !.added = TRUE])
  BY DEF TakenUp, Link
<1>5. \A k \in Link : ~HasRemote(k) => TakenUp([k EXCEPT !.early = TRUE])
  BY DEF TakenUp, Link, HasRemote
<1>6. /\ \A k \in Link : TakenUp(k) => TakenUp([map EXCEPT ![x] = k][q])
      /\ TakenUp(map[q])
  <2>1. \A k \in Link : [map EXCEPT ![x] = k][q] = IF q = x THEN k ELSE map[q]
    OBVIOUS
  <2> QED
    BY <2>1
<1>7. CASE kind = "offer" /\ map[x] = NoLink
  <2>1. Open("applying") \in Link /\ TakenUp(Open("applying"))
    BY <1>1, OpenType DEF Steps
  <2> QED
    BY <1>6, <1>7, <2>1 DEF Signal
<1>8. CASE kind = "answer" /\ map[x] # NoLink
  <2>1. [map[x] EXCEPT !.step = "applying"] \in Link
    BY <1>2, <1>8 DEF Link, Steps
  <2>2. Signal(map, x, kind) = [map EXCEPT ![x] = [map[x] EXCEPT !.step = "applying"]]
    BY <1>8 DEF Signal
  <2> QED
    BY <1>2, <1>3, <1>6, <1>8, <2>1, <2>2
<1>9. CASE kind = "ice" /\ map[x] # NoLink /\ HasRemote(map[x])
  <2>1. [map[x] EXCEPT !.added = TRUE] \in Link
    BY <1>2, <1>9 DEF Link
  <2>2. Signal(map, x, kind) = [map EXCEPT ![x] = [map[x] EXCEPT !.added = TRUE]]
    BY <1>9 DEF Signal
  <2> QED
    BY <1>2, <1>4, <1>6, <1>9, <2>1, <2>2
<1>10. CASE kind = "ice" /\ map[x] # NoLink /\ ~HasRemote(map[x])
  <2>1. [map[x] EXCEPT !.early = TRUE] \in Link
    BY <1>2, <1>10 DEF Link
  <2>2. Signal(map, x, kind) = [map EXCEPT ![x] = [map[x] EXCEPT !.early = TRUE]]
    BY <1>10 DEF Signal
  <2> QED
    BY <1>2, <1>5, <1>6, <1>10, <2>1, <2>2
<1> QED
  BY <1>6, <1>7, <1>8, <1>9, <1>10 DEF Signal

LEMMA HearsTakesUp ==
  ASSUME NEW map \in [Peer -> Link \cup {NoLink}], \A q \in Peer : TakenUp(map[q]),
         NEW f \in Frame, NEW seq, NEW q \in Peer
  PROVE  TakenUp(Hears(map, f, seq)[q])
<1>1. TakenUp(NoLink) /\ TakenUp(Open("offering"))
  BY OpenType DEF TakenUp, Steps
<1>2. CASE f.type = "hello"
  BY <1>1, <1>2 DEF Hears, Add, NoLinks
<1>3. CASE f.type = "peer-joined"
  BY <1>1, <1>3 DEF Hears, Add
<1>4. CASE f.type = "peer-left"
  BY <1>1, <1>4 DEF Hears, Remove
<1>5. CASE f.type = "signal"
  <2>1. f.from \in Peer
    BY <1>5 DEF Frame, Hello, Joined, Left, SourcesOut, SignalOut
  <2> QED
    BY <1>5, <2>1, SignalTakesUp DEF Hears
<1> QED
  BY <1>2, <1>3, <1>4, <1>5 DEF Hears

LEMMA SettledInit == MeshInit => Settled
BY DEF MeshInit, Settled, TakenUp, NoLinks

LEMMA SettledStep ==
  ASSUME TypeOK, MeshTypeOK, Settled, [MeshNext]_allVars PROVE Settled'
<1>1. ASSUME NEW p \in Peer, Handle(p) PROVE Settled'
  <2>1. Head(stream[p]) \in Frame
    BY <1>1 DEF Handle, Read, TypeOK
  <2>2. \A q \in Peer : TakenUp(Hears(links[p], Head(stream[p]), ourSeq[p])[q])
    BY <2>1, HearsTakesUp DEF MeshTypeOK, Settled
  <2> QED
    BY <1>1, <2>2 DEF Handle, Settled, MeshTypeOK
<1>2. ASSUME NEW p \in Peer, NEW q \in Peer, NEW k \in Link, NEW sent, TakenUp(k),
             Moves(p, q, k, sent)
      PROVE  Settled'
  <2>1. links' = [links EXCEPT ![p] = [links[p] EXCEPT ![q] = k]]
    BY <1>2 DEF Moves
  <2>2. \A x, y \in Peer : links'[x][y] = IF x = p /\ y = q THEN k ELSE links[x][y]
    BY <2>1 DEF MeshTypeOK
  <2> QED
    BY <1>2, <2>2 DEF Settled
<1>3. ASSUME NEW p \in Peer, NEW q \in Peer, Proceed(p, q) PROVE Settled'
  <2> DEFINE k == links[p][q]
  <2>1. k \in Link /\ TakenUp(k)
    BY <1>3 DEF Proceed, MeshTypeOK, Settled
  <2>2. /\ \A s \in {"offered", "answering"} : LET n == [k EXCEPT !.step = s] IN
              n \in Link /\ TakenUp(n)
        /\ Drained(k) \in Link /\ TakenUp(Drained(k))
        /\ k.step = "draining" => LET n == [k EXCEPT !.step = "stable"] IN
              n \in Link /\ TakenUp(n)
    BY <2>1 DEF TakenUp, Link, Drained, Steps
  <2>3. \E new \in Link : \E sent : TakenUp(new) /\ Moves(p, q, new, sent)
    <3>1. CASE k.step = "offering"
      <4>1. Moves(p, q, [k EXCEPT !.step = "offered"], Says(p, q, "offer"))
        BY <1>3, <3>1 DEF Proceed
      <4> QED
        BY <2>2, <4>1
    <3>2. CASE k.step = "applying"
      <4>1. \/ Moves(p, q, Drained(k), {})
            \/ Moves(p, q, [k EXCEPT !.step = "answering"], {})
        BY <1>3, <3>2 DEF Proceed
      <4> QED
        BY <2>2, <4>1
    <3>3. CASE k.step = "answering"
      <4>1. Moves(p, q, Drained(k), {})
        BY <1>3, <3>3 DEF Proceed
      <4> QED
        BY <2>2, <4>1
    <3>4. CASE k.step = "draining"
      <4>1. \E sent : Moves(p, q, [k EXCEPT !.step = "stable"], sent)
        BY <1>3, <3>4 DEF Proceed
      <4> QED
        BY <2>2, <3>4, <4>1
    <3> QED
      BY <1>3, <3>1, <3>2, <3>3, <3>4 DEF Proceed
  <2> QED
    BY <1>2, <2>3
<1>4. ASSUME NEW p \in Peer, NEW q \in Peer, Gather(p, q) PROVE Settled'
  <2>1. links[p][q] \in Link /\ TakenUp(links[p][q])
    BY <1>4 DEF Gather, MeshTypeOK, Settled
  <2>2. [links[p][q] EXCEPT !.sent = TRUE] \in Link /\ TakenUp([links[p][q] EXCEPT !.sent = TRUE])
    BY <2>1 DEF TakenUp, Link
  <2> QED
    BY <1>2, <1>4, <2>2 DEF Gather
<1>5. ASSUME NEW m \in posts, Deliver(m) \/ Lose(m) PROVE Settled'
  BY <1>5 DEF Deliver, Lose, Settled
<1>6. ASSUME NEW p \in Peer, Close(p) PROVE Settled'
  BY <1>6 DEF Close, MeshTypeOK, NoLinks, Settled, TakenUp
<1> QED
  BY <1>1, <1>3, <1>4, <1>5, <1>6 DEF MeshNext, allVars, meshVars, Arrive, Depart, Settled

-----------------------------------------------------------------------------
(* Who is connected to whom. *)

\* A frame on its way to p's page says of an arrival what the registry holds
\* of it, and carries no signal from p itself.
Told(p, f) ==
  /\ f.type = "peer-joined" =>
       /\ conn[f.peer] # "unborn"
       /\ conn[f.peer] \in {"live", "lost"} =>
            home[f.peer] = home[p] /\ f.info.seq = peers[home[p]][f.peer].seq
  /\ f.type = "signal" => f.from # p

Heard(p) == \A i \in 1..Len(stream[p]) : Told(p, stream[p][i])

\* The hello is the first frame and the only one of its kind; it gives the page
\* the sequence the registry holds, and before it there is no connection.
Greeted(p) ==
  /\ \A i \in 1..Len(stream[p]) : stream[p][i].type = "hello" <=> i = 1 /\ view[p] = NoView
  /\ view[p] = NoView =>
       /\ stream[p] # <<>>
       /\ stream[p][1].seq = peers[home[p]][p].seq
       /\ links[p] = NoLinks
  /\ view[p] # NoView => ourSeq[p] = peers[home[p]][p].seq

\* A connection is to somebody on the roster, and is offered to those after p.
Wired(p) ==
  \A q \in Peer : links[p][q] # NoLink =>
    /\ view[p] # NoView
    /\ view[p][q] # Absent
    /\ links[p][q].offers /\ conn[q] \in {"live", "lost"} => ourSeq[p] < peers[home[p]][q].seq

Connected ==
  \A p \in Peer :
    /\ conn[p] = "live" => Heard(p) /\ Greeted(p) /\ Wired(p)
    /\ conn[p] # "live" => links[p] = NoLinks

\* Nobody writes to themselves.
NoSelf == \A m \in posts : m.from # m.to

MeshInv == MeshTypeOK /\ Settled /\ Connected /\ NoSelf

\* What an unread frame more, or less, makes of a stream.
LEMMA PushFacts ==
  ASSUME NEW s \in Seq(Frame), NEW f \in Frame
  PROVE  /\ Len(s) \in Nat /\ Len(Append(s, f)) = Len(s) + 1
         /\ Append(s, f)[Len(s) + 1] = f
         /\ \A i \in 1..Len(s) : Append(s, f)[i] = s[i]
         /\ s # <<>> => 1 \in 1..Len(s)
         /\ Append(s, f) # <<>>
<1>1. /\ Len(s) \in Nat /\ Len(Append(s, f)) = Len(s) + 1
      /\ Append(s, f)[Len(s) + 1] = f
      /\ \A i \in 1..Len(s) : Append(s, f)[i] = s[i]
  OBVIOUS
<1>2. s # <<>> => 1 \in 1..Len(s)
  OBVIOUS
<1>3. Len(Append(s, f)) # 0 /\ Len(<<>>) = 0
  BY <1>1
<1>4. Append(s, f) # <<>>
  BY <1>3, Zenon
<1> QED
  BY <1>1, <1>2, <1>4

LEMMA PopFacts ==
  ASSUME NEW s \in Seq(Frame), s # <<>>
  PROVE  /\ Len(Tail(s)) \in Nat /\ Len(s) = Len(Tail(s)) + 1
         /\ Head(s) = s[1] /\ 1 \in 1..Len(s) /\ Head(s) \in Frame
         /\ \A i \in 1..Len(Tail(s)) : i + 1 \in 1..Len(s) /\ Tail(s)[i] = s[i + 1]
OBVIOUS

LEMMA ViewKnown ==
  ASSUME Inductive, NEW p \in Peer, conn[p] = "live" PROVE Known(p, view[p])
<1>1. PICK w : /\ Leads(p, w, stream[p], view[p], Without(peers[home[p]], p))
               /\ \A i \in 0..Len(stream[p]) : Known(p, w[i])
  BY DEF Inductive, Coherent, Led
<1>2. 0 \in 0..Len(stream[p])
  BY DEF Inductive, TypeOK
<1> QED
  BY <1>1, <1>2 DEF Leads

LEMMA NextViewKnown ==
  ASSUME Inductive', NEW p \in Peer, conn'[p] = "live" PROVE Known(p, view[p])'
<1>1. PICK w : /\ Leads(p, w, stream'[p], view'[p], Without(peers'[home'[p]], p))
               /\ \A i \in 0..Len(stream'[p]) : Known(p, w[i])'
  BY DEF Inductive, Coherent, Led
<1>2. 0 \in 0..Len(stream'[p]) /\ w[0] = view'[p]
  BY <1>1 DEF Inductive, TypeOK, Leads
<1>3. Known(p, w[0])'
  BY <1>1, <1>2
<1> QED
  BY <1>2, <1>3

LEMMA ApplySees ==
  ASSUME NEW v \in View \cup {NoView}, NEW f \in Frame, f.type = "hello" \/ v # NoView
  PROVE  Apply(v, f) \in View
<1>1. CASE f.type = "hello"
  BY <1>1 DEF Apply, Frame, Hello, Joined, Left, SourcesOut, SignalOut
<1>2. CASE f.type # "hello"
  <2>1. v \in View
    BY <1>2
  <2>2. CASE f.type = "peer-joined"
    BY <2>1, <2>2 DEF Apply, Frame, Hello, Joined, Left, SourcesOut, SignalOut, View, Info
  <2>3. CASE f.type = "sources"
    BY <2>1, <2>3 DEF Apply, Frame, Hello, Joined, Left, SourcesOut, SignalOut, View, Info
  <2>4. CASE f.type = "peer-left"
    BY <2>1, <2>4 DEF Apply, Frame, Hello, Joined, Left, SourcesOut, SignalOut, View, Without
  <2>5. CASE f.type = "signal"
    BY <2>1, <2>5 DEF Apply
  <2> QED
    BY <1>2, <2>2, <2>3, <2>4, <2>5 DEF Frame, Hello, Joined, Left, SourcesOut, SignalOut
<1> QED
  BY <1>1, <1>2

\* What a page was told stays so.
LEMMA ToldStays ==
  ASSUME NEW p \in Peer, NEW f \in Frame, Steady, Told(p, f), home'[p] = home[p]
  PROVE  Told(p, f)'
<1>1. f.type = "peer-joined" => f.peer \in Peer
  BY DEF Frame, Hello, Joined, Left, SourcesOut, SignalOut
<1> QED
  BY <1>1 DEF Told, Steady

\* A page that reads nothing, and is sent at most one frame that is true.
LEMMA StillConnected ==
  ASSUME Inductive, Inductive', Steady, NEW p \in Peer, conn[p] = "live", conn'[p] = "live",
         Heard(p), Greeted(p), Wired(p),
         UNCHANGED <<view[p], home[p], ourSeq[p]>>,
         \/ stream'[p] = stream[p]
         \/ \E f \in Frame : /\ stream'[p] = Append(stream[p], f)
                             /\ f.type # "hello" /\ Told(p, f)',
         \A q \in Peer : links'[p][q] # NoLink =>
           links[p][q] # NoLink /\ links'[p][q].offers = links[p][q].offers,
         links[p] = NoLinks => links'[p] = NoLinks
  PROVE  (Heard(p) /\ Greeted(p) /\ Wired(p))'
<1>1. stream[p] \in Seq(Frame) /\ stream'[p] \in Seq(Frame)
  BY DEF Inductive, TypeOK
<1>2. peers'[home'[p]][p].seq = peers[home[p]][p].seq
  BY DEF Steady
<1>3. \A i \in 1..Len(stream[p]) : Told(p, stream[p][i])'
  BY <1>1, ToldStays DEF Heard
<1>4. Wired(p)'
  <2>1. ASSUME NEW q \in Peer, links'[p][q] # NoLink, conn'[q] \in {"live", "lost"}
        PROVE  conn[q] \in {"live", "lost"} /\ peers'[home[p]][q].seq = peers[home[p]][q].seq
    <3>1. view[p] # NoView /\ view[p][q] # Absent
      BY <2>1 DEF Wired
    <3>2. conn[q] # "unborn" /\ (conn[q] \in {"live", "lost"} => home[q] = home[p])
      BY <3>1, ViewKnown DEF Known
    <3> QED
      BY <2>1, <3>2 DEF Steady
  <2> QED
    BY <2>1 DEF Wired
<1>5. CASE stream'[p] = stream[p]
  BY <1>2, <1>3, <1>4, <1>5 DEF Heard, Greeted
<1>6. ASSUME NEW f \in Frame, stream'[p] = Append(stream[p], f), f.type # "hello", Told(p, f)'
      PROVE  (Heard(p) /\ Greeted(p))'
  <2>1. /\ Len(stream[p]) \in Nat /\ Len(stream'[p]) = Len(stream[p]) + 1
        /\ stream'[p][Len(stream[p]) + 1] = f
        /\ \A i \in 1..Len(stream[p]) : stream'[p][i] = stream[p][i]
        /\ stream[p] # <<>> => 1 \in 1..Len(stream[p])
        /\ stream'[p] # <<>>
    BY <1>1, <1>6, PushFacts
  <2>2. Heard(p)'
    BY <1>3, <1>6, <2>1 DEF Heard
  <2>3. view[p] = NoView => stream'[p][1].seq = stream[p][1].seq
    BY <2>1 DEF Greeted
  <2>4. \A i \in 1..Len(stream'[p]) : stream'[p][i].type = "hello" <=> i = 1 /\ view'[p] = NoView
    BY <1>6, <2>1 DEF Greeted
  <2>5. view'[p] = NoView => /\ stream'[p][1].seq = peers'[home'[p]][p].seq
                             /\ links'[p] = NoLinks
    BY <1>2, <2>3 DEF Greeted
  <2>6. view'[p] # NoView => ourSeq'[p] = peers'[home'[p]][p].seq
    BY <1>2 DEF Greeted
  <2>7. Greeted(p)'
    BY <2>1, <2>4, <2>5, <2>6, Zenon DEF Greeted, NoLinks
  <2> QED
    BY <2>2, <2>7
<1> QED
  BY <1>4, <1>5, <1>6

\* The sender of a signal that is read is on the roster.
LEMMA HeadFits ==
  ASSUME Inductive, NEW p \in Peer, conn[p] = "live", stream[p] # <<>>,
         Head(stream[p]).type = "signal", Head(stream[p]).from # p
  PROVE  view[p] # NoView /\ view[p][Head(stream[p]).from] # Absent
<1>1. PICK w : Leads(p, w, stream[p], view[p], Without(peers[home[p]], p))
  BY DEF Inductive, Coherent, Led
<1>2. stream[p] \in Seq(Frame) /\ Len(stream[p]) \in Nat \ {0}
  BY DEF Inductive, TypeOK
<1>3. Fits(p, w[1 - 1], stream[p][1]) /\ w[0] = view[p]
  BY <1>1, <1>2 DEF Leads
<1>4. Head(stream[p]) = stream[p][1] /\ w[1 - 1] = w[0]
  BY <1>2
<1> QED
  BY <1>3, <1>4 DEF Fits

\* A page that has begun to read keeps what its frames make of its connections.
LEMMA HandleConnected ==
  ASSUME Inductive, Inductive', MeshTypeOK, NEW p \in Peer, Heard(p), Greeted(p), Wired(p),
         Handle(p)
  PROVE  (Heard(p) /\ Greeted(p) /\ Wired(p))'
<1>0. PICK f : f = Head(stream[p])
  OBVIOUS
<1>1. /\ conn[p] = "live" /\ stream[p] # <<>> /\ stream[p] \in Seq(Frame)
      /\ stream'[p] = Tail(stream[p])
      /\ view'[p] = Apply(view[p], f)
      /\ ourSeq'[p] = IF f.type = "hello" THEN f.seq ELSE ourSeq[p]
      /\ links'[p] = Hears(links[p], f, ourSeq[p])
      /\ UNCHANGED <<peers, conn, home>>
  BY <1>0 DEF Handle, Read, Inductive, TypeOK, MeshTypeOK
<1>2. /\ f \in Frame /\ f = stream[p][1] /\ 1 \in 1..Len(stream[p])
      /\ Len(stream'[p]) \in Nat /\ Len(stream[p]) = Len(stream'[p]) + 1
      /\ \A i \in 1..Len(stream'[p]) : /\ i + 1 \in 1..Len(stream[p])
                                       /\ stream'[p][i] = stream[p][i + 1]
  BY <1>0, <1>1, PopFacts
<1>3. f.type = "hello" <=> view[p] = NoView
  BY <1>2 DEF Greeted
<1>4. view'[p] \in View /\ view'[p] # NoView
  <2>1. view[p] \in View \cup {NoView}
    BY DEF Inductive, TypeOK
  <2>2. Apply(view[p], f) \in View
    BY <1>2, <1>3, <2>1, ApplySees
  <2> QED
    BY <1>1, <2>2
<1>5. Heard(p)'
  BY <1>1, <1>2 DEF Heard, Told
<1>6. ourSeq'[p] = peers[home[p]][p].seq
  BY <1>1, <1>2, <1>3 DEF Greeted
<1>7. Greeted(p)'
  <2>1. \A i \in 1..Len(stream'[p]) : stream'[p][i].type # "hello"
    BY <1>2 DEF Greeted
  <2> QED
    BY <1>1, <1>4, <1>6, <2>1 DEF Greeted
<1>8. Known(p, view'[p])
  <2>1. Known(p, view[p])'
    BY <1>1, NextViewKnown
  <2> QED
    BY <1>1, <2>1 DEF Known
<1>9. ASSUME NEW q \in Peer, links'[p][q] # NoLink
      PROVE  /\ view'[p][q] # Absent
             /\ links'[p][q].offers /\ conn[q] \in {"live", "lost"}
                  => ourSeq'[p] < peers[home[p]][q].seq
  <2>0. /\ ~Open("applying").offers
        /\ links[p][q] # NoLink => links[p][q] \in Link
    <3>1. ~Open("applying").offers
      BY DEF Open
    <3>2. links[p][q] # NoLink => links[p][q] \in Link
      BY DEF MeshTypeOK
    <3> QED
      BY <3>1, <3>2
  <2>1. CASE f.type = "hello"
    <3>1. view'[p] = f.roster /\ ourSeq'[p] = f.seq
      BY <1>1, <2>1 DEF Apply
    <3>2. f.roster[q] # Absent /\ weOffer(f.seq, f.roster[q].seq)
      BY <1>1, <1>9, <2>1 DEF Hears, Add, NoLinks
    <3> QED
      BY <1>4, <1>8, <3>1, <3>2 DEF Known, weOffer
  <2>2. CASE f.type = "peer-joined"
    <3>1. /\ f.peer \in Peer /\ f.info # Absent /\ Told(p, f) /\ view[p] \in View
      <4>1. f \in Joined
        BY <1>2, <2>2 DEF Frame, Hello, Joined, Left, SourcesOut, SignalOut
      <4>2. Told(p, f)
        BY <1>2 DEF Heard
      <4>3. view[p] \in View
        BY <1>3, <2>2 DEF Inductive, TypeOK
      <4> QED
        BY <4>1, <4>2, <4>3 DEF Joined
    <3>2. view'[p] = IF view[p][f.peer] = Absent THEN [view[p] EXCEPT ![f.peer] = f.info]
                                                 ELSE view[p]
      BY <1>1, <1>3, <2>2 DEF Apply
    <3>3. view'[p][f.peer] # Absent /\ \A x \in Peer : view[p][x] # Absent => view'[p][x] # Absent
      BY <3>1, <3>2 DEF View
    <3>4. CASE links[p][q] # NoLink
      <4>1. links'[p][q] = links[p][q]
        BY <1>1, <2>2, <3>4 DEF Hears, Add, MeshTypeOK
      <4> QED
        BY <1>1, <2>2, <3>3, <3>4, <4>1 DEF Wired
    <3>5. CASE links[p][q] = NoLink
      <4>1. q = f.peer /\ weOffer(ourSeq[p], f.info.seq)
        BY <1>1, <1>9, <2>2, <3>1, <3>5 DEF Hears, Add, MeshTypeOK
      <4> QED
        BY <1>1, <2>2, <3>1, <3>3, <4>1 DEF Told, weOffer
    <3> QED
      BY <3>4, <3>5
  <2>3. CASE f.type = "peer-left"
    <3>1. f.peer \in Peer /\ view[p] \in View
      BY <1>2, <1>3, <2>3 DEF Frame, Hello, Joined, Left, SourcesOut, SignalOut, Inductive, TypeOK
    <3>2. q # f.peer /\ links'[p][q] = links[p][q]
      BY <1>1, <1>9, <2>3, <3>1 DEF Hears, Remove, MeshTypeOK
    <3>3. view'[p][q] = view[p][q]
      BY <1>1, <1>3, <2>3, <3>1, <3>2 DEF Apply, Without, View
    <3> QED
      BY <1>1, <1>9, <2>3, <3>2, <3>3 DEF Wired
  <2>4. CASE f.type = "sources"
    <3>1. f.from \in Peer /\ view[p] \in View
      BY <1>2, <1>3, <2>4 DEF Frame, Hello, Joined, Left, SourcesOut, SignalOut, Inductive, TypeOK
    <3>2. links'[p][q] = links[p][q]
      BY <1>1, <2>4 DEF Hears
    <3>3. view[p][q] # Absent
      BY <1>9, <3>2 DEF Wired
    <3>4. view'[p][q] # Absent
      <4>1. view'[p] = IF view[p][f.from] = Absent THEN view[p]
                       ELSE [view[p] EXCEPT ![f.from].sources = f.sources]
        BY <1>1, <1>3, <2>4 DEF Apply
      <4>2. CASE q # f.from
        BY <3>1, <3>3, <4>1, <4>2 DEF View
      <4>3. CASE q = f.from
        <5>1. view[p][q] \in Info /\ f.sources \in Source
          BY <1>2, <2>4, <3>1, <3>3
             DEF View, Frame, Hello, Joined, Left, SourcesOut, SignalOut
        <5>2. [view[p][q] EXCEPT !.sources = f.sources] \in Info
          BY <5>1 DEF Info
        <5>3. view'[p][q] = [view[p][q] EXCEPT !.sources = f.sources]
          BY <3>1, <3>3, <4>1, <4>3 DEF View
        <5> QED
          BY <5>2, <5>3
      <4> QED
        BY <4>2, <4>3
    <3> QED
      BY <1>1, <1>9, <2>4, <3>2, <3>4 DEF Wired
  <2>5. CASE f.type = "signal"
    <3>1. f.from \in Peer /\ f.from # p /\ view'[p] = view[p]
      BY <1>1, <1>2, <2>5 DEF Heard, Told, Frame, Hello, Joined, Left, SourcesOut, SignalOut, Apply
    <3>2. links[p][q] # NoLink => links'[p][q].offers = links[p][q].offers
      BY <1>1, <2>0, <2>5, <3>1 DEF Hears, Signal, MeshTypeOK, Link
    <3>3. CASE links[p][q] # NoLink
      BY <1>1, <2>5, <3>1, <3>2, <3>3 DEF Wired
    <3>4. CASE links[p][q] = NoLink
      <4>1. q = f.from /\ ~links'[p][q].offers
        BY <1>1, <1>9, <2>0, <2>5, <3>1, <3>4 DEF Hears, Signal, MeshTypeOK
      <4>2. view[p][q] # Absent
        BY <1>0, <1>1, <2>5, <3>1, <4>1, HeadFits
      <4> QED
        BY <3>1, <4>1, <4>2
    <3> QED
      BY <3>3, <3>4
  <2> QED
    BY <1>2, <2>1, <2>2, <2>3, <2>4, <2>5 DEF Frame, Hello, Joined, Left, SourcesOut, SignalOut
<1> QED
  BY <1>1, <1>4, <1>5, <1>7, <1>9 DEF Wired

\* A room's own steps here: nobody restarts it, and nobody publishes anything.
RoomStep(p) ==
  \/ \E r \in Room, u \in User, t \in Title : Join(p, r, u, t)
  \/ Disconnect(p)
  \/ Leave(p)

LEMMA RoomStepSteady ==
  ASSUME Inductive, NEW p \in Peer, RoomStep(p) PROVE Steady
<1>1. ASSUME NEW r \in Room, NEW u \in User, NEW t \in Title, Join(p, r, u, t) PROVE Steady
  <2>1. /\ \A s \in Room : \A q \in Peer \ {p} : peers'[s][q] = peers[s][q]
        /\ conn' = [conn EXCEPT ![p] = "live"] /\ home' = [home EXCEPT ![p] = r]
        /\ conn[p] = "unborn"
    BY <1>1, JoinEffect DEF Join, Inductive
  <2> QED
    BY <2>1 DEF Steady, Inductive, TypeOK, Structure, Homes
<1>2. CASE Disconnect(p)
  BY <1>2 DEF Disconnect, Steady, Inductive, TypeOK
<1>3. CASE Leave(p)
  <2>1. PICK r \in Room :
          /\ home[p] = r /\ p \in Members(r)
          /\ \A s \in Room \ {r} : peers'[s] = peers[s] /\ room'[s] = room[s]
          /\ peers'[r] = Without(peers[r], p)
    BY <1>3, LeaveEffect DEF Inductive
  <2>2. conn' = [conn EXCEPT ![p] = "gone"] /\ home' = [home EXCEPT ![p] = NoRoom]
    BY <1>3 DEF Leave
  <2>3. \A s \in Room : \A q \in Peer \ {p} : peers'[s][q] = peers[s][q]
    BY <2>1 DEF Without, Inductive, TypeOK, View
  <2> QED
    BY <2>2, <2>3 DEF Steady, Inductive, TypeOK, Structure, Homes
<1> QED
  BY <1>1, <1>2, <1>3 DEF RoomStep

LEMMA ArriveConnected ==
  ASSUME Inductive, Inductive', MeshInv, NEW p \in Peer, NEW r \in Room, NEW u \in User,
         NEW t \in Title, Arrive(p, r, u, t)
  PROVE  Connected'
<1> DEFINE g == Greeting(p, r, u, t)
<1>0. PICK f, me : me = Newcomer(r, u, t) /\ f = [type |-> "peer-joined", peer |-> p, info |-> me]
  OBVIOUS
<1>1. /\ Join(p, r, u, t) /\ UNCHANGED <<view, ourSeq, links>> /\ conn[p] = "unborn"
      /\ conn' = [conn EXCEPT ![p] = "live"] /\ home' = [home EXCEPT ![p] = r]
      /\ stream' = [Announced(Members(r), f) EXCEPT ![p] = <<g>>]
  BY <1>0 DEF Arrive, Join, meshVars
<1>2. peers'[r][p] = me /\ me \in Info
  BY <1>0, <1>1, JoinEffect, FoundType DEF Inductive, TypeOK
<1>3. Steady
  BY <1>1, RoomStepSteady DEF RoomStep
<1>4. f \in Frame /\ f.type # "hello"
  BY <1>0, <1>2 DEF Frame, Joined
<1>5. g.type = "hello" /\ g.seq = me.seq
  BY <1>0 DEF Greeting, Newcomer
<1> HIDE DEF g
<1>6. ASSUME NEW q \in Peer, q # p, conn'[q] = "live"
      PROVE  (Heard(q) /\ Greeted(q) /\ Wired(q))'
  <2>1. conn[q] = "live" /\ UNCHANGED <<view[q], home[q], ourSeq[q]>> /\ links'[q] = links[q]
    BY <1>1, <1>6 DEF Inductive, TypeOK
  <2>2. Heard(q) /\ Greeted(q) /\ Wired(q)
    BY <2>1 DEF MeshInv, Connected
  <2>3. stream'[q] = IF q \in Live(Members(r)) THEN Append(stream[q], f) ELSE stream[q]
    BY <1>1, <1>6 DEF Announced, Inductive, TypeOK
  <2>4. q \in Members(r) => home[q] = r
    BY DEF Inductive, Structure, RoomIsItsPeople
  <2>5. q \in Members(r) => Told(q, f)'
    BY <1>0, <1>1, <1>2, <2>1, <2>4 DEF Told, Inductive, TypeOK
  <2>6. stream'[q] = stream[q] \/ (stream'[q] = Append(stream[q], f) /\ Told(q, f)')
    BY <2>3, <2>5 DEF Live
  <2> QED
    BY <1>3, <1>4, <1>6, <2>1, <2>2, <2>6, StillConnected
<1>7. (Heard(p) /\ Greeted(p) /\ Wired(p))'
  <2>1. stream'[p] = <<g>> /\ view'[p] = NoView /\ home'[p] = r /\ links'[p] = NoLinks
    BY <1>1 DEF Announced, Inductive, TypeOK, Blank, MeshInv, Connected
  <2>2. Len(stream'[p]) = 1 /\ stream'[p][1] = g /\ \A i \in 1..1 : i = 1
    BY <2>1
  <2>3. stream'[p] # <<>>
    <3>1. Len(<<>>) # 1
      OBVIOUS
    <3> QED
      BY <2>2, <3>1, Zenon
  <2>4. Heard(p)'
    BY <1>5, <2>2 DEF Heard, Told
  <2>5. Greeted(p)'
    <3>1. \A i \in 1..Len(stream'[p]) : stream'[p][i].type = "hello" <=> i = 1 /\ view'[p] = NoView
      BY <1>5, <2>1, <2>2
    <3>2. stream'[p][1].seq = peers'[home'[p]][p].seq
      BY <1>2, <1>5, <2>1, <2>2
    <3> QED
      BY <2>1, <2>3, <3>1, <3>2, Zenon DEF Greeted, NoLinks
  <2>6. Wired(p)'
    BY <2>1 DEF Wired, NoLinks
  <2> QED
    BY <2>4, <2>5, <2>6
<1>8. ASSUME NEW q \in Peer, conn'[q] # "live" PROVE links'[q] = NoLinks
  BY <1>1, <1>8 DEF MeshInv, Connected, Inductive, TypeOK
<1> QED
  BY <1>6, <1>7, <1>8 DEF Connected

\* The others when p's connection is lost or over.
LEMMA GoneConnected ==
  ASSUME Inductive, Inductive', MeshInv, NEW p \in Peer, Close(p) \/ Depart(p)
  PROVE  Connected'
<1> DEFINE f == [type |-> "peer-left", peer |-> p]
<1>1. /\ Disconnect(p) \/ Leave(p)
      /\ UNCHANGED ourSeq
      /\ \A q \in Peer : links'[q] = links[q] \/ (q = p /\ links'[q] = NoLinks)
      /\ conn'[p] # "live" /\ links'[p] = NoLinks
      /\ \A q \in Peer \ {p} : conn'[q] = conn[q] /\ home'[q] = home[q] /\ view'[q] = view[q]
  BY DEF Close, Depart, Disconnect, Leave, meshVars, MeshInv, MeshTypeOK, Connected, Inductive, TypeOK
<1>2. Steady
  BY <1>1, RoomStepSteady DEF RoomStep
<1>3. f \in Frame /\ f.type # "hello"
  BY DEF Frame, Left
<1>4. \A q \in Peer : Told(q, f)'
  BY DEF Told
<1> HIDE DEF f
<1>5. ASSUME NEW q \in Peer, q # p
      PROVE  stream'[q] = stream[q] \/ stream'[q] = Append(stream[q], f)
  <2>1. CASE Disconnect(p)
    BY <1>5, <2>1 DEF Disconnect, Inductive, TypeOK
  <2>2. CASE Leave(p)
    <3>1. \E r \in Room : stream' = Announced(Members(r) \ {p}, f)
      BY <2>2, LeaveEffect DEF Inductive, f
    <3> QED
      BY <3>1 DEF Announced
  <2> QED
    BY <1>1, <2>1, <2>2
<1>6. ASSUME NEW q \in Peer, conn'[q] = "live" PROVE (Heard(q) /\ Greeted(q) /\ Wired(q))'
  <2>1. q # p /\ conn[q] = "live" /\ UNCHANGED <<view[q], home[q], ourSeq[q]>> /\ links'[q] = links[q]
    BY <1>1, <1>6 DEF MeshInv, MeshTypeOK
  <2>2. Heard(q) /\ Greeted(q) /\ Wired(q)
    BY <2>1 DEF MeshInv, Connected
  <2> QED
    BY <1>2, <1>3, <1>4, <1>5, <1>6, <2>1, <2>2, StillConnected
<1>7. ASSUME NEW q \in Peer, conn'[q] # "live" PROVE links'[q] = NoLinks
  BY <1>1, <1>7 DEF MeshInv, Connected
<1> QED
  BY <1>6, <1>7 DEF Connected

\* A page goes on with a connection it has, which stays to whom and how it was.
LEMMA MoveConnected ==
  ASSUME Inductive, Inductive', MeshInv, NEW p \in Peer, NEW q \in Peer, NEW k \in Link,
         NEW sent, Moves(p, q, k, sent), conn[p] = "live",
         links[p][q] # NoLink, k.offers = links[p][q].offers,
         \A m \in sent : m.from = p /\ m.to = q
  PROVE  Connected' /\ NoSelf'
<1>1. /\ UNCHANGED <<vars, ourSeq>> /\ posts' = posts \cup sent
      /\ links' = [links EXCEPT ![p] = [links[p] EXCEPT ![q] = k]]
  BY DEF Moves
<1>2. \A x, y \in Peer : links'[x][y] = IF x = p /\ y = q THEN k ELSE links[x][y]
  BY <1>1 DEF MeshInv, MeshTypeOK
<1>3. \A x \in Peer \ {p} : links'[x] = links[x]
  BY <1>1 DEF MeshInv, MeshTypeOK
<1>4. Heard(p) /\ Greeted(p) /\ Wired(p)
  BY DEF MeshInv, Connected
<1>5. p # q
  <2>1. Known(p, view[p])
    BY ViewKnown
  <2> QED
    BY <1>4, <2>1 DEF Wired, Known
<1>6. NoSelf'
  BY <1>1, <1>5 DEF NoSelf, MeshInv
<1>7. UNCHANGED <<peers, conn, home, stream, view>>
  BY <1>1 DEF vars
<1>8. ASSUME NEW x \in Peer, conn[x] = "live" PROVE (Heard(x) /\ Greeted(x) /\ Wired(x))'
  <2>1. Heard(x) /\ Greeted(x) /\ Wired(x)
    BY <1>8 DEF MeshInv, Connected
  <2>2. links[x] = NoLinks => links'[x] = NoLinks
    BY <1>3 DEF NoLinks
  <2>3. Steady
    BY <1>7 DEF Steady
  <2>4. \A y \in Peer : links'[x][y] # NoLink =>
          links[x][y] # NoLink /\ links'[x][y].offers = links[x][y].offers
    BY <1>2
  <2> QED
    BY <1>1, <1>7, <1>8, <2>1, <2>2, <2>3, <2>4, StillConnected
<1>9. ASSUME NEW x \in Peer, conn[x] # "live" PROVE links'[x] = NoLinks
  BY <1>3, <1>9 DEF MeshInv, Connected
<1> QED
  BY <1>6, <1>7, <1>8, <1>9 DEF Connected

LEMMA DeliverConnected ==
  ASSUME Inductive, Inductive', MeshInv, NEW m \in posts, Deliver(m)
  PROVE  Connected'
<1> DEFINE f == [type |-> "signal", from |-> m.from, kind |-> m.kind]
<1>1. m \in Post /\ m.from # m.to
  BY DEF MeshInv, MeshTypeOK, NoSelf
<1>2. UNCHANGED <<peers, conn, home, view, links, ourSeq>>
  BY DEF Deliver, Relay, vars
<1>3. f \in Frame /\ f.type # "hello"
  BY <1>1 DEF Post, Frame, SignalOut
<1>4. ASSUME NEW x \in Peer
      PROVE  stream'[x] = stream[x] \/ (stream'[x] = Append(stream[x], f) /\ x = m.to)
  BY <1>1 DEF Deliver, Relay, vars, Announced, Live, Post
<1>5. \A x \in Peer : x = m.to => Told(x, f)'
  BY <1>1 DEF Told
<1>6. Steady
  BY <1>2 DEF Steady
<1> HIDE DEF f
<1>7. ASSUME NEW x \in Peer, conn[x] = "live" PROVE (Heard(x) /\ Greeted(x) /\ Wired(x))'
  <2>1. Heard(x) /\ Greeted(x) /\ Wired(x)
    BY <1>7 DEF MeshInv, Connected
  <2> QED
    BY <1>2, <1>3, <1>4, <1>5, <1>6, <1>7, <2>1, StillConnected
<1> QED
  BY <1>2, <1>7 DEF Connected, MeshInv

LEMMA MeshInvInit == MeshInit => MeshInv
<1> SUFFICES ASSUME MeshInit PROVE MeshInv
  OBVIOUS
<1>1. Connected /\ NoSelf
  BY DEF MeshInit, Init, Connected, NoSelf
<1> QED
  BY <1>1, MeshTypeInit, SettledInit DEF MeshInv

LEMMA MeshInvStep ==
  ASSUME Inductive, MeshInv, [MeshNext]_allVars PROVE Inductive' /\ MeshInv'
<1>1. Inductive'
  BY MeshMoves, NextInductive DEF MeshInv
<1>2. MeshTypeOK' /\ Settled'
  BY MeshTypeStep, SettledStep DEF MeshInv, Inductive
<1>3. ASSUME NEW p \in Peer, NEW r \in Room, NEW u \in User, NEW t \in Title, Arrive(p, r, u, t)
      PROVE  Connected' /\ NoSelf'
  BY <1>1, <1>3, ArriveConnected DEF Arrive, meshVars, MeshInv, NoSelf
<1>4. ASSUME NEW p \in Peer, Close(p) \/ Depart(p) PROVE Connected' /\ NoSelf'
  BY <1>1, <1>4, GoneConnected DEF Close, Depart, meshVars, MeshInv, NoSelf
<1>5. ASSUME NEW p \in Peer, Handle(p) PROVE Connected' /\ NoSelf'
  <2>1. /\ conn[p] = "live" /\ UNCHANGED <<peers, conn, home, posts>>
        /\ \A x \in Peer \ {p} : UNCHANGED <<stream[x], view[x], ourSeq[x], links[x]>>
    BY <1>5 DEF Handle, Read, MeshInv, MeshTypeOK, Inductive, TypeOK
  <2>2. (Heard(p) /\ Greeted(p) /\ Wired(p))'
    BY <1>1, <1>5, <2>1, HandleConnected DEF MeshInv, Connected
  <2>3. Steady
    BY <2>1 DEF Steady
  <2>4. ASSUME NEW x \in Peer, conn[x] = "live", x # p PROVE (Heard(x) /\ Greeted(x) /\ Wired(x))'
    <3>1. Heard(x) /\ Greeted(x) /\ Wired(x)
      BY <2>4 DEF MeshInv, Connected
    <3> QED
      BY <1>1, <2>1, <2>3, <2>4, <3>1, StillConnected
  <2>5. ASSUME NEW x \in Peer, conn[x] # "live" PROVE links'[x] = NoLinks
    BY <2>1, <2>5 DEF MeshInv, Connected
  <2> QED
    BY <2>1, <2>2, <2>4, <2>5 DEF Connected, NoSelf, MeshInv
<1>6. ASSUME NEW p \in Peer, NEW q \in Peer, Proceed(p, q) PROVE Connected' /\ NoSelf'
  <2> DEFINE k == links[p][q]
  <2>1. conn[p] = "live" /\ k # NoLink /\ k \in Link
    BY <1>6 DEF Proceed, MeshInv, MeshTypeOK
  <2>2. /\ \A s \in Steps : [k EXCEPT !.step = s] \in Link /\ [k EXCEPT !.step = s].offers = k.offers
        /\ Drained(k) \in Link /\ Drained(k).offers = k.offers
    BY <2>1 DEF Link, Drained, Steps
  <2>3. \A kind : \A m \in Says(p, q, kind) : m.from = p /\ m.to = q
    BY DEF Says
  <2>4. \E new \in Link : \E sent : /\ Moves(p, q, new, sent) /\ new.offers = k.offers
                                   /\ \A m \in sent : m.from = p /\ m.to = q
    <3>1. CASE k.step = "offering"
      <4>1. Moves(p, q, [k EXCEPT !.step = "offered"], Says(p, q, "offer"))
        BY <1>6, <3>1 DEF Proceed
      <4>2. PICK sent : sent = Says(p, q, "offer")
        OBVIOUS
      <4>3. \A m \in sent : m.from = p /\ m.to = q
        BY <2>3, <4>2
      <4>4. "offered" \in Steps
        BY DEF Steps
      <4> QED
        BY <2>2, <4>1, <4>2, <4>3, <4>4, Zenon
    <3>2. CASE k.step = "applying"
      <4>1. PICK new : /\ new = Drained(k) \/ new = [k EXCEPT !.step = "answering"]
                       /\ Moves(p, q, new, {})
        BY <1>6, <3>2 DEF Proceed
      <4>2. "answering" \in Steps
        BY DEF Steps
      <4>3. new \in Link /\ new.offers = k.offers
        BY <2>2, <4>1, <4>2, Zenon
      <4> QED
        BY <4>1, <4>3
    <3>3. CASE k.step = "answering"
      <4>1. Moves(p, q, Drained(k), {})
        BY <1>6, <3>3 DEF Proceed
      <4> QED
        BY <2>2, <4>1
    <3>4. CASE k.step = "draining"
      <4>1. Moves(p, q, [k EXCEPT !.step = "stable"], IF k.offers THEN {} ELSE Says(p, q, "answer"))
        BY <1>6, <3>4 DEF Proceed
      <4>2. PICK sent : sent = IF k.offers THEN {} ELSE Says(p, q, "answer")
        OBVIOUS
      <4>3. \A m \in sent : m.from = p /\ m.to = q
        BY <2>3, <4>2
      <4>4. "stable" \in Steps
        BY DEF Steps
      <4> QED
        BY <2>2, <4>1, <4>2, <4>3, <4>4, Zenon
    <3> QED
      BY <1>6, <3>1, <3>2, <3>3, <3>4 DEF Proceed
  <2> QED
    BY <1>1, <2>1, <2>4, MoveConnected
<1>7. ASSUME NEW p \in Peer, NEW q \in Peer, Gather(p, q) PROVE Connected' /\ NoSelf'
  <2> DEFINE new == [links[p][q] EXCEPT !.sent = TRUE]
  <2>1. conn[p] = "live" /\ links[p][q] # NoLink /\ links[p][q] \in Link
    BY <1>7 DEF Gather, MeshInv, MeshTypeOK
  <2>2. new \in Link /\ new.offers = links[p][q].offers
    BY <2>1 DEF Link
  <2>3. \A m \in Says(p, q, "ice") : m.from = p /\ m.to = q
    BY DEF Says
  <2>4. Moves(p, q, new, Says(p, q, "ice"))
    BY <1>7 DEF Gather
  <2> HIDE DEF new
  <2> QED
    BY <1>1, <2>1, <2>2, <2>3, <2>4, MoveConnected
<1>8. ASSUME NEW m \in posts, Deliver(m) PROVE Connected' /\ NoSelf'
  BY <1>1, <1>8, DeliverConnected DEF Deliver, MeshInv, NoSelf
<1>9. ASSUME NEW m \in posts, Lose(m) PROVE Connected' /\ NoSelf'
  BY <1>9 DEF Lose, vars, MeshInv, Connected, NoSelf, Heard, Greeted, Wired, Told
<1>10. ASSUME UNCHANGED allVars PROVE Connected' /\ NoSelf'
  BY <1>10 DEF allVars, meshVars, vars, MeshInv, Connected, NoSelf, Heard, Greeted, Wired, Told
<1>11. Connected' /\ NoSelf'
  BY <1>3, <1>4, <1>5, <1>6, <1>7, <1>8, <1>9, <1>10 DEF MeshNext
<1> QED
  BY <1>1, <1>2, <1>11 DEF MeshInv

LEMMA MeshAlways == MeshSpec => [](Inductive /\ MeshInv)
<1>1. MeshInit => Inductive /\ MeshInv
  BY MeshInvInit, InitInductive DEF MeshInit
<1>2. Inductive /\ MeshInv /\ [MeshNext]_allVars => (Inductive /\ MeshInv)'
  BY MeshInvStep
<1> QED
  BY <1>1, <1>2, PTL DEF MeshSpec

-----------------------------------------------------------------------------
(* The descriptions of a pair.                                                *)

\* A frame of F is among the unread; there is only one; none of G comes after one.
Occurs(s, F) == \E i \in 1..Len(s) : s[i] \in F
Once(s, F) == \A i, j \in 1..Len(s) : s[i] \in F /\ s[j] \in F => i = j
NoneAfter(s, F, G) == \A i, j \in 1..Len(s) : i < j /\ s[i] \in F => s[j] \notin G

Arrivals(b) == {f \in Frame : f.type = "peer-joined" /\ f.peer = b}
Departures(b) == {f \in Frame : f.type = "peer-left" /\ f.peer = b}
Signals(a, kinds) == {f \in Frame : f.type = "signal" /\ f.from = a /\ f.kind \in kinds}

Posted(a, b, kind) == [from |-> a, to |-> b, kind |-> kind] \in posts
Unread(a, b, kind) == Occurs(stream[b], Signals(a, {kind}))
Coming(a, b, kind) == Posted(a, b, kind) \/ Unread(a, b, kind)

\* What is on its way was sent by somebody who had joined; who was seen to leave
\* is gone, and heard of no more; a hello tells of people who came before.
Traced(a) ==
  /\ \A b \in Peer :
       /\ Occurs(stream[a], Signals(b, Kind)) => conn[b] # "unborn"
       /\ Occurs(stream[a], Departures(b)) => conn[b] = "gone"
       /\ NoneAfter(stream[a], Departures(b), Signals(b, Kind))
  /\ \A i \in 1..Len(stream[a]) : stream[a][i].type = "hello" =>
       \A b \in Peer : stream[a][i].roster[b] # Absent => stream[a][i].roster[b].seq < stream[a][i].seq

PostsTraced == \A m \in posts : conn[m.from] # "unborn" /\ conn[m.to] # "unborn"

\* a's end has nothing to do but to wait for b's answer.
Waits(k) == k = NoLink \/ (k.offers /\ k.step = "offered")
Answers(l) == l # NoLink /\ ~l.offers

\* a, who came earlier, is to offer to b, and how far they have come.
Courts(a, b) ==
  \/ Occurs(stream[a], Arrivals(b))
  \/ links[a][b] # NoLink /\ links[a][b].offers
  \/ Coming(a, b, "offer")
  \/ Answers(links[b][a])
  \/ Coming(b, a, "answer")

Single(a, b) ==
  /\ Once(stream[a], Arrivals(b))
  /\ \A kind \in {"offer", "answer"} :
       /\ Once(stream[b], Signals(a, {kind}))
       /\ ~(Posted(a, b, kind) /\ Unread(a, b, kind))

\* One thing at a time: the news of b, the offer being made, the offer on its way,
\* the answer being made, the answer on its way.
Stages(a, b) ==
  LET k == links[a][b]
      l == links[b][a]
  IN /\ Occurs(stream[a], Arrivals(b)) => k = NoLink /\ l = NoLink
     /\ (Occurs(stream[a], Arrivals(b)) \/ (k # NoLink /\ k.offers /\ k.step = "offering")) =>
          l = NoLink /\ ~Coming(a, b, "offer") /\ ~Coming(b, a, "answer")
     /\ Coming(a, b, "offer") => Waits(k) /\ l = NoLink /\ ~Coming(b, a, "answer")
     /\ Answers(l) /\ l.step # "stable" => Waits(k) /\ ~Coming(b, a, "answer")
     /\ Coming(b, a, "answer") => Waits(k) /\ (l = NoLink \/ l.step = "stable")

\* While b has not left, a keeps the connection it has offered.
Holds(a, b) ==
  /\ (Coming(a, b, "offer") \/ Answers(links[b][a]) \/ Coming(b, a, "answer"))
     => (conn[a] = "live" /\ conn[b] \in {"live", "lost"} => links[a][b] # NoLink)
  /\ Unread(b, a, "answer") => links[a][b] # NoLink

Pair(a, b) == Single(a, b) /\ Stages(a, b) /\ Holds(a, b)

\* Only an offer is described, and waits for an answer.
Ends(k) == k # NoLink /\ k.step \in {"offering", "offered"} => k.offers

CourtInv ==
  /\ PostsTraced
  /\ \A a \in Peer : Traced(a)
  /\ \A a, b \in Peer : Ends(links[a][b])
  /\ \A a, b \in Peer : a # b => Pair(a, b) /\ ~(Courts(a, b) /\ Courts(b, a))

\* An unread frame more, or less.
LEMMA OccursPush ==
  ASSUME NEW s \in Seq(Frame), NEW f \in Frame, NEW F
  PROVE  /\ Occurs(Append(s, f), F) <=> Occurs(s, F) \/ f \in F
         /\ Once(s, F) /\ (f \in F => ~Occurs(s, F)) => Once(Append(s, f), F)
<1>1. /\ Len(s) \in Nat /\ Len(Append(s, f)) = Len(s) + 1
      /\ Append(s, f)[Len(s) + 1] = f
      /\ \A i \in 1..Len(s) : Append(s, f)[i] = s[i]
  OBVIOUS
<1>2. \A i \in 1..Len(Append(s, f)) : i \in 1..Len(s) \/ i = Len(s) + 1
  BY <1>1
<1>3. Len(s) + 1 \in 1..Len(Append(s, f)) /\ \A i \in 1..Len(s) : i \in 1..Len(Append(s, f))
  BY <1>1
<1>4. Occurs(Append(s, f), F) <=> Occurs(s, F) \/ f \in F
  BY <1>1, <1>2, <1>3 DEF Occurs
<1>5. ASSUME Once(s, F), f \in F => ~Occurs(s, F) PROVE Once(Append(s, f), F)
  BY <1>1, <1>2, <1>5 DEF Once, Occurs
<1> QED
  BY <1>4, <1>5

LEMMA NoneAfterPush ==
  ASSUME NEW s \in Seq(Frame), NEW f \in Frame, NEW F, NEW G,
         NoneAfter(s, F, G), f \in G => ~Occurs(s, F)
  PROVE  NoneAfter(Append(s, f), F, G)
<1>1. /\ Len(s) \in Nat /\ Len(Append(s, f)) = Len(s) + 1
      /\ Append(s, f)[Len(s) + 1] = f
      /\ \A i \in 1..Len(s) : Append(s, f)[i] = s[i]
  OBVIOUS
<1>2. SUFFICES ASSUME NEW i \in 1..Len(Append(s, f)), NEW j \in 1..Len(Append(s, f)),
                      i < j, Append(s, f)[i] \in F
               PROVE  Append(s, f)[j] \notin G
  BY DEF NoneAfter
<1>3. i \in 1..Len(s) /\ s[i] \in F
  BY <1>1, <1>2
<1>4. CASE j \in 1..Len(s)
  BY <1>1, <1>2, <1>3, <1>4 DEF NoneAfter
<1>5. CASE j = Len(s) + 1
  BY <1>1, <1>3, <1>5 DEF Occurs
<1> QED
  BY <1>1, <1>4, <1>5

LEMMA OccursPop ==
  ASSUME NEW s \in Seq(Frame), s # <<>>, NEW F
  PROVE  /\ Occurs(s, F) <=> Head(s) \in F \/ Occurs(Tail(s), F)
         /\ Once(s, F) => Once(Tail(s), F) /\ (Head(s) \in F => ~Occurs(Tail(s), F))
         /\ \A G : NoneAfter(s, F, G) =>
              NoneAfter(Tail(s), F, G) /\ (Head(s) \in F => ~Occurs(Tail(s), G))
<1>1. /\ Len(Tail(s)) \in Nat /\ Len(s) = Len(Tail(s)) + 1
      /\ Head(s) = s[1] /\ 1 \in 1..Len(s)
      /\ \A i \in 1..Len(Tail(s)) : i + 1 \in 1..Len(s) /\ Tail(s)[i] = s[i + 1] /\ 1 < i + 1
  BY PopFacts
<1>2. \A i \in 1..Len(s) : i = 1 \/ (i - 1 \in 1..Len(Tail(s)) /\ s[i] = Tail(s)[i - 1])
  BY <1>1
<1>3. Occurs(s, F) <=> Head(s) \in F \/ Occurs(Tail(s), F)
  BY <1>1, <1>2 DEF Occurs
<1>4. ASSUME Once(s, F) PROVE Once(Tail(s), F) /\ (Head(s) \in F => ~Occurs(Tail(s), F))
  BY <1>1, <1>4 DEF Once, Occurs
<1>5. ASSUME NEW G, NoneAfter(s, F, G)
      PROVE  NoneAfter(Tail(s), F, G) /\ (Head(s) \in F => ~Occurs(Tail(s), G))
  <2>1. NoneAfter(Tail(s), F, G)
    BY <1>1, <1>5 DEF NoneAfter
  <2>2. Head(s) \in F => ~Occurs(Tail(s), G)
    BY <1>1, <1>5 DEF NoneAfter, Occurs
  <2> QED
    BY <2>1, <2>2
<1> QED
  BY <1>3, <1>4, <1>5

LEMMA OccursNone ==
  ASSUME NEW F, NEW g, g \notin F
  PROVE  /\ ~Occurs(<<>>, F) /\ Once(<<>>, F)
         /\ ~Occurs(<<g>>, F) /\ Once(<<g>>, F)
BY DEF Occurs, Once

\* Where a stream can be after a step: as it was, with a frame less or more, at its
\* end, or at its beginning.
LEMMA TracedStays ==
  ASSUME Inductive, Inductive', Steady, NEW a \in Peer, Traced(a),
         \/ stream'[a] = stream[a]
         \/ stream[a] # <<>> /\ stream'[a] = Tail(stream[a])
         \/ stream'[a] = <<>>
         \/ \E f \in Frame :
              /\ stream'[a] = Append(stream[a], f) /\ f.type # "hello"
              /\ f.type = "signal" => f.from \in Peer /\ conn[f.from] \in {"live", "lost"}
              /\ f.type = "peer-left" => f.peer \in Peer /\ conn'[f.peer] = "gone"
  PROVE  Traced(a)'
<1>1. \A b \in Peer : /\ conn[b] # "unborn" => conn'[b] # "unborn"
                      /\ conn[b] = "gone" => conn'[b] = "gone"
  <2>1. \A b \in Peer : /\ conn[b] \in {"unborn", "live", "lost", "gone"}
                        /\ conn'[b] \in {"unborn", "live", "lost", "gone"}
    BY DEF Inductive, TypeOK
  <2> QED
    BY <2>1 DEF Steady
<1>2. stream[a] \in Seq(Frame) /\ stream'[a] \in Seq(Frame)
  BY DEF Inductive, TypeOK
<1>3. CASE stream'[a] = stream[a]
  BY <1>1, <1>3 DEF Traced
<1>4. CASE stream[a] # <<>> /\ stream'[a] = Tail(stream[a])
  <2>1. \A b \in Peer : /\ Occurs(stream'[a], Signals(b, Kind)) => Occurs(stream[a], Signals(b, Kind))
                        /\ Occurs(stream'[a], Departures(b)) => Occurs(stream[a], Departures(b))
                        /\ NoneAfter(stream'[a], Departures(b), Signals(b, Kind))
    BY <1>2, <1>4, OccursPop DEF Traced
  <2>2. \A i \in 1..Len(stream'[a]) : /\ i + 1 \in 1..Len(stream[a])
                                      /\ stream'[a][i] = stream[a][i + 1]
    BY <1>2, <1>4, PopFacts
  <2>3. \A i \in 1..Len(stream'[a]) : stream'[a][i].type = "hello" =>
          \A b \in Peer : stream'[a][i].roster[b] # Absent
                            => stream'[a][i].roster[b].seq < stream'[a][i].seq
    BY <2>2 DEF Traced
  <2> QED
    BY <1>1, <2>1, <2>3 DEF Traced
<1>5. CASE stream'[a] = <<>>
  BY <1>5 DEF Traced, Occurs, NoneAfter
<1>6. ASSUME NEW f \in Frame,
             stream'[a] = Append(stream[a], f), f.type # "hello",
             f.type = "signal" => f.from \in Peer /\ conn[f.from] \in {"live", "lost"},
             f.type = "peer-left" => f.peer \in Peer /\ conn'[f.peer] = "gone"
      PROVE  Traced(a)'
  <2>1. ASSUME NEW b \in Peer
        PROVE  /\ Occurs(stream'[a], Signals(b, Kind)) => conn'[b] # "unborn"
               /\ Occurs(stream'[a], Departures(b)) => conn'[b] = "gone"
               /\ NoneAfter(stream'[a], Departures(b), Signals(b, Kind))
    <3>1. /\ Occurs(stream'[a], Signals(b, Kind)) <=>
               Occurs(stream[a], Signals(b, Kind)) \/ f \in Signals(b, Kind)
          /\ Occurs(stream'[a], Departures(b)) <=>
               Occurs(stream[a], Departures(b)) \/ f \in Departures(b)
      BY <1>2, <1>6, OccursPush
    <3>2. f \in Signals(b, Kind) => conn[b] \in {"live", "lost"}
      BY <1>6 DEF Signals
    <3>3. f \in Departures(b) => conn'[b] = "gone"
      BY <1>6 DEF Departures
    <3>4. NoneAfter(stream'[a], Departures(b), Signals(b, Kind))
      BY <1>2, <1>6, <3>2, NoneAfterPush DEF Traced
    <3> QED
      BY <1>1, <3>1, <3>2, <3>3, <3>4 DEF Traced
  <2>2. /\ Len(stream'[a]) = Len(stream[a]) + 1 /\ Len(stream[a]) \in Nat
        /\ stream'[a][Len(stream[a]) + 1] = f
        /\ \A i \in 1..Len(stream[a]) : stream'[a][i] = stream[a][i]
    BY <1>2, <1>6, PushFacts
  <2>3. \A i \in 1..Len(stream'[a]) : stream'[a][i].type = "hello" =>
          i \in 1..Len(stream[a]) /\ stream'[a][i] = stream[a][i]
    BY <1>6, <2>2
  <2> QED
    BY <2>1, <2>3 DEF Traced
<1> QED
  BY <1>3, <1>4, <1>5, <1>6

\* A pair that nothing happens to: what is on its way was, connections are at the
\* step they were at, or closed.
LEMMA Subsides ==
  ASSUME NEW a \in Peer, NEW b \in Peer, Pair(a, b),
         Once(stream'[a], Arrivals(b)),
         Occurs(stream'[a], Arrivals(b)) => Occurs(stream[a], Arrivals(b)),
         \A kind \in {"offer", "answer"} :
           /\ Once(stream'[b], Signals(a, {kind}))
           /\ Coming(a, b, kind)' => Coming(a, b, kind)
           /\ ~(Posted(a, b, kind) /\ Unread(a, b, kind))'
         ,
         Coming(b, a, "answer")' => Coming(b, a, "answer"),
         \/ links'[a][b] = NoLink
         \/ /\ links[a][b] # NoLink /\ links'[a][b] # NoLink
            /\ links'[a][b].offers = links[a][b].offers
            /\ links'[a][b].step = links[a][b].step,
         \/ links'[b][a] = NoLink
         \/ /\ links[b][a] # NoLink /\ links'[b][a] # NoLink
            /\ links'[b][a].offers = links[b][a].offers
            /\ links'[b][a].step = links[b][a].step,
         Holds(a, b)'
  PROVE  Pair(a, b)' /\ (Courts(a, b)' => Courts(a, b))
<1>1. Single(a, b)'
  BY DEF Single
<1>2. Coming(a, b, "offer")' => Coming(a, b, "offer")
  OBVIOUS
<1>3. Stages(a, b)'
  BY <1>2 DEF Pair, Stages, Waits, Answers
<1>4. Courts(a, b)' => Courts(a, b)
  BY <1>2 DEF Courts, Answers
<1> QED
  BY <1>1, <1>3, <1>4 DEF Pair

\* A frame that is none of the pair's descriptions, nor the news of either.
Beside(f, a, b) ==
  /\ f \notin Arrivals(a) \cup Arrivals(b)
  /\ \A kind \in {"offer", "answer"} : f \notin Signals(a, {kind}) \cup Signals(b, {kind})

\* The streams after a step that tells a page, if anything, something else.
LEMMA NoMore ==
  ASSUME Inductive, NEW x \in Peer, NEW F,
         \/ stream'[x] = stream[x]
         \/ stream[x] # <<>> /\ stream'[x] = Tail(stream[x])
         \/ stream'[x] = <<>>
         \/ \E f \in Frame : f \notin F /\ stream'[x] = Append(stream[x], f)
  PROVE  /\ Occurs(stream'[x], F) => Occurs(stream[x], F)
         /\ Once(stream[x], F) => Once(stream'[x], F)
<1>1. stream[x] \in Seq(Frame)
  BY DEF Inductive, TypeOK
<1>2. CASE stream'[x] = stream[x]
  BY <1>2
<1>3. CASE stream[x] # <<>> /\ stream'[x] = Tail(stream[x])
  BY <1>1, <1>3, OccursPop
<1>4. CASE stream'[x] = <<>>
  BY <1>4 DEF Occurs, Once
<1>5. ASSUME NEW f \in Frame, f \notin F, stream'[x] = Append(stream[x], f)
      PROVE  /\ Occurs(stream'[x], F) => Occurs(stream[x], F)
             /\ Once(stream[x], F) => Once(stream'[x], F)
  BY <1>1, <1>5, OccursPush
<1> QED
  BY <1>2, <1>3, <1>4, <1>5

LEMMA Fades ==
  ASSUME Inductive, NEW a \in Peer, NEW b \in Peer, Pair(a, b),
         \A x \in {a, b} :
           \/ stream'[x] = stream[x]
           \/ stream[x] # <<>> /\ stream'[x] = Tail(stream[x])
           \/ stream'[x] = <<>>
           \/ \E f \in Frame : Beside(f, a, b) /\ stream'[x] = Append(stream[x], f),
         \A kind \in {"offer", "answer"} : /\ Posted(a, b, kind)' => Posted(a, b, kind)
                                           /\ Posted(b, a, kind)' => Posted(b, a, kind),
         conn'[a] = "live" => conn[a] = "live",
         conn'[b] \in {"live", "lost"} => conn[b] \in {"live", "lost"},
         \A x, y \in {a, b} :
           \/ links'[x][y] = NoLink
           \/ /\ links[x][y] # NoLink /\ links'[x][y] # NoLink
              /\ links'[x][y].offers = links[x][y].offers
              /\ links'[x][y].step = links[x][y].step,
         links[a][b] # NoLink /\ links'[a][b] = NoLink =>
           /\ ~(conn'[a] = "live" /\ conn'[b] \in {"live", "lost"})
           /\ ~Unread(b, a, "answer")'
  PROVE  Pair(a, b)' /\ (Courts(a, b)' => Courts(a, b))
<1>1. /\ Occurs(stream'[a], Arrivals(b)) => Occurs(stream[a], Arrivals(b))
      /\ Once(stream'[a], Arrivals(b))
  <2>1. \/ stream'[a] = stream[a]
        \/ stream[a] # <<>> /\ stream'[a] = Tail(stream[a])
        \/ stream'[a] = <<>>
        \/ \E f \in Frame : f \notin Arrivals(b) /\ stream'[a] = Append(stream[a], f)
    BY DEF Beside
  <2> HIDE DEF Arrivals
  <2> QED
    BY <2>1, NoMore DEF Pair, Single
<1>2. ASSUME NEW kind \in {"offer", "answer"}, NEW x \in {a, b}, NEW y \in {a, b}
      PROVE  /\ Unread(x, y, kind)' => Unread(x, y, kind)
             /\ Once(stream[y], Signals(x, {kind})) => Once(stream'[y], Signals(x, {kind}))
  <2>1. \/ stream'[y] = stream[y]
        \/ stream[y] # <<>> /\ stream'[y] = Tail(stream[y])
        \/ stream'[y] = <<>>
        \/ \E f \in Frame : f \notin Signals(x, {kind}) /\ stream'[y] = Append(stream[y], f)
    BY DEF Beside
  <2> QED
    BY <2>1, NoMore DEF Unread
<1>3. \A kind \in {"offer", "answer"} :
        /\ Unread(a, b, kind)' => Unread(a, b, kind)
        /\ Unread(b, a, kind)' => Unread(b, a, kind)
        /\ Once(stream'[b], Signals(a, {kind}))
  BY <1>2 DEF Pair, Single
<1>4. /\ Coming(a, b, "offer")' => Coming(a, b, "offer")
      /\ Coming(a, b, "answer")' => Coming(a, b, "answer")
      /\ Coming(b, a, "answer")' => Coming(b, a, "answer")
  BY <1>3 DEF Coming
<1>5. \A kind \in {"offer", "answer"} : ~(Posted(a, b, kind) /\ Unread(a, b, kind))'
  BY <1>3 DEF Pair, Single
<1>6. /\ \/ links'[a][b] = NoLink
         \/ /\ links[a][b] # NoLink /\ links'[a][b] # NoLink
            /\ links'[a][b].offers = links[a][b].offers
            /\ links'[a][b].step = links[a][b].step
      /\ \/ links'[b][a] = NoLink
         \/ /\ links[b][a] # NoLink /\ links'[b][a] # NoLink
            /\ links'[b][a].offers = links[b][a].offers
            /\ links'[b][a].step = links[b][a].step
  OBVIOUS
<1>7. Holds(a, b)'
  BY <1>3, <1>4, <1>6 DEF Pair, Holds, Answers
<1> QED
  BY <1>1, <1>3, <1>4, <1>5, <1>6, <1>7, Subsides

CourtStep(a, b) == Pair(a, b)' /\ (Courts(a, b)' => Courts(a, b))

LEMMA AllFade ==
  ASSUME CourtInv, PostsTraced', \A a \in Peer : Traced(a)',
         \A a, b \in Peer : Ends(links'[a][b]),
         \A a, b \in Peer : a # b => CourtStep(a, b)
  PROVE  CourtInv'
BY DEF CourtInv, CourtStep

LEMMA BornStay ==
  ASSUME Steady, MeshTypeOK, PostsTraced, posts' \subseteq posts PROVE PostsTraced'
BY DEF Steady, PostsTraced, MeshTypeOK, Post

\* A page that is closed, or whose departure is told.
LEMMA GoneCourt ==
  ASSUME Inductive, Inductive', MeshInv, CourtInv, NEW p \in Peer, Close(p) \/ Depart(p)
  PROVE  CourtInv'
<1>1. PICK f : f = [type |-> "peer-left", peer |-> p]
  OBVIOUS
<1>2. /\ Disconnect(p) \/ Leave(p)
      /\ UNCHANGED posts
      /\ \A x \in Peer \ {p} : conn'[x] = conn[x]
  BY DEF Close, Depart, Disconnect, Leave, meshVars, Inductive, TypeOK
<1>3. Steady
  BY <1>2, RoomStepSteady DEF RoomStep
<1>4. f \in Frame /\ \A a, b \in Peer : Beside(f, a, b)
  BY <1>1 DEF Frame, Left, Beside, Arrivals, Signals
<1>5. ASSUME NEW x \in Peer
      PROVE  \/ stream'[x] = stream[x]
             \/ stream'[x] = <<>>
             \/ stream'[x] = Append(stream[x], f) /\ conn'[p] = "gone"
  <2>1. CASE Disconnect(p)
    BY <2>1 DEF Disconnect, Inductive, TypeOK
  <2>2. CASE Leave(p)
    <3>1. \E r \in Room : stream' = Announced(Members(r) \ {p}, f)
      BY <1>1, <2>2, LeaveEffect DEF Inductive
    <3>2. conn'[p] = "gone"
      BY <2>2 DEF Leave, Inductive, TypeOK
    <3> QED
      BY <3>1, <3>2 DEF Announced
  <2> QED
    BY <1>2, <2>1, <2>2
<1>6. \A a \in Peer : Traced(a)'
  <2>1. ASSUME NEW a \in Peer PROVE Traced(a)'
    <3>1. Traced(a)
      BY DEF CourtInv
    <3>2. f.type = "peer-left" /\ f.peer = p
      BY <1>1
    <3> QED
      BY <1>3, <1>4, <1>5, <3>1, <3>2, TracedStays
  <2> QED
    BY <2>1
<1>7. PostsTraced'
  BY <1>2, <1>3, BornStay DEF CourtInv, MeshInv
<1>8. ASSUME NEW a \in Peer, NEW b \in Peer, a # b PROVE CourtStep(a, b)
  <2>1. Pair(a, b)
    BY <1>8 DEF CourtInv
  <2>2. \A x \in {a, b} :
           \/ stream'[x] = stream[x]
           \/ stream[x] # <<>> /\ stream'[x] = Tail(stream[x])
           \/ stream'[x] = <<>>
           \/ \E g \in Frame : Beside(g, a, b) /\ stream'[x] = Append(stream[x], g)
    BY <1>4, <1>5
  <2>3. \A kind \in {"offer", "answer"} : /\ Posted(a, b, kind)' => Posted(a, b, kind)
                                          /\ Posted(b, a, kind)' => Posted(b, a, kind)
    BY <1>2 DEF Posted
  <2>4. /\ conn'[a] = "live" => conn[a] = "live"
        /\ conn'[b] \in {"live", "lost"} => conn[b] \in {"live", "lost"}
    BY DEF Close, Depart, Disconnect, Leave, Inductive, TypeOK
  <2>5. CASE Close(p)
    <3>1. /\ \A x, y \in Peer : links'[x][y] = IF x = p THEN NoLink ELSE links[x][y]
          /\ stream'[p] = <<>> /\ conn'[p] = "lost"
      BY <2>5 DEF Close, Disconnect, NoLinks, MeshInv, MeshTypeOK, Inductive, TypeOK
    <3>2. \A kind, x : ~Occurs(<<>>, Signals(x, {kind}))
      BY DEF Occurs
    <3>3. /\ \A x, y \in {a, b} :
               \/ links'[x][y] = NoLink
               \/ /\ links[x][y] # NoLink /\ links'[x][y] # NoLink
                  /\ links'[x][y].offers = links[x][y].offers
                  /\ links'[x][y].step = links[x][y].step
          /\ links[a][b] # NoLink /\ links'[a][b] = NoLink =>
               /\ ~(conn'[a] = "live" /\ conn'[b] \in {"live", "lost"})
               /\ ~Unread(b, a, "answer")'
      BY <3>1, <3>2 DEF Unread
    <3> QED
      BY <2>1, <2>2, <2>3, <2>4, <3>3, Fades DEF CourtStep
  <2>6. CASE Depart(p)
    <3>1. links' = links
      BY <2>6 DEF Depart, meshVars
    <3> QED
      BY <2>1, <2>2, <2>3, <2>4, <3>1, Fades DEF CourtStep
  <2> QED
    BY <2>5, <2>6
<1>9. \A a, b \in Peer : links'[a][b] \in {links[a][b], NoLink}
  BY DEF Close, Depart, meshVars, NoLinks, MeshInv, MeshTypeOK
<1>10. \A a, b \in Peer : Ends(links'[a][b])
  BY <1>9 DEF Ends, CourtInv
<1> QED
  BY <1>6, <1>7, <1>8, <1>10, AllFade

\* A candidate is found, a request fails, or nothing happens.
LEMMA QuietCourt ==
  ASSUME Inductive, Inductive', MeshInv, CourtInv, UNCHANGED vars, PostsTraced',
         \A x, y \in Peer, kind \in {"offer", "answer"} : Posted(x, y, kind)' => Posted(x, y, kind),
         \A x, y \in Peer : /\ links'[x][y] = NoLink <=> links[x][y] = NoLink
                            /\ links[x][y] # NoLink =>
                                 /\ links'[x][y].offers = links[x][y].offers
                                 /\ links'[x][y].step = links[x][y].step
  PROVE  CourtInv'
<1>1. UNCHANGED <<stream, conn>>
  BY DEF vars
<1>2. \A a \in Peer : Traced(a)'
  BY <1>1 DEF CourtInv, Traced
<1>3. ASSUME NEW a \in Peer, NEW b \in Peer, a # b PROVE CourtStep(a, b)
  <2>1. Pair(a, b)
    BY <1>3 DEF CourtInv
  <2>2. \A kind \in {"offer", "answer"} : /\ Posted(a, b, kind)' => Posted(a, b, kind)
                                          /\ Posted(b, a, kind)' => Posted(b, a, kind)
    OBVIOUS
  <2>3. \A x \in {a, b} : stream'[x] = stream[x]
    BY <1>1
  <2> QED
    BY <1>1, <2>1, <2>2, <2>3, Fades DEF CourtStep
<1>4. \A a, b \in Peer : Ends(links'[a][b])
  BY DEF Ends, CourtInv
<1> QED
  BY <1>2, <1>3, <1>4, AllFade

LEMMA GatherCourt ==
  ASSUME Inductive, Inductive', MeshInv, CourtInv, NEW p \in Peer, NEW q \in Peer, Gather(p, q)
  PROVE  CourtInv'
<1>1. /\ conn[p] = "live" /\ links[p][q] # NoLink /\ links[p][q] \in Link
      /\ UNCHANGED vars /\ posts' = posts \cup Says(p, q, "ice")
      /\ links' = [links EXCEPT ![p] = [links[p] EXCEPT ![q] = [links[p][q] EXCEPT !.sent = TRUE]]]
  BY DEF Gather, Moves, MeshInv, MeshTypeOK
<1>2. PICK new : new = [links[p][q] EXCEPT !.sent = TRUE]
  OBVIOUS
<1>0. new \in Link /\ new.offers = links[p][q].offers /\ new.step = links[p][q].step
  BY <1>1, <1>2 DEF Link
<1>3. \A x, y \in Peer : links'[x][y] = IF x = p /\ y = q THEN new ELSE links[x][y]
  BY <1>1, <1>2 DEF MeshInv, MeshTypeOK
<1>4. \A x, y \in Peer : /\ links'[x][y] = NoLink <=> links[x][y] = NoLink
                         /\ links[x][y] # NoLink =>
                              /\ links'[x][y].offers = links[x][y].offers
                              /\ links'[x][y].step = links[x][y].step
  <2>1. ASSUME NEW x \in Peer, NEW y \in Peer, ~(x = p /\ y = q) PROVE links'[x][y] = links[x][y]
    BY <1>3, <2>1
  <2>2. links'[p][q] = new /\ new # NoLink
    BY <1>0, <1>3
  <2> QED
    BY <1>0, <1>1, <2>1, <2>2
<1>5. \A x, y \in Peer, kind \in {"offer", "answer"} : Posted(x, y, kind)' => Posted(x, y, kind)
  BY <1>1 DEF Posted, Says
<1>6. conn[q] # "unborn"
  <2>1. Wired(p) /\ Known(p, view[p])
    BY <1>1, ViewKnown DEF MeshInv, Connected
  <2> QED
    BY <1>1, <2>1 DEF Wired, Known
<1>7. PostsTraced'
  BY <1>1, <1>6 DEF PostsTraced, Says, CourtInv, vars
<1> QED
  BY <1>1, <1>4, <1>5, <1>7, QuietCourt

LEMMA LoseCourt ==
  ASSUME Inductive, Inductive', MeshInv, CourtInv, NEW m \in posts, Lose(m)
  PROVE  CourtInv'
<1>1. UNCHANGED <<vars, links>> /\ posts' = posts \ {m}
  BY DEF Lose
<1>2. PostsTraced'
  BY <1>1 DEF PostsTraced, CourtInv, vars
<1> QED
  BY <1>1, <1>2, QuietCourt DEF Posted

LEMMA RestCourt ==
  ASSUME Inductive, Inductive', MeshInv, CourtInv, UNCHANGED allVars PROVE CourtInv'
<1>1. UNCHANGED <<vars, links, posts>>
  BY DEF allVars, meshVars
<1>2. PostsTraced'
  BY <1>1 DEF PostsTraced, CourtInv, vars
<1> QED
  BY <1>1, <1>2, QuietCourt DEF Posted

\* A request reaches the registry: what it carries goes from the posts to the stream.
LEMMA DeliverCourt ==
  ASSUME Inductive, Inductive', MeshInv, CourtInv, NEW m \in posts, Deliver(m)
  PROVE  CourtInv'
<1>1. PICK f : f = [type |-> "signal", from |-> m.from, kind |-> m.kind]
  OBVIOUS
<1>2. m \in Post /\ m.from # m.to
  BY DEF MeshInv, MeshTypeOK, NoSelf
<1>3. UNCHANGED <<peers, conn, home, view, links>> /\ posts' = posts \ {m}
  BY DEF Deliver, Relay, vars
<1>4. f \in Frame /\ f.type # "hello" /\ f.type # "peer-left"
  BY <1>1, <1>2 DEF Post, Frame, SignalOut
<1>5. ASSUME NEW x \in Peer
      PROVE  \/ stream'[x] = stream[x]
             \/ stream'[x] = Append(stream[x], f) /\ x = m.to /\ conn[m.from] \in {"live", "lost"}
  <2>1. CASE UNCHANGED vars
    BY <2>1 DEF vars
  <2>2. ASSUME NEW r \in Room, NEW u \in User, Relay(r, u, m.from, m.to, m.kind)
        PROVE  \/ stream'[x] = stream[x]
               \/ stream'[x] = Append(stream[x], f) /\ x = m.to /\ conn[m.from] \in {"live", "lost"}
    <3>1. m.from \in Members(r) /\ stream' = Announced({m.to}, f)
      BY <1>1, <2>2 DEF Relay
    <3> QED
      BY <3>1 DEF Announced, Live, Inductive, Structure, RoomIsItsPeople
  <2> QED
    BY <2>1, <2>2 DEF Deliver
<1>6. Steady
  BY <1>3 DEF Steady
<1>7. \A a \in Peer : Traced(a)'
  <2>1. ASSUME NEW a \in Peer PROVE Traced(a)'
    <3>1. Traced(a)
      BY DEF CourtInv
    <3>2. f.from = m.from /\ m.from \in Peer
      BY <1>1, <1>2 DEF Post
    <3> QED
      BY <1>4, <1>5, <1>6, <3>1, <3>2, TracedStays
  <2> QED
    BY <2>1
<1>8. PostsTraced'
  BY <1>3, <1>6, BornStay DEF CourtInv, MeshInv
<1>9. ASSUME NEW a \in Peer, NEW b \in Peer, NEW kind \in {"offer", "answer"}, a # b
      PROVE  /\ Coming(a, b, kind)' => Coming(a, b, kind)
             /\ Once(stream'[b], Signals(a, {kind}))
             /\ ~(Posted(a, b, kind) /\ Unread(a, b, kind))'
             /\ Unread(a, b, kind)' => Unread(a, b, kind) \/ (m.from = a /\ m.to = b /\ m.kind = kind)
  <2>1. /\ Once(stream[b], Signals(a, {kind}))
        /\ ~(Posted(a, b, kind) /\ Unread(a, b, kind))
    BY <1>9 DEF CourtInv, Pair, Single
  <2>2. Posted(a, b, kind)' <=> Posted(a, b, kind) /\ m # [from |-> a, to |-> b, kind |-> kind]
    BY <1>3 DEF Posted
  <2>3. m = [from |-> a, to |-> b, kind |-> kind] <=> m.from = a /\ m.to = b /\ m.kind = kind
    BY <1>2 DEF Post
  <2>4. f \in Signals(a, {kind}) <=> m.from = a /\ m.kind = kind
    BY <1>1, <1>4 DEF Signals
  <2>5. CASE stream'[b] = stream[b]
    BY <2>1, <2>2, <2>5 DEF Coming, Unread
  <2>6. CASE stream'[b] = Append(stream[b], f) /\ b = m.to
    <3>1. stream[b] \in Seq(Frame)
      BY DEF Inductive, TypeOK
    <3>2. /\ Unread(a, b, kind)' <=> Unread(a, b, kind) \/ f \in Signals(a, {kind})
          /\ (f \in Signals(a, {kind}) => ~Unread(a, b, kind)) => Once(stream'[b], Signals(a, {kind}))
      BY <1>4, <2>1, <2>6, <3>1, OccursPush DEF Unread
    <3>3. f \in Signals(a, {kind}) => Posted(a, b, kind) /\ ~Posted(a, b, kind)'
      BY <2>2, <2>3, <2>4, <2>6 DEF Posted
    <3> QED
      BY <2>1, <2>2, <2>4, <2>6, <3>2, <3>3 DEF Coming
  <2> QED
    BY <1>5, <2>5, <2>6
<1>10. ASSUME NEW a \in Peer, NEW b \in Peer, a # b PROVE CourtStep(a, b)
  <2>1. Pair(a, b)
    BY <1>10 DEF CourtInv
  <2>2. /\ Occurs(stream'[a], Arrivals(b)) => Occurs(stream[a], Arrivals(b))
        /\ Once(stream'[a], Arrivals(b))
    <3>1. f \notin Arrivals(b)
      BY <1>1 DEF Arrivals
    <3> QED
      BY <1>4, <1>5, <2>1, <3>1, NoMore DEF Pair, Single
  <2>3. \/ links[a][b] = NoLink \/ links[a][b] # NoLink
    OBVIOUS
  <2>4. Holds(a, b)'
    <3>1. Coming(a, b, "offer")' => Coming(a, b, "offer")
      BY <1>9, <1>10
    <3>2. /\ Coming(b, a, "answer")' => Coming(b, a, "answer")
          /\ Unread(b, a, "answer")' => Unread(b, a, "answer") \/ (m.from = b /\ m.to = a /\ m.kind = "answer")
      BY <1>9, <1>10
    <3>3. Holds(a, b)
      BY <2>1 DEF Pair
    <3>4. CASE Unread(b, a, "answer")' /\ ~Unread(b, a, "answer")
      <4>1. m.from = b /\ m.to = a /\ m.kind = "answer"
        BY <3>2, <3>4
      <4>2. m = [from |-> b, to |-> a, kind |-> "answer"]
        BY <1>2, <4>1 DEF Post
      <4>3. Coming(b, a, "answer")
        BY <4>2 DEF Coming, Posted
      <4>4. stream'[a] # stream[a]
        BY <3>4 DEF Unread
      <4>5. conn[b] \in {"live", "lost"} /\ conn[a] = "live"
        <5>1. stream'[a] = stream[a] \/ conn[a] = "live"
          BY DEF Deliver, Relay, Announced, Live, vars, Inductive, TypeOK
        <5> QED
          BY <1>5, <4>1, <4>4, <5>1
      <4> QED
        BY <1>3, <3>1, <3>2, <3>3, <4>3, <4>5 DEF Holds
    <3>5. CASE Unread(b, a, "answer")' => Unread(b, a, "answer")
      BY <1>3, <3>1, <3>2, <3>3, <3>5 DEF Holds
    <3> QED
      BY <3>4, <3>5
  <2>5. /\ \A kind \in {"offer", "answer"} :
           /\ Once(stream'[b], Signals(a, {kind}))
           /\ Coming(a, b, kind)' => Coming(a, b, kind)
           /\ ~(Posted(a, b, kind) /\ Unread(a, b, kind))'
        /\ Coming(b, a, "answer")' => Coming(b, a, "answer")
    BY <1>9, <1>10
  <2> QED
    BY <1>3, <2>1, <2>2, <2>4, <2>5, Subsides DEF CourtStep
<1> QED
  BY <1>3, <1>7, <1>8, <1>10, AllFade DEF CourtInv

\* A pair in which a has nothing to offer.
LEMMA Uncourted ==
  ASSUME NEW a \in Peer, NEW b \in Peer, Single(a, b)', ~Courts(a, b)'
  PROVE  CourtStep(a, b)
<1>1. /\ ~Occurs(stream'[a], Arrivals(b))
      /\ ~(links'[a][b] # NoLink /\ links'[a][b].offers)
      /\ ~Coming(a, b, "offer")' /\ ~Coming(b, a, "answer")'
      /\ ~Answers(links[b][a])'
  BY DEF Courts
<1>2. Stages(a, b)'
  BY <1>1 DEF Stages
<1>3. Holds(a, b)'
  BY <1>1 DEF Holds, Coming
<1> QED
  BY <1>2, <1>3 DEF CourtStep, Pair

\* A page goes on with a connection.
LEMMA MoveCourt ==
  ASSUME Inductive, Inductive', MeshInv, CourtInv, NEW p \in Peer, NEW q \in Peer, p # q,
         NEW k, k = links[p][q], NEW new \in Link, NEW sent, k \in Link, Moves(p, q, new, sent),
         new.offers = k.offers, conn[p] = "live",
         \/ /\ k.step = "offering" /\ new.step = "offered"
            /\ sent = {[from |-> p, to |-> q, kind |-> "offer"]}
         \/ /\ k.step \in {"applying", "answering", "draining"} /\ sent = {}
            /\ new.step = "stable" => k.offers
            /\ new.step \in {"answering", "draining", "stable"}
         \/ /\ k.step = "draining" /\ new.step = "stable" /\ ~k.offers
            /\ sent = {[from |-> p, to |-> q, kind |-> "answer"]}
  PROVE  CourtInv'
<1>1. /\ UNCHANGED <<vars, stream, conn>> /\ posts' = posts \cup sent
      /\ \A x, y \in Peer : links'[x][y] = IF x = p /\ y = q THEN new ELSE links[x][y]
  BY DEF Moves, vars, MeshInv, MeshTypeOK
<1>2. \A a \in Peer : Traced(a)'
  BY <1>1 DEF CourtInv, Traced
<1>3. conn[q] # "unborn"
  <2>1. Wired(p) /\ Known(p, view[p])
    BY ViewKnown DEF MeshInv, Connected
  <2> QED
    BY <2>1 DEF Wired, Known
<1>4. PostsTraced'
  BY <1>1, <1>3 DEF PostsTraced, CourtInv
<1>5. \A a, b \in Peer : Ends(links'[a][b])
  BY <1>1 DEF CourtInv, Ends
<1>6. \A x, y, kind : /\ Posted(x, y, kind) => Posted(x, y, kind)'
                      /\ ~(x = p /\ y = q) => (Posted(x, y, kind)' => Posted(x, y, kind))
                      /\ Posted(x, y, kind)' => \/ Posted(x, y, kind)
                                                \/ [from |-> x, to |-> y, kind |-> kind] \in sent
  BY <1>1 DEF Posted
<1>7. \A x, y \in Peer : \A kind : Unread(x, y, kind)' <=> Unread(x, y, kind)
  BY <1>1 DEF Unread
<1>8. ASSUME NEW a \in Peer, NEW b \in Peer, a # b, ~(a = p /\ b = q), ~(a = q /\ b = p)
      PROVE  CourtStep(a, b)
  <2>1. Pair(a, b)
    BY <1>8 DEF CourtInv
  <2>2. \A kind \in {"offer", "answer"} : /\ Posted(a, b, kind)' => Posted(a, b, kind)
                                          /\ Posted(b, a, kind)' => Posted(b, a, kind)
    BY <1>6, <1>8
  <2>3. \A x, y \in {a, b} : \/ links'[x][y] = NoLink
                             \/ /\ links[x][y] # NoLink /\ links'[x][y] # NoLink
                                /\ links'[x][y].offers = links[x][y].offers
                                /\ links'[x][y].step = links[x][y].step
    <3>1. \A x, y \in {a, b} : x # y => links'[x][y] = links[x][y]
      BY <1>1, <1>8
    <3>2. \A x \in {a, b} : links'[x][x] = links[x][x]
      BY <1>1
    <3> QED
      BY <3>1, <3>2
  <2> QED
    BY <1>1, <1>8, <2>1, <2>2, <2>3, Fades DEF CourtStep
<1>9. CASE k.step = "offering" /\ new.step = "offered" /\ sent = {[from |-> p, to |-> q, kind |-> "offer"]}
  <2>1. k.offers /\ new.offers
    BY <1>9 DEF CourtInv, Ends
  <2>2. Pair(p, q) /\ Pair(q, p) /\ Courts(p, q) /\ ~Courts(q, p)
    BY <2>1 DEF CourtInv, Courts
  <2>3. links[q][p] = NoLink /\ ~Coming(p, q, "offer") /\ ~Coming(q, p, "answer")
        /\ ~Occurs(stream[p], Arrivals(q))
    BY <1>9, <2>1, <2>2 DEF Pair, Stages
  <2>4. ~Posted(p, q, "answer")' \/ Posted(p, q, "answer")
    BY <1>6, <1>9
  <2>5. Single(p, q)' /\ Single(q, p)'
    BY <1>1, <1>6, <1>7, <2>2, <2>3, <2>4 DEF Single, Pair, Coming
  <2>6. Coming(q, p, "answer")' => Coming(q, p, "answer")
    BY <1>6, <1>7 DEF Coming
  <2>7. CourtStep(p, q)
    BY <1>1, <1>9, <2>1, <2>2, <2>3, <2>5, <2>6
       DEF CourtStep, Pair, Stages, Holds, Waits, Answers, Unread, Courts
  <2>8. ~Courts(q, p)'
    <3>1. ~Coming(q, p, "offer")' /\ ~Coming(p, q, "answer")'
      BY <1>6, <1>7, <2>2, <2>4 DEF Courts, Coming
    <3> QED
      BY <1>1, <2>1, <2>2, <2>3, <3>1 DEF Courts, Answers
  <2> QED
    BY <1>2, <1>4, <1>5, <1>8, <2>5, <2>7, <2>8, Uncourted, AllFade
<1>10. CASE k.step \in {"applying", "answering", "draining"} /\ sent = {} /\ k.offers
            /\ new.step \in {"answering", "draining", "stable"}
  <2>1. Pair(p, q) /\ Pair(q, p) /\ Courts(p, q) /\ ~Courts(q, p)
    BY <1>10 DEF CourtInv, Courts
  <2>2. \A x, y \in Peer : \A kind : Coming(x, y, kind)' => Coming(x, y, kind)
    BY <1>6, <1>7, <1>10 DEF Coming
  <2>3. Single(p, q)' /\ Single(q, p)'
    BY <1>1, <1>6, <1>7, <1>10, <2>1 DEF Single, Pair
  <2>4. ~Courts(q, p)'
    BY <1>1, <1>10, <2>1, <2>2 DEF Courts, Answers
  <2>5. ~Waits(k) /\ ~Waits(new)
    BY <1>10 DEF Waits
  <2>6. CourtStep(p, q)
    BY <1>1, <1>10, <2>1, <2>2, <2>3, <2>5
       DEF CourtStep, Pair, Stages, Holds, Answers, Unread, Courts
  <2> QED
    BY <1>2, <1>4, <1>5, <1>8, <2>3, <2>4, <2>6, Uncourted, AllFade
<1>11. CASE k.step \in {"applying", "answering", "draining"} /\ sent = {} /\ ~k.offers
            /\ new.step \in {"answering", "draining"}
  <2>1. Pair(p, q) /\ Pair(q, p) /\ Courts(q, p) /\ ~Courts(p, q)
    BY <1>11 DEF CourtInv, Courts, Answers
  <2>2. \A x, y \in Peer : \A kind : Coming(x, y, kind)' => Coming(x, y, kind)
    BY <1>6, <1>7, <1>11 DEF Coming
  <2>3. Single(p, q)' /\ Single(q, p)'
    BY <1>1, <1>6, <1>7, <1>11, <2>1 DEF Single, Pair
  <2>4. ~Courts(p, q)'
    BY <1>1, <1>11, <2>1, <2>2 DEF Courts, Answers
  <2>5. Answers(k) /\ Answers(new) /\ k.step # "stable" /\ new.step # "stable"
    BY <1>11 DEF Answers
  <2>6. CourtStep(q, p)
    BY <1>1, <2>1, <2>2, <2>3, <2>5 DEF CourtStep, Pair, Stages, Holds, Unread, Courts
  <2> QED
    BY <1>2, <1>4, <1>5, <1>8, <2>3, <2>4, <2>6, Uncourted, AllFade
<1>12. CASE k.step = "draining" /\ new.step = "stable" /\ ~k.offers
            /\ sent = {[from |-> p, to |-> q, kind |-> "answer"]}
  <2>1. Pair(p, q) /\ Pair(q, p) /\ Courts(q, p) /\ ~Courts(p, q)
    BY <1>12 DEF CourtInv, Courts, Answers
  <2>2. Answers(k) /\ Answers(new) /\ Waits(links[q][p]) /\ ~Coming(p, q, "answer")
        /\ ~Coming(q, p, "offer") /\ ~Occurs(stream[q], Arrivals(p))
    BY <1>12, <2>1 DEF Pair, Stages, Answers
  <2>3. Posted(p, q, "offer")' => Posted(p, q, "offer")
    BY <1>6, <1>12
  <2>4. Single(p, q)' /\ Single(q, p)'
    BY <1>1, <1>6, <1>7, <2>1, <2>2, <2>3 DEF Single, Pair, Coming
  <2>5. ~Coming(q, p, "offer")' /\ ~Coming(q, p, "answer")' /\ ~Coming(p, q, "offer")'
    BY <1>6, <1>7, <2>1, <2>2, <2>3 DEF Coming, Courts
  <2>6. ~Courts(p, q)'
    BY <1>1, <1>12, <2>1, <2>5 DEF Courts, Answers
  <2>7. CourtStep(q, p)
    BY <1>1, <1>7, <1>12, <2>1, <2>2, <2>4, <2>5
       DEF CourtStep, Pair, Stages, Holds, Answers, Waits, Courts
  <2> QED
    BY <1>2, <1>4, <1>5, <1>8, <2>4, <2>6, <2>7, Uncourted, AllFade
<1> QED
  BY <1>9, <1>10, <1>11, <1>12

LEMMA ProceedCourt ==
  ASSUME Inductive, Inductive', MeshInv, CourtInv, NEW p \in Peer, NEW q \in Peer, Proceed(p, q)
  PROVE  CourtInv'
<1>1. PICK k : k = links[p][q]
  OBVIOUS
<1>2. conn[p] = "live" /\ k # NoLink /\ k \in Link
  BY <1>1 DEF Proceed, MeshInv, MeshTypeOK
<1>3. p # q
  <2>1. Known(p, view[p]) /\ Wired(p)
    BY <1>2, ViewKnown DEF MeshInv, Connected
  <2> QED
    BY <1>1, <1>2, <2>1 DEF Wired, Known
<1>4. /\ \A s \in Steps : LET n == [k EXCEPT !.step = s] IN n \in Link /\ n.offers = k.offers /\ n.step = s
      /\ Drained(k) \in Link /\ Drained(k).offers = k.offers /\ Drained(k).step = "draining"
  BY <1>2 DEF Link, Drained, Steps
<1>5. CASE k.step = "offering"
  <2>1. Moves(p, q, [k EXCEPT !.step = "offered"], {[from |-> p, to |-> q, kind |-> "offer"]})
    BY <1>1, <1>5 DEF Proceed, Says
  <2>2. PICK new : new = [k EXCEPT !.step = "offered"]
    OBVIOUS
  <2>3. new \in Link /\ new.offers = k.offers /\ new.step = "offered"
    BY <1>4, <2>2 DEF Steps
  <2> QED
    BY <1>1, <1>2, <1>3, <1>5, <2>1, <2>2, <2>3, MoveCourt
<1>6. CASE k.step = "applying" \/ k.step = "answering"
  <2>1. PICK new : /\ new = Drained(k) \/ new = [k EXCEPT !.step = "answering"]
                   /\ Moves(p, q, new, {})
    BY <1>1, <1>6 DEF Proceed
  <2>2. new \in Link /\ new.offers = k.offers /\ new.step \in {"answering", "draining"}
    BY <1>4, <2>1 DEF Steps
  <2> QED
    BY <1>1, <1>2, <1>3, <1>6, <2>1, <2>2, MoveCourt
<1>7. CASE k.step = "draining"
  <2>1. Moves(p, q, [k EXCEPT !.step = "stable"],
              IF k.offers THEN {} ELSE {[from |-> p, to |-> q, kind |-> "answer"]})
    BY <1>1, <1>7 DEF Proceed, Says
  <2>2. PICK new : new = [k EXCEPT !.step = "stable"]
    OBVIOUS
  <2>3. new \in Link /\ new.offers = k.offers /\ new.step = "stable"
    BY <1>4, <2>2 DEF Steps
  <2>4. k.offers \in BOOLEAN
    BY <1>2 DEF Link
  <2>5. CASE k.offers
    <3>1. Moves(p, q, new, {})
      BY <2>1, <2>2, <2>5
    <3> QED
      BY <1>1, <1>2, <1>3, <1>7, <2>3, <2>5, <3>1, MoveCourt
  <2>6. CASE ~k.offers
    <3>1. Moves(p, q, new, {[from |-> p, to |-> q, kind |-> "answer"]})
      BY <2>1, <2>2, <2>6
    <3> QED
      BY <1>1, <1>2, <1>3, <1>7, <2>3, <2>6, <3>1, MoveCourt
  <2> QED
    BY <2>5, <2>6
<1> QED
  BY <1>1, <1>5, <1>6, <1>7 DEF Proceed

\* Nobody has a connection to themselves.
LEMMA NextSelfless ==
  ASSUME Inductive', MeshInv', NEW p \in Peer PROVE links'[p][p] = NoLink
<1>1. CASE conn'[p] = "live"
  <2>1. Known(p, view[p])' /\ Wired(p)'
    BY <1>1, NextViewKnown DEF MeshInv, Connected
  <2> QED
    BY <2>1 DEF Wired, Known
<1>2. CASE conn'[p] # "live"
  BY <1>2 DEF MeshInv, Connected, NoLinks
<1> QED
  BY <1>1, <1>2

\* A page reads a frame.
LEMMA HandleCourt ==
  ASSUME Inductive, Inductive', MeshInv, MeshInv', CourtInv, NEW p \in Peer, Handle(p)
  PROVE  CourtInv'
<1>0. PICK f : f = Head(stream[p])
  OBVIOUS
<1>1. /\ conn[p] = "live" /\ stream[p] # <<>> /\ stream[p] \in Seq(Frame)
      /\ stream'[p] = Tail(stream[p])
      /\ links'[p] = Hears(links[p], f, ourSeq[p])
      /\ \A x \in Peer \ {p} : stream'[x] = stream[x] /\ links'[x] = links[x]
      /\ UNCHANGED <<peers, conn, home, posts>>
      /\ links[p] \in [Peer -> Link \cup {NoLink}]
  BY <1>0 DEF Handle, Read, Inductive, TypeOK, MeshInv, MeshTypeOK
<1>2. /\ f \in Frame /\ f = stream[p][1] /\ 1 \in 1..Len(stream[p])
      /\ Heard(p) /\ Greeted(p)
  BY <1>0, <1>1, PopFacts DEF MeshInv, Connected
<1>3. \A a \in Peer : Traced(a)'
  <2>1. Steady
    BY <1>1 DEF Steady
  <2>2. ASSUME NEW a \in Peer PROVE Traced(a)'
    <3>1. Traced(a)
      BY DEF CourtInv
    <3> QED
      BY <1>1, <2>1, <3>1, TracedStays
  <2> QED
    BY <2>2
<1>4. PostsTraced'
  BY <1>1 DEF CourtInv, PostsTraced
<1>5. ASSUME NEW F
      PROVE  /\ Occurs(stream'[p], F) => Occurs(stream[p], F)
             /\ f \in F => Occurs(stream[p], F)
             /\ Once(stream[p], F) => Once(stream'[p], F) /\ (f \in F => ~Occurs(stream'[p], F))
             /\ \A G : NoneAfter(stream[p], F, G) /\ f \in F => ~Occurs(stream'[p], G)
  <2>1. f \in F => Occurs(stream[p], F)
    BY <1>2 DEF Occurs
  <2> QED
    BY <1>0, <1>1, <2>1, OccursPop
<1>6. \A x, y \in Peer, kind \in {"offer", "answer"} :
         /\ Posted(x, y, kind)' <=> Posted(x, y, kind)
         /\ Unread(x, y, kind)' => Unread(x, y, kind)
         /\ y # p => (Unread(x, y, kind)' <=> Unread(x, y, kind))
         /\ Coming(x, y, kind)' => Coming(x, y, kind)
         /\ y # p => (Coming(x, y, kind)' <=> Coming(x, y, kind))
  <2>1. \A x, y \in Peer, kind \in {"offer", "answer"} :
          /\ Unread(x, y, kind)' => Unread(x, y, kind)
          /\ y # p => (Unread(x, y, kind)' <=> Unread(x, y, kind))
    BY <1>1, <1>5 DEF Unread
  <2>2. \A x, y, kind : Posted(x, y, kind)' <=> Posted(x, y, kind)
    BY <1>1 DEF Posted
  <2> QED
    BY <2>1, <2>2 DEF Coming
<1>7. ASSUME NEW a \in Peer, NEW b \in Peer, a # b PROVE Single(a, b)'
  <2>1. Single(a, b)
    BY <1>7 DEF CourtInv, Pair
  <2>2. Once(stream'[a], Arrivals(b))
    BY <1>1, <1>5, <2>1 DEF Single
  <2>3. \A kind \in {"offer", "answer"} : Once(stream'[b], Signals(a, {kind}))
    BY <1>1, <1>5, <2>1 DEF Single
  <2> QED
    BY <1>6, <2>1, <2>2, <2>3 DEF Single
<1>8. \A x \in Peer : links'[x][x] = NoLink
  BY NextSelfless
\* A pair whose connections are as they were, or closed.
<1>9. ASSUME NEW a \in Peer, NEW b \in Peer, a # b,
             \A x, y \in {a, b} : x # y =>
               \/ links'[x][y] = links[x][y]
               \/ links'[x][y] = NoLink
               \/ /\ links[x][y] # NoLink /\ links'[x][y] # NoLink
                  /\ links'[x][y].offers = links[x][y].offers
                  /\ links'[x][y].step = links[x][y].step,
             links[a][b] # NoLink /\ links'[a][b] = NoLink =>
               conn[b] = "gone" /\ ~Unread(b, a, "answer")'
      PROVE  CourtStep(a, b)
  <2>1. Pair(a, b)
    BY <1>9 DEF CourtInv
  <2>2. \A x \in {a, b} : \/ stream'[x] = stream[x]
                          \/ stream[x] # <<>> /\ stream'[x] = Tail(stream[x])
    BY <1>1
  <2>3. \A x, y \in {a, b} :
           \/ links'[x][y] = NoLink
           \/ /\ links[x][y] # NoLink /\ links'[x][y] # NoLink
              /\ links'[x][y].offers = links[x][y].offers
              /\ links'[x][y].step = links[x][y].step
    BY <1>8, <1>9
  <2> QED
    BY <1>1, <1>6, <1>9, <2>1, <2>2, <2>3, Fades DEF CourtStep
\* Nothing is done.
<1>10. ASSUME \A y \in Peer : links'[p][y] = links[p][y] PROVE CourtInv'
  <2>1. \A x, y \in Peer : links'[x][y] = links[x][y]
    BY <1>1, <1>10
  <2>2. \A a, b \in Peer : Ends(links'[a][b])
    BY <2>1 DEF CourtInv
  <2>3. \A a, b \in Peer : a # b => CourtStep(a, b)
    BY <1>9, <2>1
  <2> QED
    BY <1>3, <1>4, <2>2, <2>3, AllFade
<1>11. CASE f.type = "hello"
  <2>1. f \in Hello /\ view[p] = NoView /\ links[p] = NoLinks
    BY <1>2, <1>11 DEF Greeted, Frame, Hello, Joined, Left, SourcesOut, SignalOut
  <2>2. ASSUME NEW q \in Peer PROVE links'[p][q] = NoLink
    <3>1. CASE f.roster[q] = Absent
      BY <1>1, <1>11, <3>1 DEF Hears
    <3>2. CASE f.roster[q] # Absent
      <4>1. f.roster[q].seq < f.seq
        BY <1>2, <1>11, <3>2 DEF CourtInv, Traced
      <4>2. f.roster[q].seq \in Nat /\ f.seq \in Nat
        BY <2>1, <3>2 DEF Hello, View, Info
      <4>3. ~weOffer(f.seq, f.roster[q].seq)
        BY <4>1, <4>2 DEF weOffer
      <4> QED
        BY <1>1, <1>11, <3>2, <4>3 DEF Hears, Add, NoLinks
    <3> QED
      BY <3>1, <3>2
  <2> QED
    BY <1>10, <2>1, <2>2 DEF NoLinks
<1>12. CASE f.type = "sources"
  BY <1>1, <1>10, <1>12 DEF Hears
<1>13. CASE f.type = "peer-left"
  <2>1. PICK e \in Peer : e = f.peer
    BY <1>2, <1>13 DEF Frame, Hello, Joined, Left, SourcesOut, SignalOut
  <2>2. \A y \in Peer : links'[p][y] = IF y = e THEN NoLink ELSE links[p][y]
    BY <1>1, <1>13, <2>1 DEF Hears, Remove
  <2>3. f \in Departures(e)
    BY <1>2, <1>13, <2>1 DEF Departures
  <2>4. Traced(p)
    BY DEF CourtInv
  <2>5. conn[e] = "gone" /\ ~Occurs(stream'[p], Signals(e, Kind))
    BY <1>5, <2>3, <2>4 DEF Traced
  <2>6. ~Unread(e, p, "answer")'
    BY <2>5, KindAssumption DEF Unread, Occurs, Signals
  <2>7. \A a, b \in Peer : Ends(links'[a][b])
    BY <1>1, <2>2 DEF CourtInv, Ends
  <2>8. \A a, b \in Peer : a # b => CourtStep(a, b)
    BY <1>1, <1>9, <2>2, <2>5, <2>6
  <2> QED
    BY <1>3, <1>4, <2>7, <2>8, AllFade
\* One connection changes, in a way of its own.
<1>14. ASSUME NEW e \in Peer, NEW new \in Link, e # p, Ends(new),
              \A y \in Peer : links'[p][y] = IF y = e THEN new ELSE links[p][y],
              CourtStep(p, e), CourtStep(e, p)
       PROVE  CourtInv'
  <2>1. \A a, b \in Peer : Ends(links'[a][b])
    BY <1>1, <1>14 DEF CourtInv
  <2>2. ASSUME NEW a \in Peer, NEW b \in Peer, a # b PROVE CourtStep(a, b)
    <3>1. CASE \A x, y \in {a, b} : x # y => links'[x][y] = links[x][y]
      BY <1>9, <2>2, <3>1
    <3>2. CASE ~(\A x, y \in {a, b} : x # y => links'[x][y] = links[x][y])
      <4>1. (a = p /\ b = e) \/ (a = e /\ b = p)
        BY <1>1, <1>14, <2>2, <3>2
      <4> QED
        BY <1>14, <4>1
    <3> QED
      BY <3>1, <3>2
  <2> QED
    BY <1>3, <1>4, <2>1, <2>2, AllFade
<1>15. CASE f.type = "peer-joined"
  <2>1. PICK e \in Peer : e = f.peer
    BY <1>2, <1>15 DEF Frame, Hello, Joined, Left, SourcesOut, SignalOut
  <2>2. PICK new : new = Open("offering")
    OBVIOUS
  <2>3. new \in Link /\ new # NoLink /\ new.offers /\ new.step = "offering"
    BY <2>2, OpenType DEF Steps
  <2>4. \/ \A y \in Peer : links'[p][y] = links[p][y]
        \/ \A y \in Peer : links'[p][y] = IF y = e THEN new ELSE links[p][y]
    BY <1>1, <1>15, <2>1, <2>2 DEF Hears, Add
  <2>5. CASE \A y \in Peer : links'[p][y] = IF y = e THEN new ELSE links[p][y]
    <3>1. e # p
      BY <1>8, <2>3, <2>5
    <3>2. f \in Arrivals(e)
      BY <1>2, <1>15, <2>1 DEF Arrivals
    <3>3. Occurs(stream[p], Arrivals(e))
      BY <1>5, <3>2
    <3>4. Pair(p, e) /\ Courts(p, e) /\ ~Courts(e, p)
      BY <3>1, <3>3 DEF CourtInv, Courts
    <3>5. /\ ~Occurs(stream'[p], Arrivals(e))
          /\ links[p][e] = NoLink /\ links[e][p] = NoLink
          /\ ~Coming(p, e, "offer") /\ ~Coming(e, p, "answer")
      BY <1>5, <3>2, <3>3, <3>4 DEF Pair, Single, Stages
    <3>6. links'[p][e] = new /\ links'[e][p] = links[e][p]
      BY <1>1, <2>5, <3>1
    <3>7. ~Coming(p, e, "offer")' /\ ~Coming(e, p, "answer")' /\ ~Unread(e, p, "answer")'
      BY <1>6, <3>5 DEF Coming
    <3>8. CourtStep(p, e)
      <4>1. Stages(p, e)'
        BY <2>3, <3>5, <3>6, <3>7 DEF Stages, Waits, Answers
      <4>2. Holds(p, e)'
        BY <2>3, <3>6 DEF Holds
      <4> QED
        BY <1>7, <3>1, <3>4, <4>1, <4>2 DEF CourtStep, Pair
    <3>9. CourtStep(e, p)
      <4>1. /\ stream'[e] = stream[e]
            /\ Coming(e, p, "offer")' => Coming(e, p, "offer")
            /\ Coming(p, e, "answer")' => Coming(p, e, "answer")
        BY <1>1, <1>6, <3>1
      <4>2. ~Answers(new)
        BY <2>3 DEF Answers
      <4>3. ~Courts(e, p)'
        BY <3>4, <3>6, <4>1, <4>2 DEF Courts
      <4> QED
        BY <1>7, <3>1, <4>3, Uncourted
    <3>10. Ends(new)
      BY <2>3 DEF Ends
    <3> QED
      BY <1>14, <2>3, <2>5, <3>1, <3>8, <3>9, <3>10
  <2> QED
    BY <1>10, <2>4, <2>5
<1>16. CASE f.type = "signal"
  <2>1. PICK e \in Peer : e = f.from /\ e # p
    BY <1>2, <1>16 DEF Heard, Told, Frame, Hello, Joined, Left, SourcesOut, SignalOut
  <2>2. f.kind \in {"offer", "answer", "ice"}
    BY <1>2, <1>16, KindAssumption DEF Frame, Hello, Joined, Left, SourcesOut, SignalOut
  <2>3. links'[p] = Signal(links[p], e, f.kind)
    BY <1>1, <1>16, <2>1 DEF Hears
  <2>4. \A kind \in {"offer", "answer"} : f.kind = kind => f \in Signals(e, {kind})
    BY <1>2, <1>16, <2>1 DEF Signals
  <2>5. CASE f.kind = "offer"
    <3>1. PICK new : new = Open("applying")
      OBVIOUS
    <3>2. new \in Link /\ new # NoLink /\ ~new.offers /\ new.step = "applying"
      BY <3>1, OpenType DEF Steps
    <3>3. Unread(e, p, "offer") /\ ~Unread(e, p, "offer")' /\ ~Posted(e, p, "offer")
      <4>1. Once(stream[p], Signals(e, {"offer"})) /\ ~(Posted(e, p, "offer") /\ Unread(e, p, "offer"))
        BY <2>1 DEF CourtInv, Pair, Single
      <4> QED
        BY <1>5, <2>4, <2>5, <4>1 DEF Unread
    <3>4. Pair(e, p) /\ Courts(e, p) /\ ~Courts(p, e) /\ Coming(e, p, "offer")
      BY <2>1, <3>3 DEF CourtInv, Courts, Coming
    <3>5. /\ Waits(links[e][p]) /\ links[p][e] = NoLink /\ ~Coming(p, e, "answer")
          /\ ~Occurs(stream[e], Arrivals(p))
          /\ ~(links[e][p] # NoLink /\ links[e][p].offers /\ links[e][p].step = "offering")
      BY <3>4 DEF Pair, Stages
    <3>6. \A y \in Peer : links'[p][y] = IF y = e THEN new ELSE links[p][y]
      BY <1>1, <2>1, <2>3, <2>5, <3>1, <3>5 DEF Signal
    <3>7. links'[p][e] = new /\ links'[e][p] = links[e][p] /\ stream'[e] = stream[e]
      BY <1>1, <2>1, <3>6
    <3>8. /\ ~Coming(e, p, "offer")' /\ ~Coming(p, e, "answer")' /\ ~Unread(p, e, "answer")'
          /\ Coming(p, e, "offer")' => Coming(p, e, "offer")
          /\ Coming(e, p, "answer")' => Coming(e, p, "answer")
      BY <1>6, <2>1, <3>3, <3>5 DEF Coming
    <3>9. CourtStep(e, p)
      <4>1. Stages(e, p)'
        BY <3>2, <3>5, <3>7, <3>8 DEF Stages
      <4>2. Holds(e, p)'
        BY <1>1, <3>4, <3>7, <3>8 DEF Pair, Holds
      <4> QED
        BY <1>7, <2>1, <3>4, <4>1, <4>2 DEF CourtStep, Pair
    <3>10. CourtStep(p, e)
      <4>1. Occurs(stream'[p], Arrivals(e)) => Occurs(stream[p], Arrivals(e))
        BY <1>5
      <4>2. ~Courts(p, e)'
        BY <3>2, <3>4, <3>7, <3>8, <4>1 DEF Courts
      <4> QED
        BY <1>7, <2>1, <4>2, Uncourted
    <3>11. Ends(new)
      BY <3>2 DEF Ends
    <3> QED
      BY <1>14, <2>1, <3>2, <3>6, <3>9, <3>10, <3>11
  <2>6. CASE f.kind = "answer"
    <3>1. Unread(e, p, "answer") /\ ~Unread(e, p, "answer")' /\ ~Posted(e, p, "answer")
      <4>1. Once(stream[p], Signals(e, {"answer"})) /\ ~(Posted(e, p, "answer") /\ Unread(e, p, "answer"))
        BY <2>1 DEF CourtInv, Pair, Single
      <4> QED
        BY <1>5, <2>4, <2>6, <4>1 DEF Unread
    <3>2. Pair(p, e) /\ Courts(p, e) /\ ~Courts(e, p) /\ Coming(e, p, "answer")
      BY <2>1, <3>1 DEF CourtInv, Courts, Coming
    <3>3. PICK k : k = links[p][e]
      OBVIOUS
    <3>4. /\ k # NoLink /\ k \in Link /\ k.offers /\ k.step = "offered"
          /\ ~Occurs(stream[p], Arrivals(e)) /\ ~Coming(p, e, "offer")
          /\ ~(Answers(links[e][p]) /\ links[e][p].step # "stable")
      BY <1>1, <3>1, <3>2, <3>3 DEF Pair, Stages, Holds, Waits
    <3>5. PICK new : new = [k EXCEPT !.step = "applying"]
      OBVIOUS
    <3>6. new \in Link /\ new # NoLink /\ new.offers /\ new.step = "applying"
      BY <3>4, <3>5 DEF Link, Steps
    <3>7. \A y \in Peer : links'[p][y] = IF y = e THEN new ELSE links[p][y]
      BY <1>1, <2>1, <2>3, <2>6, <3>3, <3>4, <3>5 DEF Signal
    <3>8. links'[p][e] = new /\ links'[e][p] = links[e][p] /\ stream'[e] = stream[e]
      BY <1>1, <2>1, <3>7
    <3>9. /\ ~Coming(e, p, "answer")' /\ ~Coming(p, e, "offer")'
          /\ Coming(e, p, "offer")' => Coming(e, p, "offer")
          /\ Coming(p, e, "answer")' => Coming(p, e, "answer")
          /\ ~Occurs(stream'[p], Arrivals(e))
      BY <1>5, <1>6, <2>1, <3>1, <3>4 DEF Coming
    <3>10. CourtStep(p, e)
      <4>1. Stages(p, e)'
        BY <3>4, <3>6, <3>8, <3>9 DEF Stages
      <4>2. Holds(p, e)'
        BY <3>6, <3>8 DEF Holds
      <4> QED
        BY <1>7, <2>1, <3>2, <4>1, <4>2 DEF CourtStep, Pair
    <3>11. CourtStep(e, p)
      <4>1. ~Answers(new)
        BY <3>6 DEF Answers
      <4>2. ~Courts(e, p)'
        BY <3>2, <3>8, <3>9, <4>1 DEF Courts
      <4> QED
        BY <1>7, <2>1, <4>2, Uncourted
    <3>12. Ends(new)
      BY <3>6 DEF Ends
    <3> QED
      BY <1>14, <2>1, <3>6, <3>7, <3>10, <3>11, <3>12
  <2>7. CASE f.kind = "ice" /\ links[p][e] # NoLink
    <3>1. PICK k : k = links[p][e]
      OBVIOUS
    <3>2. PICK new : /\ new \in {[k EXCEPT !.added = TRUE], [k EXCEPT !.early = TRUE]}
                     /\ links'[p] = [links[p] EXCEPT ![e] = new]
      BY <2>3, <2>7, <3>1 DEF Signal
    <3>3. k \in Link
      BY <1>1, <2>7, <3>1
    <3>4. new \in Link /\ new # NoLink /\ new.offers = k.offers /\ new.step = k.step
      <4>1. ASSUME NEW n \in {[k EXCEPT !.added = TRUE], [k EXCEPT !.early = TRUE]}
            PROVE  n \in Link /\ n.offers = k.offers /\ n.step = k.step
        BY <3>3 DEF Link
      <4> QED
        BY <3>2, <4>1
    <3>5. \A y \in Peer : links'[p][y] = IF y = e THEN new ELSE links[p][y]
      BY <1>1, <3>2
    <3>6. \A a, b \in Peer : Ends(links'[a][b])
      <4>1. Ends(k)
        BY <3>1 DEF CourtInv
      <4>2. Ends(new)
        BY <2>7, <3>1, <3>4, <4>1 DEF Ends
      <4> QED
        BY <1>1, <3>5, <4>2 DEF CourtInv
    <3>7. ASSUME NEW a \in Peer, NEW b \in Peer, a # b PROVE CourtStep(a, b)
      <4>1. \A x, y \in {a, b} :
               \/ links'[x][y] = links[x][y]
               \/ /\ links[x][y] # NoLink /\ links'[x][y] # NoLink
                  /\ links'[x][y].offers = links[x][y].offers
                  /\ links'[x][y].step = links[x][y].step
        BY <1>1, <2>7, <3>1, <3>4, <3>5
      <4> QED
        BY <1>9, <3>7, <4>1
    <3> QED
      BY <1>3, <1>4, <3>6, <3>7, AllFade
  <2>8. CASE f.kind = "ice" /\ links[p][e] = NoLink
    BY <1>10, <2>3, <2>8 DEF Signal
  <2> QED
    BY <2>2, <2>5, <2>6, <2>7, <2>8
<1> QED
  BY <1>2, <1>11, <1>12, <1>13, <1>15, <1>16 DEF Frame, Hello, Joined, Left, SourcesOut, SignalOut

\* A newcomer is told of who is there, and they of the newcomer.
LEMMA ArriveCourt ==
  ASSUME Inductive, Inductive', MeshInv, CourtInv, NEW p \in Peer, NEW r \in Room, NEW u \in User,
         NEW t \in Title, Arrive(p, r, u, t)
  PROVE  CourtInv'
<1> DEFINE g == Greeting(p, r, u, t)
<1>0. PICK f, me : me = Newcomer(r, u, t) /\ f = [type |-> "peer-joined", peer |-> p, info |-> me]
  OBVIOUS
<1>1. /\ Join(p, r, u, t) /\ UNCHANGED <<links, posts>> /\ conn[p] = "unborn"
      /\ conn' = [conn EXCEPT ![p] = "live"]
      /\ stream' = [Announced(Members(r), f) EXCEPT ![p] = <<g>>]
  BY <1>0 DEF Arrive, Join, meshVars
<1>2. me \in Info /\ f \in Frame /\ f.type = "peer-joined" /\ f.peer = p
  BY <1>0, FoundType DEF Inductive, TypeOK, Frame, Joined
<1>3. Steady
  BY <1>1, RoomStepSteady DEF RoomStep
<1>4. /\ g.type = "hello" /\ g.roster = peers[r] /\ g.seq = Found(r, u, t).nextSeq
  BY DEF Greeting
<1> HIDE DEF g
<1>5. stream'[p] = <<g>> /\ \A x \in Peer \ {p} :
        stream'[x] = stream[x] \/ (conn[x] = "live" /\ stream'[x] = Append(stream[x], f))
  BY <1>1 DEF Announced, Live, Inductive, TypeOK
<1>6. \A x \in Peer : stream[x] \in Seq(Frame)
  BY DEF Inductive, TypeOK
<1>7. ASSUME NEW F, g \notin F PROVE ~Occurs(stream'[p], F) /\ Once(stream'[p], F)
  BY <1>5, <1>7, OccursNone
<1>8. \A x, kinds : g \notin Arrivals(x) /\ g \notin Departures(x) /\ g \notin Signals(x, kinds)
  BY <1>4 DEF Arrivals, Departures, Signals
<1>9. ASSUME NEW a \in Peer PROVE Traced(a)'
  <2>1. CASE a # p
    <3>1. Traced(a)
      BY DEF CourtInv
    <3> QED
      BY <1>2, <1>3, <1>5, <2>1, <3>1, TracedStays
  <2>2. CASE a = p
    <3>1. \A b \in Peer : peers[r][b] # Absent => peers[r][b].seq < Found(r, u, t).nextSeq
      <4> SUFFICES ASSUME NEW b \in Peer, peers[r][b] # Absent
                   PROVE  peers[r][b].seq < Found(r, u, t).nextSeq
        OBVIOUS
      <4>1. b \in Members(r)
        BY DEF Members, InView
      <4>2. room[r] # Absent /\ peers[r][b].seq < room[r].nextSeq
        BY <4>1 DEF Inductive, Structure, Sequences, RoomIsItsPeople
      <4> QED
        BY <4>2 DEF Found
    <3>2. \A i \in 1..Len(stream'[p]) : stream'[p][i] = g
      BY <1>5
    <3>3. \A b \in Peer : /\ ~Occurs(stream'[p], Signals(b, Kind)) /\ ~Occurs(stream'[p], Departures(b))
                          /\ NoneAfter(stream'[p], Departures(b), Signals(b, Kind))
      <4>1. \A b \in Peer : NoneAfter(stream'[p], Departures(b), Signals(b, Kind))
        BY <1>8, <3>2 DEF NoneAfter
      <4> QED
        BY <1>7, <1>8, <4>1
    <3> QED
      BY <1>4, <2>2, <3>1, <3>2, <3>3 DEF Traced
  <2> QED
    BY <2>1, <2>2
<1>10. PostsTraced'
  BY <1>1, <1>3, BornStay DEF CourtInv, MeshInv
<1>11. \A a, b \in Peer : Ends(links'[a][b])
  BY <1>1 DEF CourtInv
\* Those the newcomer is nothing to.
<1>12. ASSUME NEW a \in Peer, NEW b \in Peer, a # b, a # p, b # p PROVE CourtStep(a, b)
  <2>1. Pair(a, b)
    BY <1>12 DEF CourtInv
  <2>2. Beside(f, a, b)
    BY <1>2, <1>12 DEF Beside, Arrivals, Signals
  <2>3. \A x \in {a, b} : \/ stream'[x] = stream[x]
                          \/ \E h \in Frame : Beside(h, a, b) /\ stream'[x] = Append(stream[x], h)
    BY <1>2, <1>5, <1>12, <2>2
  <2>4. conn'[a] = conn[a] /\ conn'[b] = conn[b]
    BY <1>1, <1>12 DEF Inductive, TypeOK
  <2>5. \A x, y \in {a, b} : links'[x][y] = links[x][y]
    BY <1>1
  <2>6. \A kind \in {"offer", "answer"} : /\ Posted(a, b, kind)' => Posted(a, b, kind)
                                          /\ Posted(b, a, kind)' => Posted(b, a, kind)
    BY <1>1 DEF Posted
  <2> QED
    BY <2>1, <2>3, <2>4, <2>5, <2>6, Fades DEF CourtStep
\* The newcomer and somebody else.
<1>13. ASSUME NEW x \in Peer, x # p
       PROVE  Pair(x, p)' /\ Pair(p, x)' /\ ~Courts(p, x)'
  <2>1. links'[p][x] = NoLink
    BY <1>1 DEF MeshInv, Connected, NoLinks
  <2>2. links'[x][p] = NoLink
    <3>1. CASE conn[x] = "live"
      <4>1. Wired(x) /\ Known(x, view[x])
        BY <3>1, ViewKnown DEF MeshInv, Connected
      <4> QED
        BY <1>1, <4>1 DEF Wired, Known
    <3>2. CASE conn[x] # "live"
      BY <1>1, <3>2 DEF MeshInv, Connected, NoLinks
    <3> QED
      BY <3>1, <3>2
  <2>3. \A kind : ~Posted(x, p, kind)' /\ ~Posted(p, x, kind)'
    BY <1>1 DEF Posted, CourtInv, PostsTraced
  <2>4. \A kind : ~Unread(x, p, kind)' /\ Once(stream'[p], Signals(x, {kind}))
    BY <1>7, <1>8 DEF Unread
  <2>5. ASSUME NEW kind \in {"offer", "answer"}
        PROVE  ~Unread(p, x, kind)' /\ Once(stream'[x], Signals(p, {kind}))
    <3>1. ~Occurs(stream[x], Signals(p, Kind))
      BY <1>1 DEF CourtInv, Traced
    <3>2. ~Occurs(stream[x], Signals(p, {kind})) /\ Once(stream[x], Signals(p, {kind}))
      BY <3>1, KindAssumption DEF Occurs, Once, Signals
    <3>3. f \notin Signals(p, {kind})
      BY <1>2 DEF Signals
    <3>4. stream'[x] = stream[x] \/ stream'[x] = Append(stream[x], f)
      BY <1>5, <1>13
    <3>5. CASE stream'[x] = Append(stream[x], f)
      <4>1. stream[x] \in Seq(Frame)
        BY <1>6
      <4>2. ~Occurs(stream'[x], Signals(p, {kind})) /\ Once(stream'[x], Signals(p, {kind}))
        BY <1>2, <3>2, <3>3, <3>5, <4>1, OccursPush
      <4> QED
        BY <4>2 DEF Unread
    <3>6. CASE stream'[x] = stream[x]
      BY <3>2, <3>6 DEF Unread
    <3> QED
      BY <3>4, <3>5, <3>6
  <2>6. \A kind \in {"offer", "answer"} : ~Coming(x, p, kind)' /\ ~Coming(p, x, kind)'
    BY <2>3, <2>4, <2>5 DEF Coming
  <2>7. Once(stream'[x], Arrivals(p))
    <3>1. CASE stream'[x] = Append(stream[x], f) /\ conn[x] = "live"
      <4>1. Heard(x)
        BY <3>1 DEF MeshInv, Connected
      <4>2. ~Occurs(stream[x], Arrivals(p)) /\ Once(stream[x], Arrivals(p))
        BY <1>1, <4>1 DEF Heard, Told, Occurs, Once, Arrivals
      <4> QED
        BY <1>2, <1>6, <3>1, <4>2, OccursPush
    <3>2. CASE stream'[x] = stream[x]
      BY <3>2, <1>13 DEF CourtInv, Pair, Single
    <3> QED
      BY <1>5, <1>13, <3>1, <3>2
  <2>8. Once(stream'[p], Arrivals(x)) /\ ~Occurs(stream'[p], Arrivals(x))
    BY <1>7, <1>8
  <2>9. Single(x, p)' /\ Single(p, x)'
    BY <2>3, <2>4, <2>5, <2>7, <2>8 DEF Single
  <2>10. Stages(x, p)'
    BY <2>1, <2>2, <2>6 DEF Stages, Answers
  <2>11. Holds(x, p)' /\ Holds(p, x)'
    BY <2>1, <2>2, <2>4, <2>5, <2>6 DEF Holds, Answers
  <2>12. ~Courts(p, x)'
    BY <2>1, <2>2, <2>6, <2>8 DEF Courts, Answers
  <2>13. Stages(p, x)'
    BY <2>1, <2>2, <2>6, <2>8 DEF Stages, Answers
  <2> QED
    BY <2>9, <2>10, <2>11, <2>12, <2>13 DEF Pair
<1>14. ASSUME NEW a \in Peer, NEW b \in Peer, a # b
       PROVE  Pair(a, b)' /\ ~(Courts(a, b) /\ Courts(b, a))'
  <2>1. CASE a = p
    BY <1>13, <1>14, <2>1
  <2>2. CASE b = p
    BY <1>13, <1>14, <2>2
  <2>3. CASE a # p /\ b # p
    <3>1. CourtStep(a, b) /\ CourtStep(b, a)
      BY <1>12, <1>14, <2>3
    <3> QED
      BY <1>14, <3>1 DEF CourtStep, CourtInv
  <2> QED
    BY <2>1, <2>2, <2>3
<1> QED
  BY <1>9, <1>10, <1>11, <1>14 DEF CourtInv

LEMMA CourtInit == MeshInit => CourtInv
<1> SUFFICES ASSUME MeshInit PROVE CourtInv
  OBVIOUS
<1>1. /\ \A x \in Peer : stream[x] = <<>> /\ links[x] = NoLinks
      /\ \A x, y \in Peer : links[x][y] = NoLink
      /\ posts = {}
  BY DEF MeshInit, Init, NoLinks
<1>2. \A F : ~Occurs(<<>>, F) /\ Once(<<>>, F) /\ \A G : NoneAfter(<<>>, F, G)
  BY DEF Occurs, Once, NoneAfter
<1>3. PostsTraced /\ \A a, b \in Peer : Ends(links[a][b])
  BY <1>1 DEF PostsTraced, Ends
<1>4. \A a \in Peer : Traced(a)
  BY <1>1, <1>2 DEF Traced
<1>5. ASSUME NEW a \in Peer, NEW b \in Peer PROVE Pair(a, b) /\ ~Courts(a, b)
  <2>1. \A x, y \in {a, b} : \A kind : ~Posted(x, y, kind) /\ ~Unread(x, y, kind)
    BY <1>1, <1>2 DEF Posted, Unread
  <2>2. \A x, y \in {a, b} : \A kind : ~Coming(x, y, kind)
    BY <2>1 DEF Coming
  <2>3. \A F : ~Occurs(stream[a], F) /\ Once(stream[a], F) /\ Once(stream[b], F)
    BY <1>1, <1>2
  <2>4. links[a][b] = NoLink /\ links[b][a] = NoLink
    BY <1>1
  <2>5. Single(a, b)
    BY <2>1, <2>3 DEF Single
  <2>6. Stages(a, b) /\ ~Courts(a, b)
    BY <2>2, <2>3, <2>4 DEF Stages, Courts, Answers
  <2>7. Holds(a, b)
    BY <2>1, <2>2, <2>4 DEF Holds, Answers
  <2> QED
    BY <2>5, <2>6, <2>7 DEF Pair
<1> QED
  BY <1>3, <1>4, <1>5 DEF CourtInv

LEMMA CourtInvStep ==
  ASSUME Inductive, MeshInv, CourtInv, [MeshNext]_allVars PROVE CourtInv'
<1>1. Inductive' /\ MeshInv'
  BY MeshInvStep
<1> QED
  BY <1>1, ArriveCourt, GoneCourt, HandleCourt, ProceedCourt, GatherCourt, DeliverCourt,
     LoseCourt, RestCourt DEF MeshNext

LEMMA CourtAlways == MeshSpec => [](Inductive /\ MeshInv /\ CourtInv)
<1>1. MeshInit => Inductive /\ MeshInv /\ CourtInv
  BY MeshInvInit, CourtInit, InitInductive DEF MeshInit
<1>2. Inductive /\ MeshInv /\ CourtInv /\ [MeshNext]_allVars => (Inductive /\ MeshInv /\ CourtInv)'
  BY MeshInvStep, CourtInvStep
<1> QED
  BY <1>1, <1>2, PTL DEF MeshSpec

-----------------------------------------------------------------------------
\* The two ends of a pair never both make an offer, however far the rosters
\* they decide from lag behind the room.
THEOREM NoPairOffersTwice == MeshSpec => []NoGlare
<1>1. Inductive /\ MeshInv => NoGlare
  <2> SUFFICES ASSUME Inductive, MeshInv, NEW p \in Peer, NEW q \in Peer,
                      Linked(p, q), Linked(q, p), links[p][q].offers, links[q][p].offers
               PROVE  FALSE
    BY DEF NoGlare
  <2>1. /\ conn[p] = "live" /\ Greeted(p) /\ Wired(p) /\ Known(p, view[p])
        /\ conn[q] = "live" /\ Greeted(q) /\ Wired(q) /\ Known(q, view[q])
    BY ViewKnown DEF Linked, MeshInv, Connected
  <2>2. view[p] # NoView /\ view[p][q] # Absent /\ view[q] # NoView
    BY <2>1 DEF Linked, Wired
  <2>3. home[p] = home[q]
    BY <2>1, <2>2 DEF Known
  <2>4. ourSeq[p] < ourSeq[q] /\ ourSeq[q] < ourSeq[p]
    BY <2>1, <2>2, <2>3 DEF Linked, Wired, Greeted
  <2> QED
    BY <2>4 DEF MeshInv, MeshTypeOK
<1> QED
  BY <1>1, MeshAlways, PTL

\* A page has connections to people on its roster only.
THEOREM ConnectionsAreToTheRoster == MeshSpec => []ConnectionsAreOnTheRoster
<1>1. MeshInv => ConnectionsAreOnTheRoster
  BY DEF MeshInv, Connected, Wired, Linked, ConnectionsAreOnTheRoster
<1> QED
  BY <1>1, MeshAlways, PTL

\* A connection that is made has every candidate it was given.
THEOREM CandidatesAreTakenUp == MeshSpec => []NothingIsLeftEarly
<1>1. MeshInv => NothingIsLeftEarly
  BY DEF MeshInv, Settled, TakenUp, Linked, NothingIsLeftEarly
<1> QED
  BY <1>1, MeshAlways, PTL

\* An offer always finds no connection, an answer the offer it answers, still
\* waiting, however requests overtake one another and whoever leaves meanwhile:
\* Signal never meets a state its promises would be rejected in.
THEOREM DescriptionsFindTheirState == MeshSpec => []SignalsFindTheirState
<1>1. Inductive /\ MeshInv /\ CourtInv => SignalsFindTheirState
  <2> SUFFICES ASSUME Inductive, MeshInv, CourtInv, NEW p \in Peer,
                      NEW kind \in {"offer", "answer"}, Hearing(p, kind)
               PROVE  LET k == links[p][NextFrame(p).from] IN
                        /\ kind = "offer" => k = NoLink
                        /\ kind = "answer" => k # NoLink /\ k.offers /\ k.step = "offered"
    BY DEF SignalsFindTheirState
  <2>1. PICK f : f = NextFrame(p)
    OBVIOUS
  <2>2. /\ conn[p] = "live" /\ stream[p] # <<>> /\ stream[p] \in Seq(Frame)
        /\ f = Head(stream[p]) /\ f.type = "signal" /\ f.kind = kind
    BY <2>1 DEF Hearing, NextFrame, Inductive, TypeOK
  <2>3. f \in Frame /\ f = stream[p][1] /\ 1 \in 1..Len(stream[p]) /\ Heard(p)
    BY <2>2, PopFacts DEF MeshInv, Connected
  <2>4. PICK e \in Peer : e = f.from /\ e # p
    BY <2>2, <2>3 DEF Heard, Told, Frame, Hello, Joined, Left, SourcesOut, SignalOut
  <2>5. Unread(e, p, kind)
    BY <2>2, <2>3, <2>4 DEF Unread, Occurs, Signals
  <2>6. Coming(e, p, kind)
    BY <2>5 DEF Coming
  <2>7. CASE kind = "offer"
    <3>1. Pair(e, p)
      BY <2>4 DEF CourtInv
    <3> QED
      BY <2>1, <2>4, <2>6, <2>7, <3>1 DEF Pair, Stages
  <2>8. CASE kind = "answer"
    <3>1. Pair(p, e)
      BY <2>4 DEF CourtInv
    <3> QED
      BY <2>1, <2>4, <2>5, <2>6, <2>8, <3>1 DEF Pair, Stages, Holds, Waits
  <2> QED
    BY <2>7, <2>8
<1> QED
  BY <1>1, CourtAlways, PTL
=============================================================================
