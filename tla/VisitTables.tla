---------------------------- MODULE VisitTables ----------------------------
(* The two pages about visits: the charts anyone sees (frontend/src/         *)
(* secret_visits.ts) and the table of the administrator                      *)
(* (secret_admin_visits.ts).  Both load again when a filter changes; answers *)
(* come in any order.  Backends are modelled by what they answer.            *)
EXTENDS Integers, FiniteSets, FiniteSetsExt

CONSTANTS Routes,       \* pages of the site that have been visited
          VisitKinds,   \* kinds of visits
          AnyRoute,     \* no filter
          Visits,       \* how many visits a filter finds, by route and kind
          PageSize,     \* rows of the table (100 in the code)
          MaxLoads,     \* bound on the requests sent
          Nothing       \* not loaded yet

ASSUME VisitConstants ==
  /\ PageSize \in Nat \ {0} /\ MaxLoads \in Nat /\ AnyRoute \notin Routes
  /\ Visits \in [(Routes \cup {AnyRoute}) \X (VisitKinds \cup {AnyRoute}) -> Nat]

VARIABLES route, visitKind, offset,     \* the filter and, for the table, its place
          loads, loadId,                \* requests in flight, and the last one's id
          rows,                         \* what is shown, by the filter it answers
          failed,                       \* the load whose error is shown
          prev, next,                   \* the buttons of the table
          logScales, charts             \* the scale chosen, and the scale drawn

visitVars == <<route, visitKind, offset, loads, loadId, rows, failed, prev, next,
               logScales, charts>>

NoFailure == [of |-> 0, body |-> FALSE]
Scaled == {"route", "static", "robot"}
Filter == [route |-> route, kind |-> visitKind, offset |-> offset]

\* load, of either page: the request goes with the filter of this moment.
Load ==
  /\ loadId < MaxLoads /\ loadId' = loadId + 1
  /\ loads' = loads \cup {[id |-> loadId', asks |-> Filter', body |-> FALSE]}

(* The charts. *)

ChooseRoute(r) ==
  /\ r # route /\ route' = r /\ UNCHANGED <<visitKind, offset>> /\ Load
  /\ UNCHANGED <<rows, failed, prev, next, logScales, charts>>

\* render: every chart anew, in the scale its button says; the panels of noise
\* only when there is any.
ChartsAnswered(l, noise) ==
  /\ loads' = loads \ {l}
  /\ IF l.id # loadId THEN UNCHANGED <<rows, failed, charts>>
     ELSE /\ rows' = l.asks /\ failed' = NoFailure
          /\ charts' = [k \in noise \cup {"route"} |-> logScales[k]]
  /\ UNCHANGED <<route, visitKind, offset, loadId, prev, next, logScales>>

ChartsFailed(l) ==
  /\ loads' = loads \ {l}
  /\ failed' = IF l.id = loadId THEN [of |-> l.id, body |-> FALSE] ELSE failed
  /\ UNCHANGED <<route, visitKind, offset, loadId, rows, prev, next, logScales, charts>>

\* wireScale: the button of a chart that is mounted.
ToggleScale(k) ==
  /\ k \in DOMAIN charts /\ logScales' = [logScales EXCEPT ![k] = ~@]
  /\ charts' = [charts EXCEPT ![k] = logScales'[k]]
  /\ UNCHANGED <<route, visitKind, offset, loads, loadId, rows, failed, prev, next>>

ChartsInit ==
  /\ route = AnyRoute /\ visitKind = AnyRoute /\ offset = 0
  /\ loads = {[id |-> 1, asks |-> Filter, body |-> FALSE]} /\ loadId = 1
  /\ rows = Nothing /\ failed = NoFailure /\ prev = FALSE /\ next = FALSE
  /\ logScales = [k \in Scaled |-> TRUE] /\ charts = [k \in {} |-> TRUE]

ChartsNext ==
  \/ \E r \in Routes \cup {AnyRoute} : ChooseRoute(r)
  \/ \E l \in loads : ChartsFailed(l) \/ \E noise \in SUBSET {"static", "robot"} :
       ChartsAnswered(l, noise)
  \/ \E k \in Scaled : ToggleScale(k)

(* The table. *)

Found(f) == Visits[f.route, f.kind]

\* Mutant of Narrow: the place in the table is kept.
NarrowHere(r, k) ==
  /\ <<r, k>> # <<route, visitKind>> /\ route' = r /\ visitKind' = k
  /\ UNCHANGED offset /\ Load /\ prev' = FALSE /\ next' = FALSE
  /\ UNCHANGED <<rows, failed, logScales, charts>>

\* A chip of a kind, a page in a row, or the filter cleared.
Narrow(r, k) ==
  /\ <<r, k>> # <<route, visitKind>> /\ route' = r /\ visitKind' = k
  /\ offset' = 0 /\ Load /\ prev' = FALSE /\ next' = FALSE
  /\ UNCHANGED <<rows, failed, logScales, charts>>

Turn(to) ==
  /\ offset' = to /\ UNCHANGED <<route, visitKind>> /\ Load
  /\ prev' = FALSE /\ next' = FALSE
  /\ UNCHANGED <<rows, failed, logScales, charts>>
TurnBack == prev /\ Turn(Max({0, offset - PageSize}))
TurnOn == next /\ Turn(offset + PageSize)

TableAnswered(l) ==
  /\ ~l.body /\ loads' = loads \ {l}
  /\ IF l.id # loadId THEN UNCHANGED <<rows, failed, prev, next>>
     ELSE /\ rows' = l.asks /\ failed' = NoFailure
          /\ prev' = (l.asks.offset > 0)
          /\ next' = (l.asks.offset + PageSize < Found(l.asks))
  /\ UNCHANGED <<route, visitKind, offset, loadId, logScales, charts>>

\* An error's body is awaited after the id was checked, and then written over
\* whatever the table shows.
TableRefused(l) ==
  /\ ~l.body
  /\ loads' = (loads \ {l}) \cup (IF l.id = loadId THEN {[l EXCEPT !.body = TRUE]} ELSE {})
  /\ UNCHANGED <<route, visitKind, offset, loadId, rows, failed, prev, next,
                 logScales, charts>>

TableFailed(l) ==
  /\ loads' = loads \ {l}
  /\ IF l.body \/ l.id = loadId
     THEN failed' = [of |-> l.id, body |-> l.body] /\ rows' = Nothing
     ELSE UNCHANGED <<rows, failed>>
  /\ UNCHANGED <<route, visitKind, offset, loadId, prev, next, logScales, charts>>

TableInit ==
  /\ route = AnyRoute /\ visitKind = AnyRoute /\ offset = 0
  /\ loads = {[id |-> 1, asks |-> Filter, body |-> FALSE]} /\ loadId = 1
  /\ rows = Nothing /\ failed = NoFailure /\ prev = FALSE /\ next = FALSE
  /\ logScales = [k \in {} |-> TRUE] /\ charts = [k \in {} |-> TRUE]

TableNext ==
  \/ \E r \in {route, AnyRoute} \cup (IF rows = Nothing THEN {} ELSE Routes) : Narrow(r, visitKind)
  \/ \E k \in VisitKinds \cup {AnyRoute} : Narrow(route, k)
  \/ TurnBack \/ TurnOn
  \/ \E l \in loads : TableAnswered(l) \/ TableRefused(l) \/ TableFailed(l)

\* Whatever order the answers come in, what is shown once the last one is there
\* is of the filter that is set, or that request's own error (secret_visits.ts:
\* "the stale response could win the race and clobber the freshly-rendered
\* charts"; secret_admin_visits.ts: "Guards against a slow fetch landing after a
\* newer one").
NewestLoadIsShown ==
  (\A l \in loads : l.id # loadId) => rows = Filter \/ failed.of = loadId

\* The table's exception: a refusal that was the newest when it came, and whose
\* body came after another request had been sent.
LateRefusal == failed.body /\ failed.of # loadId

\* A chart is drawn in the scale its button says.
ChartsAreScaled == \A k \in DOMAIN charts : charts[k] = logScales[k]

\* The table is never turned past its end: there are rows at its offset, for
\* any filter chosen on the way.
OffsetIsInTheTable == offset = 0 \/ offset < Found(Filter)
=============================================================================
