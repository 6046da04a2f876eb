----------------------------- MODULE TimePage -----------------------------
(* The time page (frontend/src/secret_time.ts): four panels behind tabs, the *)
(* timer that keeps the relative one honest, and the cron panel, which holds *)
(* a copy of the engine (CronEngine, without seconds).  Times are counted in *)
(* one small unit; what a zone's clock shows is a table.                     *)
EXTENDS CronEngine

CONSTANTS TsTyped,      \* what is typed as a timestamp
          MilliDigits,  \* digits of a timestamp in milliseconds (13)
          MilliPer,     \* milliseconds of a second (1000)
          LastDate,     \* no Date is further from the epoch, in milliseconds
          Zones,        \* what the browser knows of
          ZoneOffset,   \* by zone and instant: its clock minus UTC
          LocalZone, FirstZones,
          WallTimes,    \* dates that are typed
          NoDate,       \* an empty date
          Units,        \* lengths of the relative units, longest first
          TabTyped,     \* expressions typed into the cron panel
          TabBoxTyped,  \* a box of it and what is typed into it
          MaxClock, MaxEdits    \* bounds on the time passing, and on edits

ASSUME TimeConstants ==
  /\ LocalZone \in Zones /\ FirstZones \in Seq(Zones) /\ FirstZones # <<>>
  /\ \A i, j \in DOMAIN FirstZones : FirstZones[i] = FirstZones[j] => i = j
  /\ WallTimes \subseteq Int /\ NoDate \notin WallTimes
  /\ \A z \in Zones : LET known == DOMAIN ZoneOffset[z] IN
       /\ WallTimes \subseteq known /\ known \subseteq Int /\ IsFiniteSet(known)
       /\ ZoneOffset[z] \in [known -> Int]
  /\ Units \in Seq(Nat \ {0}) /\ Units # <<>>
  /\ TabTyped \subseteq Exprs /\ TabBoxTyped \subseteq (1..5) \X Seq(Fields)
  /\ MaxClock \in Nat /\ MaxEdits \in Nat

VARIABLES active, tsOut, dateOut,
          zoneDate, zoneSource, zonesShown, zoneOut,
          clock, relDate, relOut,
          tabExpr, tabBoxes, tabPreview, edits

unixVars == <<tsOut, dateOut>>
zoneVars == <<zoneDate, zoneSource, zonesShown, zoneOut>>
relVars == <<relDate, relOut>>
tabVars == <<tabExpr, tabBoxes, tabPreview>>
timeVars == <<active, unixVars, zoneVars, clock, relVars, tabVars, edits>>

Tabs == {"unix", "tz", "relative", "cron"}

\* A panel is edited only while its tab is shown.
Edit(tab) == active = tab /\ edits < MaxEdits /\ edits' = edits + 1 /\ UNCHANGED <<active, clock>>

ShowTab(t) ==
  /\ t # active /\ active' = t /\ edits < MaxEdits /\ edits' = edits + 1
  /\ UNCHANGED <<unixVars, zoneVars, clock, relVars, tabVars>>

(* Unix timestamps. *)

\* renderTsOut: the number of digits says which unit it is.
TsOut(ts) ==
  LET milli == ts.digits >= MilliDigits
      ms == IF milli THEN ts.value ELSE ts.value * MilliPer
  IN IF ts.text # "number" THEN [kind |-> ts.text, ms |-> 0]
     ELSE IF ms > LastDate \/ -ms > LastDate THEN [kind |-> "range", ms |-> 0]
     ELSE [kind |-> IF milli THEN "milliseconds" ELSE "seconds", ms |-> ms]
TypeTs(ts) ==
  /\ Edit("unix") /\ tsOut' = TsOut(ts) /\ UNCHANGED <<dateOut, zoneVars, relVars, tabVars>>
\* renderDateOut
TypeDate(d) ==
  /\ Edit("unix") /\ dateOut' = d /\ UNCHANGED <<tsOut, zoneVars, relVars, tabVars>>

(* Zones. *)

\* instantFromZonedInput and zoneOffsetMs: the wall time is read as UTC, and
\* corrected by the offset the zone has then.
InstantOf(wall, z) == wall - ZoneOffset[z][wall]

\* renderTz
ZoneOut(wall, z, shownZones) ==
  IF wall = NoDate THEN [ok |-> FALSE, instant |-> 0, zones |-> <<>>]
  ELSE [ok |-> TRUE, instant |-> InstantOf(wall, z), zones |-> shownZones]
RenderTz(wall, z, shownZones) ==
  /\ zoneDate' = wall /\ zoneSource' = z /\ zonesShown' = shownZones
  /\ zoneOut' = ZoneOut(wall, z, shownZones)

OnZones == Edit("tz") /\ UNCHANGED <<unixVars, relVars, tabVars>>
TypeZoneDate(w) == OnZones /\ RenderTz(w, zoneSource, zonesShown)
ChooseSource(z) == OnZones /\ RenderTz(zoneDate, z, zonesShown)
AddZone(z) ==
  OnZones /\ RenderTz(zoneDate, zoneSource,
                      IF z \in ToSet(zonesShown) THEN zonesShown ELSE Append(zonesShown, z))
\* The last zone shown has no button.
RemoveZone(z) ==
  /\ OnZones /\ z \in ToSet(zoneOut.zones) /\ Len(zoneOut.zones) > 1
  /\ RenderTz(zoneDate, zoneSource, RemoveFirst(zonesShown, z))
ZoneNow(w) == OnZones /\ RenderTz(w, LocalZone, zonesShown)

(* Relative time. *)

\* Mutant of Phrase: a time that is past by less than a unit is to come.
PhraseAbs(date, now) ==
  LET diff == date - now  abs == IF diff < 0 THEN -diff ELSE diff
      unit == Units[Min({i \in DOMAIN Units : abs >= Units[i] \/ i = Len(Units)})]
  IN [unit |-> unit, count |-> ((2 * abs) + unit) \div (2 * unit)]

\* renderRelative: the longest unit that fits, rounded.
Phrase(date, now) ==
  LET diff == date - now  abs == IF diff < 0 THEN -diff ELSE diff
      unit == Units[Min({i \in DOMAIN Units : abs >= Units[i] \/ i = Len(Units)})]
  IN [unit |-> unit, count |-> ((2 * diff) + unit) \div (2 * unit)]

RelOut(date, now) ==
  [of |-> date, at |-> now,
   phrase |-> IF date = NoDate THEN [unit |-> 1, count |-> 0] ELSE Phrase(date, now)]

TypeRelative(d) ==
  /\ Edit("relative") /\ relDate' = d /\ relOut' = RelOut(d, clock)
  /\ UNCHANGED <<unixVars, zoneVars, tabVars>>

\* A second passes, and the timer fires.
Second ==
  /\ clock < MaxClock /\ clock' = clock + 1
  /\ relOut' = IF active = "relative" THEN RelOut(relDate, clock') ELSE relOut
  /\ UNCHANGED <<active, unixVars, zoneVars, relDate, tabVars, edits>>

(* The cron panel. *)

OnCron == Edit("cron") /\ UNCHANGED <<unixVars, zoneVars, relVars>>
\* parseCron, nextCronRuns and describeCron of this file: a second copy, of five
\* fields only, which agrees with the engine line by line.
TabParses(e) == Parses(e, FALSE)
TabRuns(e, from) == NextRuns(Parsed(e, FALSE), FALSE, from)
TabSays(e) == Description(Parsed(e, FALSE))
TabPreview(e, now) ==
  IF TabParses(e) THEN [ok |-> TRUE, now |-> now, says |-> TabSays(e), runs |-> TabRuns(e, now)]
  ELSE [ok |-> FALSE, now |-> now, says |-> <<>>, runs |-> <<>>]
RenderTab(e, bs) == tabExpr' = e /\ tabBoxes' = bs /\ tabPreview' = TabPreview(e, clock)
TypeTabExpr(e) == OnCron /\ RenderTab(e, Synced(e, tabBoxes))
TypeTabBox(i, text) ==
  OnCron /\ LET bs == [tabBoxes EXCEPT ![i] = text] IN RenderTab(Joined(bs), bs)

TimeInit ==
  /\ active = "unix" /\ clock = 0 /\ edits = 0
  /\ tsOut = [kind |-> "", ms |-> 0] /\ dateOut \in WallTimes
  /\ zoneDate = dateOut /\ zoneSource = LocalZone /\ zonesShown = FirstZones
  /\ zoneOut = ZoneOut(zoneDate, zoneSource, zonesShown)
  /\ relDate = dateOut /\ relOut = RelOut(relDate, clock)
  /\ tabExpr \in TabTyped /\ Len(tabExpr.fields) = 5
  /\ tabBoxes = Synced(tabExpr, [i \in 1..5 |-> <<AnyField>>])
  /\ tabPreview = TabPreview(tabExpr, clock)

TimeNext ==
  \/ \E t \in Tabs : ShowTab(t)
  \/ \E ts \in TsTyped : TypeTs(ts)
  \/ \E w \in WallTimes \cup {NoDate} : TypeDate(w) \/ TypeZoneDate(w) \/ TypeRelative(w)
  \/ \E w \in WallTimes : ZoneNow(w)
  \/ \E z \in Zones : ChooseSource(z) \/ AddZone(z) \/ RemoveZone(z)
  \/ \E e \in TabTyped : TypeTabExpr(e)
  \/ \E b \in TabBoxTyped : TypeTabBox(b[1], b[2])
  \/ Second

\* A date is shown in each zone once, at the instant when the clock of its own
\* zone shows it, unless that clock changes nearby (within its offset).
ZonesAreTold ==
  zoneOut.ok =>
    /\ zoneOut.zones = zonesShown /\ zonesShown # <<>>
    /\ Cardinality(ToSet(zonesShown)) = Len(zonesShown)
    /\ LET offset == ZoneOffset[zoneSource]
           near == {t \in DOMAIN offset : \E w \in DOMAIN offset :
                      (t - zoneDate) \in {-offset[w], 0, offset[w]}}
       IN zoneOut.instant \in DOMAIN offset /\ Cardinality({offset[t] : t \in near}) = 1 =>
            zoneOut.instant + offset[zoneOut.instant] = zoneDate

\* The phrase is of the date that is typed, never has the past to come or the
\* other way about, and is off by half of its unit at most.
PhraseIsTold ==
  /\ relOut.of = relDate
  /\ relDate # NoDate =>
       LET said == relOut.phrase.count * relOut.phrase.unit  diff == relDate - relOut.at IN
       /\ (2 * (said - diff)) \in -relOut.phrase.unit..relOut.phrase.unit
       /\ (said > 0 => diff > 0) /\ (said < 0 => diff < 0)

\* The runs and the words of the cron panel, and its boxes, are its expression's.
TabAgrees ==
  /\ tabPreview.ok = Parses(tabExpr, FALSE) /\ PreviewIsDue(tabExpr, FALSE, tabPreview)
  /\ tabPreview.ok /\ tabExpr.macro = NoMacro => Joined(tabBoxes) = tabExpr

\* What the panels say of zones, of the time between and of a schedule.
TimeIsTold == ZonesAreTold /\ PhraseIsTold /\ TabAgrees
=============================================================================
