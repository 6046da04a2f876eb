----------------------------- MODULE CronPage -----------------------------
(* The cron page (frontend/src/secret_cron.ts): an expression, a box for     *)
(* each field, the switch between five and six fields, presets, the preview  *)
(* and the button that copies.                                               *)
EXTENDS CronEngine

CONSTANTS CronTyped,    \* expressions that are typed
          BoxTyped,     \* a box and what is typed into it
          Presets,      \* five fields each
          Nows,         \* when the page is used
          MaxCopies     \* bound on the copies and timers under way

ASSUME CronPageConstants ==
  /\ CronTyped \subseteq Exprs /\ BoxTyped \subseteq (Nat \ {0}) \X Seq(Fields)
  /\ Presets \subseteq Seq(Fields) /\ \A p \in Presets : Len(p) = 5
  /\ Nows \subseteq Nat

VARIABLES cronExpr, boxes, seconds, preview,
          copyLabel, writing, copyTimer,    \* the button, and the last timer set
          oldTimers                         \* timers that cannot be cleared any more

cronVars == <<cronExpr, boxes, seconds, preview>>
copyVars == <<copyLabel, writing, copyTimer, oldTimers>>

\* renderCron after an edit of the expression.
RenderCron(e, bs, secs) ==
  /\ cronExpr' = e /\ seconds' = secs /\ boxes' = Synced(e, bs)
  /\ \E now \in Nows : preview' = Preview(e, secs, now)

TypeExpr(e) == RenderCron(e, boxes, seconds)
PickPreset(p) ==
  RenderCron([macro |-> NoMacro, fields |-> (IF seconds THEN <<At(0)>> ELSE <<>>) \o p], boxes, seconds)

\* An edit of a box; the boxes are left as they are.
TypeBox(i, text) ==
  /\ i \in DOMAIN boxes /\ boxes' = [boxes EXCEPT ![i] = text]
  /\ cronExpr' = Joined(boxes') /\ UNCHANGED seconds
  /\ \E now \in Nows : preview' = Preview(cronExpr', seconds, now)

\* buildBoxes
Empty(secs) == [i \in DOMAIN FieldsFor(secs) |-> <<AnyField>>]

Reframed(e, secs) ==
  IF secs /\ Len(e.fields) = 5 THEN [e EXCEPT !.fields = <<At(0)>> \o @]
  ELSE IF ~secs /\ Len(e.fields) = 6 THEN [e EXCEPT !.fields = Tail(@)] ELSE e

ToggleSeconds == RenderCron(Reframed(cronExpr, ~seconds), Empty(~seconds), ~seconds)

CronInit ==
  /\ cronExpr \in {[macro |-> NoMacro, fields |-> p] : p \in Presets}
  /\ seconds = FALSE /\ boxes = Synced(cronExpr, Empty(FALSE))
  /\ preview \in {Preview(cronExpr, FALSE, now) : now \in Nows}

CronNext ==
  \/ \E e \in CronTyped : TypeExpr(e)
  \/ \E p \in Presets : PickPreset(p)
  \/ \E b \in BoxTyped : TypeBox(b[1], b[2])
  \/ ToggleSeconds

(* The button that copies shares nothing with the rest but the page. *)

CopyInit == copyLabel = "Copy" /\ writing = 0 /\ copyTimer = FALSE /\ oldTimers = 0

\* A click clears the last timer; the answer sets another.
Copy ==
  /\ writing + oldTimers < MaxCopies /\ writing' = writing + 1 /\ copyTimer' = FALSE
  /\ UNCHANGED <<copyLabel, oldTimers>>
Copied ==
  /\ writing > 0 /\ writing' = writing - 1 /\ copyLabel' \in {"Copied!", "Failed"}
  /\ copyTimer' = TRUE /\ oldTimers' = oldTimers + (IF copyTimer THEN 1 ELSE 0)
CopyReset ==
  /\ \/ copyTimer /\ copyTimer' = FALSE /\ UNCHANGED oldTimers
     \/ oldTimers > 0 /\ oldTimers' = oldTimers - 1 /\ UNCHANGED copyTimer
  /\ copyLabel' = "Copy" /\ UNCHANGED writing

CopyNext == Copy \/ Copied \/ CopyReset

\* Asking for seconds keeps the meaning of a schedule, and so does dropping them
\* when they are 0, as the page puts them ("so the meaning is preserved").
SecondsKeepTheMeaning ==
  LET e == Reframed(cronExpr, ~seconds) IN
  preview.ok /\ (seconds => Parsed(cronExpr, TRUE)["second"].values = {0}) =>
    /\ Parses(e, ~seconds)
    /\ \A t \in 0..CronEnd - 1 : Due(Parsed(cronExpr, seconds), seconds, t)
                             <=> Due(Parsed(e, ~seconds), ~seconds, t)

\* The page says one thing: the runs and the words are of the schedule in the
\* expression, with seconds or without, and the boxes hold its fields (not those
\* of a macro).
CronPageAgrees ==
  /\ PreviewIsDue(cronExpr, seconds, preview) /\ SecondsKeepTheMeaning
  /\ preview.ok = Parses(cronExpr, seconds)
  /\ preview.ok /\ cronExpr.macro = NoMacro => Joined(boxes) = cronExpr

\* The button does not stay at its answer, whatever clicks overlap ("reset the
\* button back to "Copied!" forever").
CopyReturns == copyLabel # "Copy" => copyTimer \/ oldTimers > 0 \/ writing > 0
=============================================================================
