---------------------------- MODULE CronEngine ----------------------------
(* The cron engine of frontend/src/secret_cron.ts, of which secret_time.ts   *)
(* holds a copy: which expressions parse, the times they name, the search    *)
(* for the next runs, and the boxes of the builder.  A token is a number     *)
(* already (JAN and MON are aliases); every way of not parsing is one error. *)
(* The calendar is small, and counts seconds from its first midnight.        *)
EXTENDS Integers, Sequences, FiniteSets, FiniteSetsExt, SequencesExt

CONSTANTS CronMonths,   \* the lengths of the months
          CronWeek,     \* days of a week (7)
          CronHours,    \* hours of a day (24)
          CronMinutes,  \* minutes of an hour (60)
          CronSeconds,  \* seconds of a minute (60)
          CronYears,    \* how far the search goes before its guard ends it
          CronCount     \* runs that are listed (6)

ASSUME CronConstants ==
  /\ CronMonths \in Seq(Nat \ {0}) /\ CronMonths # <<>>
  /\ {CronWeek, CronHours, CronMinutes, CronSeconds, CronYears, CronCount} \subseteq Nat \ {0}

FieldOf == [second |-> [low |-> 0, high |-> CronSeconds - 1],
            minute |-> [low |-> 0, high |-> CronMinutes - 1],
            hour   |-> [low |-> 0, high |-> CronHours - 1],
            dom    |-> [low |-> 1, high |-> Max(ToSet(CronMonths))],
            month  |-> [low |-> 1, high |-> Len(CronMonths)],
            dow    |-> [low |-> 0, high |-> CronWeek - 1]]

\* fieldsFor
FieldsFor(secs) ==
  (IF secs THEN <<"second">> ELSE <<>>) \o <<"minute", "hour", "dom", "month", "dow">>

(* A part is *, a or a-b, with a step or none (0); a field is a set of parts. *)
Parts == [star : BOOLEAN, lo : Int, hi : Int, step : Int]
Fields == SUBSET Parts
AnyField == {[star |-> TRUE, lo |-> 0, hi |-> 0, step |-> 0]}
At(v) == {[star |-> FALSE, lo |-> v, hi |-> v, step |-> 0]}

Macros == [yearly  |-> <<At(0), At(0), At(1), At(1), AnyField>>,
           monthly |-> <<At(0), At(0), At(1), AnyField, AnyField>>,
           weekly  |-> <<At(0), At(0), AnyField, AnyField, At(0)>>,
           daily   |-> <<At(0), At(0), AnyField, AnyField, AnyField>>,
           hourly  |-> <<At(0), AnyField, AnyField, AnyField, AnyField>>]

\* An expression is a macro (no fields) or fields (no macro).
NoMacro == ""
Exprs == [macro : {NoMacro} \cup DOMAIN Macros, fields : Seq(Fields)]
Expanded(e, secs) ==
  IF e.macro \in DOMAIN Macros THEN (IF secs THEN <<At(0)>> ELSE <<>>) \o Macros[e.macro]
  ELSE e.fields

\* parseField: Sunday is 0 and 7, at either end of a range.
Ends(p, n) ==
  LET day(v) == IF n = "dow" /\ v = CronWeek THEN 0 ELSE v
  IN IF p.star THEN FieldOf[n] ELSE [low |-> day(p.lo), high |-> day(p.hi)]

PartParses(p, n) ==
  /\ p.step >= 0
  /\ FieldOf[n].low <= Ends(p, n).low /\ Ends(p, n).high <= FieldOf[n].high
  /\ Ends(p, n).low <= Ends(p, n).high

Stepped(p, n) ==
  LET e == Ends(p, n) IN
  {v \in e.low..e.high : (v - e.low) % (IF p.step = 0 THEN 1 ELSE p.step) = 0}

\* parseCron: whether an expression parses, and what it then is.
Parses(e, secs) ==
  LET fs == Expanded(e, secs)  ns == FieldsFor(secs) IN
  /\ Len(fs) = Len(ns)
  /\ \A i \in DOMAIN fs : fs[i] # {} /\ \A p \in fs[i] : PartParses(p, ns[i])

Parsed(e, secs) ==
  LET fs == Expanded(e, secs)  ns == FieldsFor(secs)
      field(n) == fs[CHOOSE i \in DOMAIN ns : ns[i] = n]
  IN [n \in ToSet(ns) |-> [values |-> UNION {Stepped(p, n) : p \in field(n)},
                           restricted |-> field(n) # AnyField]]

(* The calendar. *)
HourLen == CronMinutes * CronSeconds
DayLen == CronHours * HourLen
MonthStart[m \in 1..Len(CronMonths) + 1] ==
  IF m = 1 THEN 0 ELSE MonthStart[m - 1] + CronMonths[m - 1]
YearDays == MonthStart[Len(CronMonths) + 1]
CronEnd == CronYears * YearDays * DayLen

DayOfYear(t) == (t \div DayLen) % YearDays
MonthOn == [d \in 0..YearDays - 1 |->
             CHOOSE m \in DOMAIN CronMonths : MonthStart[m] <= d /\ d < MonthStart[m + 1]]
MonthOf(t) == MonthOn[DayOfYear(t)]
DateOf(t) == DayOfYear(t) - MonthStart[MonthOf(t)] + 1
WeekdayOf(t) == (t \div DayLen) % CronWeek
HourOf(t) == (t % DayLen) \div HourLen
MinuteOf(t) == (t % HourLen) \div CronSeconds
NextMonth(t) == ((t \div DayLen) - DateOf(t) + 1 + CronMonths[MonthOf(t)]) * DayLen
NextMultiple(t, len) == ((t \div len) + 1) * len

\* dayMatches: with both restricted, either is enough.
DayMatches(c, t) ==
  LET domOk == DateOf(t) \in c.dom.values  dowOk == WeekdayOf(t) \in c.dow.values IN
  IF c.dom.restricted /\ c.dow.restricted THEN domOk \/ dowOk
  ELSE IF c.dom.restricted THEN domOk ELSE c.dow.restricted => dowOk

\* Mutant of Skipped: the month is left for the same day of the next one.
SkippedByDate(c, secs, t) ==
  IF MonthOf(t) \notin c.month.values THEN t + (CronMonths[MonthOf(t)] * DayLen)
  ELSE IF ~DayMatches(c, t) THEN NextMultiple(t, DayLen)
  ELSE IF HourOf(t) \notin c.hour.values THEN NextMultiple(t, HourLen)
  ELSE IF MinuteOf(t) \notin c.minute.values THEN NextMultiple(t, CronSeconds)
  ELSE IF secs /\ (t % CronSeconds) \notin c["second"].values THEN t + 1
  ELSE t

\* nextCronRuns: where the search goes from a time; nowhere when it is a run.
Skipped(c, secs, t) ==
  IF MonthOf(t) \notin c.month.values THEN NextMonth(t)
  ELSE IF ~DayMatches(c, t) THEN NextMultiple(t, DayLen)
  ELSE IF HourOf(t) \notin c.hour.values THEN NextMultiple(t, HourLen)
  ELSE IF MinuteOf(t) \notin c.minute.values THEN NextMultiple(t, CronSeconds)
  ELSE IF secs /\ (t % CronSeconds) \notin c["second"].values THEN t + 1
  ELSE t

NextRuns(c, secs, from) ==
  LET onward(t) == IF secs THEN t + 1 ELSE NextMultiple(t, CronSeconds)
      runs[p \in Nat \X (0..CronCount)] ==
        LET t == p[1]  n == p[2]  to == Skipped(c, secs, t) IN
        IF n = 0 \/ t >= CronEnd THEN <<>>
        ELSE IF to # t THEN runs[<<to, n>>] ELSE <<t>> \o runs[<<onward(t), n - 1>>]
  IN runs[<<onward(from), CronCount>>]

\* describeField: "every n" or a list of values.
Described(vs, n) ==
  LET step == Min(vs \ {Min(vs)}) - Min(vs) IN
  IF /\ Cardinality(vs) > 1 /\ n \notin {"month", "dow"} /\ Min(vs) = FieldOf[n].low
     /\ vs = {v \in Min(vs)..Max(vs) : (v - Min(vs)) % step = 0}
     /\ Max(vs) + step > FieldOf[n].high /\ step > 1
  THEN [every |-> step, only |-> {}] ELSE [every |-> 0, only |-> vs]

\* describeCron: the fields of the day are left out when they are not restricted.
Description(c) == [n \in {f \in DOMAIN c : c[f].restricted} |-> Described(c[n].values, n)]

(* The builder: a box holds the fields typed into it, mostly one. *)
Joined(bs) == [macro |-> NoMacro, fields |-> FlattenSeq([i \in DOMAIN bs |->
                 IF bs[i] = <<>> THEN <<AnyField>> ELSE bs[i]])]
\* syncBuilder
Synced(e, bs) == IF Len(e.fields) = Len(bs) THEN [i \in DOMAIN bs |-> <<e.fields[i]>>] ELSE bs

\* renderCron: the description and the runs, or the error.
Preview(e, secs, now) ==
  IF ~Parses(e, secs) THEN [ok |-> FALSE, now |-> now, says |-> <<>>, runs |-> <<>>]
  ELSE LET c == Parsed(e, secs) IN
       [ok |-> TRUE, now |-> now, says |-> Description(c), runs |-> NextRuns(c, secs, now)]

(* What a schedule means, said without a search. *)
Due(c, secs, t) ==
  /\ MonthOf(t) \in c.month.values /\ HourOf(t) \in c.hour.values
  /\ MinuteOf(t) \in c.minute.values
  /\ (t % CronSeconds) \in (IF secs THEN c["second"].values ELSE {0})
  /\ LET domOk == DateOf(t) \in c.dom.values  dowOk == WeekdayOf(t) \in c.dow.values IN
     IF c.dom.restricted /\ c.dow.restricted THEN domOk \/ dowOk ELSE domOk /\ dowOk

\* The runs listed are the first times at which the schedule is due after the
\* moment they were sought, none skipped by the jumps over months, days and
\* hours; and what the description says of a field names its values.
PreviewIsDue(e, secs, p) ==
  p.ok =>
    LET c == Parsed(e, secs)
        due == {t \in p.now + 1..CronEnd - 1 : Due(c, secs, t)}
    IN /\ ToSet(p.runs) \subseteq due /\ Len(p.runs) = Min({CronCount, Cardinality(due)})
       /\ \A i \in 2..Len(p.runs) : p.runs[i - 1] < p.runs[i]
       /\ \A t \in due \ ToSet(p.runs) : \A r \in ToSet(p.runs) : r < t
       /\ \A n \in DOMAIN p.says :
            c[n].values = IF p.says[n].every = 0 THEN p.says[n].only
                          ELSE {v \in FieldOf[n].low..FieldOf[n].high :
                                  (v - FieldOf[n].low) % p.says[n].every = 0}
=============================================================================
