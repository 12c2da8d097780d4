----------------------------- MODULE WebappHistory -----------------------------
(***************************************************************************)
(* The web application's database of readings: what /monitor saves         *)
(* (webapp/routes/api/monitor.js and saveDataToJSON in app.js) and what    *)
(* /api/get finds again (routes/api/getResource.js with BETA set, as       *)
(* app.js:34 always does; routes/api/requestDataByDate.js for today).      *)
(*                                                                         *)
(* A document holds the date, without the time, and the content of the     *)
(* notification, and the collection keeps the order they were saved in.    *)
(* The model also remembers which meter sent it and on which day, which    *)
(* the documents do not hold.                                              *)
(***************************************************************************)
EXTENDS Integers, FiniteSets

CONSTANTS
  Meters,    \* the meters whose notifications arrive
  Days,      \* bound: the days on which they arrive, as dates
  Readings,  \* the contents of the notifications
  Documents  \* bound: how many are saved

Leap(y) == y % 4 = 0 /\ (y % 100 # 0 \/ y % 400 = 0)
MonthLength(y, m) ==
  IF m = 2 THEN IF Leap(y) THEN 29 ELSE 28
  ELSE IF m \in {4, 6, 9, 11} THEN 30 ELSE 31

Date == {d \in [y : 2000..2100, m : 1..12, d : 1..31] : d.d <= MonthLength(d.y, d.m)}

ASSUME ConstantsAssumption == Days \subseteq Date

VARIABLES
  today,     \* the day on which things happen
  database   \* the documents of the collection

vars == <<today, database>>

\* The JavaScript constructor Date(year, monthIndex, day): months count from
\* 0, and a month or a day too large runs over into the next year or month.
JsDate(year, monthIndex, day) ==
  LET y == year + (monthIndex \div 12)
      m == (monthIndex % 12) + 1
      over == day - MonthLength(y, m)
  IN  IF over <= 0 THEN [y |-> y, m |-> m, d |-> day]
      ELSE IF m = 12 THEN [y |-> y + 1, m |-> 1, d |-> over]
      ELSE [y |-> y, m |-> m + 1, d |-> over]

\* Mutated: only the day of the month is kept.
SavedDate_DayOnly(ct) == [y |-> 0, m |-> 0, d |-> JsDate(ct.y, ct.m, ct.d).d]

\* The date /monitor saves for a content instance created on day ct: the
\* month of ct is handed over as a month index.
SavedDate(ct) == JsDate(ct.y, ct.m, ct.d)

Before(a, b) ==
  \/ a.y < b.y
  \/ a.y = b.y /\ a.m < b.m
  \/ a.y = b.y /\ a.m = b.m /\ a.d < b.d

-----------------------------------------------------------------------------
Init == today \in Days /\ database = {}

NextDay ==
  /\ today' \in {day \in Days : Before(today, day)}
  /\ UNCHANGED database

\* /monitor gets a reading and saves a document.  The save may fail: its
\* callback does not look at the error.
Monitor(meter, reading) ==
  /\ Cardinality(database) < Documents
  /\ \/ database' = database \cup {[date |-> SavedDate(today), data |-> reading,
                                    at |-> Cardinality(database) + 1,
                                    meter |-> meter, made |-> today]}
     \/ UNCHANGED database
  /\ UNCHANGED today

\* What /api/get/<ae> answers for a day.  The name of the AE is not used.
Found(ae, day) == {doc \in database : doc.date = day}

Next == NextDay \/ \E meter \in Meters, reading \in Readings : Monitor(meter, reading)

Spec == Init /\ [][Next]_vars

-----------------------------------------------------------------------------
(***************************************************************************)
(* Properties.                                                             *)
(***************************************************************************)

\* Day late does not exist in the month after its own and runs over to the
\* date on which day early of that month is saved.
RunsOverTo(late, early) ==
  /\ early.y = late.y /\ early.m = late.m + 1
  /\ early.d = late.d - MonthLength(early.y, early.m) /\ early.d \in 1..3

\* The month index mixes days up: what was made on January 31 and on February 3
\* is found under one date, March 3 (monitor.js:21).  One answer never mixes any
\* others: two days in it are a 29th to 31st that the next month does not have
\* and one of the first three days of that month.
MixedOnlyAtMonthEnds ==
  \A ae \in Meters, day \in {doc.date : doc \in database} :
    \A a, b \in Found(ae, day) :
      a.made # b.made => RunsOverTo(a.made, b.made) \/ RunsOverTo(b.made, a.made)

-----------------------------------------------------------------------------
(***************************************************************************)
(* What the proofs need besides.                                           *)
(***************************************************************************)

\* Every document was saved with the date of the day it was made.
SavedByDate ==
  /\ today \in Days
  /\ \A doc \in database : doc.made \in Days /\ doc.date = SavedDate(doc.made)

=============================================================================
