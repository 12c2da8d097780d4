------------------------- MODULE WebappHistoryProofs -------------------------
(***************************************************************************)
(* Proofs about WebappHistory, for any set of days, and about DataPage,    *)
(* for any number of polls, documents, users and faults.                   *)
(***************************************************************************)
EXTENDS DataPage, FiniteSetTheorems, TLAPS

\* The date a day is saved under: the same day of the next month, or, if there
\* is none, one of the first three of the month after that.
LEMMA DateIsShifted ==
  ASSUME NEW day \in Date
  PROVE  /\ day.m = 12 => SavedDate(day) = [y |-> day.y + 1, m |-> 1, d |-> day.d]
         /\ (day.m # 12 /\ day.d <= MonthLength(day.y, day.m + 1))
              => SavedDate(day) = [y |-> day.y, m |-> day.m + 1, d |-> day.d]
         /\ day.d > MonthLength(day.y, day.m + 1) /\ day.m # 12
              => /\ day.m + 2 \in 3..12
                 /\ day.d - MonthLength(day.y, day.m + 1) \in 1..3
                 /\ SavedDate(day) = [y |-> day.y, m |-> day.m + 2,
                                      d |-> day.d - MonthLength(day.y, day.m + 1)]
<1>1. day.y \in Int /\ day.m \in 1..12 /\ day.d \in 1..31
  BY DEF Date
<1>2. \A y \in Int : \A m \in Int : MonthLength(y, m) \in 28..31
  BY DEF MonthLength
<1>3. CASE day.m = 12
  <2>1. day.y + (day.m \div 12) = day.y + 1 /\ (day.m % 12) + 1 = 1
    BY <1>1, <1>3
  <2>2. MonthLength(day.y + 1, 1) = 31
    BY DEF MonthLength
  <2>3. day.d - MonthLength(day.y + 1, 1) <= 0
    BY <1>1, <2>2
  <2> QED
    BY <1>3, <2>1, <2>3 DEF SavedDate, JsDate
<1>4. CASE day.m # 12
  <2>1. day.y + (day.m \div 12) = day.y /\ (day.m % 12) + 1 = day.m + 1
    BY <1>1, <1>4
  <2> DEFINE over == day.d - MonthLength(day.y, day.m + 1)
  <2>2. MonthLength(day.y, day.m + 1) \in 28..31 /\ over \in -30..3
    BY <1>1, <1>2
  <2>3. over > 0 => day.m + 1 # 12
    BY <1>1 DEF MonthLength
  <2>4. SavedDate(day) = IF over <= 0 THEN [y |-> day.y, m |-> day.m + 1, d |-> day.d]
                         ELSE IF day.m + 1 = 12 THEN [y |-> day.y + 1, m |-> 1, d |-> over]
                         ELSE [y |-> day.y, m |-> day.m + 2, d |-> over]
    <3>1. day.m + 1 + 1 = day.m + 2
      BY <1>1
    <3> QED
      BY <2>1, <3>1 DEF SavedDate, JsDate
  <2> QED
    BY <1>1, <1>4, <2>2, <2>3, <2>4
<1> QED
  BY <1>3, <1>4

\* Two different days are saved under the same date only if one of them runs
\* over to the other.
LEMMA SameDate ==
  ASSUME NEW a \in Date, NEW b \in Date, SavedDate(a) = SavedDate(b), a # b
  PROVE  RunsOverTo(a, b) \/ RunsOverTo(b, a)
<1>1. /\ a = [y |-> a.y, m |-> a.m, d |-> a.d] /\ b = [y |-> b.y, m |-> b.m, d |-> b.d]
      /\ a.y \in Int /\ b.y \in Int /\ a.m \in 1..12 /\ b.m \in 1..12
      /\ a.d \in 1..31 /\ b.d \in 1..31
  BY DEF Date
<1> DEFINE Shifted(day) == day.m # 12 /\ day.d <= MonthLength(day.y, day.m + 1)
           Over(day)    == day.m # 12 /\ day.d > MonthLength(day.y, day.m + 1)
<1>2. \A y \in Int : \A m \in Int : MonthLength(y, m) \in 28..31
  BY DEF MonthLength
<1>3. \A day \in {a, b} : day.m = 12 \/ Shifted(day) \/ Over(day)
  <2>1. \A day \in {a, b} : MonthLength(day.y, day.m + 1) \in Int
    BY <1>1, <1>2
  <2> QED
    BY <1>1, <2>1
<1>4. \A day \in {a, b} : day.m = 12 => SavedDate(day) = [y |-> day.y + 1, m |-> 1, d |-> day.d]
  BY DateIsShifted
<1>5. \A day \in {a, b} :
        Shifted(day) => SavedDate(day) = [y |-> day.y, m |-> day.m + 1, d |-> day.d]
  BY DateIsShifted
<1>6. \A day \in {a, b} : Over(day) =>
        /\ day.m + 2 \in 3..12 /\ day.d - MonthLength(day.y, day.m + 1) \in 1..3
        /\ SavedDate(day) = [y |-> day.y, m |-> day.m + 2,
                             d |-> day.d - MonthLength(day.y, day.m + 1)]
  BY DateIsShifted
\* A day that runs over meets one that does not.
<1>7. ASSUME NEW late \in {a, b}, NEW early \in {a, b}, Over(late), ~ Over(early),
             SavedDate(late) = SavedDate(early)
      PROVE  RunsOverTo(late, early)
  <2>1. Shifted(early)
    BY <1>1, <1>3, <1>4, <1>6, <1>7
  <2>2. /\ late.y = early.y /\ late.m + 2 = early.m + 1
        /\ late.d - MonthLength(late.y, late.m + 1) = early.d
    BY <1>5, <1>6, <1>7, <2>1
  <2>3. early.m = late.m + 1
    BY <1>1, <2>2
  <2> QED
    BY <1>6, <1>7, <2>2, <2>3 DEF RunsOverTo
<1>8. ~ (Over(a) /\ Over(b))
  <2> SUFFICES ASSUME Over(a), Over(b) PROVE FALSE
    OBVIOUS
  <2>1. a.y = b.y /\ a.m + 2 = b.m + 2
        /\ a.d - MonthLength(a.y, a.m + 1) = b.d - MonthLength(b.y, b.m + 1)
    BY <1>6
  <2>2. a.m = b.m /\ MonthLength(a.y, a.m + 1) \in Int
    BY <1>1, <1>2, <2>1
  <2>3. a.d = b.d
    BY <1>1, <2>1, <2>2
  <2> QED
    BY <1>1, <2>1, <2>2, <2>3
<1>9. Over(a) \/ Over(b)
  <2> SUFFICES ASSUME ~ Over(a), ~ Over(b) PROVE FALSE
    OBVIOUS
  <2>1. a.y = b.y /\ a.m = b.m /\ a.d = b.d
    BY <1>1, <1>3, <1>4, <1>5
  <2> QED
    BY <1>1, <2>1
<1> QED
  BY <1>7, <1>8, <1>9

\* The documents always bear the date /monitor gives the day they were made.
LEMMA DocumentsAreSavedByDate == Spec => []SavedByDate
<1>1. Init => SavedByDate
  BY DEF Init, SavedByDate
<1>2. SavedByDate /\ [Next]_vars => SavedByDate'
  BY DEF SavedByDate, Next, NextDay, Monitor, vars
<1> QED
  BY <1>1, <1>2, PTL DEF Spec

\* Whatever the days meters report on, an answer of /api/get mixes readings of
\* two days only about the end of a month that is longer than the next.
THEOREM AnswersMixOnlyAtMonthEnds == Spec => []MixedOnlyAtMonthEnds
<1>1. SavedByDate => MixedOnlyAtMonthEnds
  BY SameDate, ConstantsAssumption DEF ConstantsAssumption, SavedByDate, MixedOnlyAtMonthEnds, Found
<1> QED
  BY <1>1, DocumentsAreSavedByDate, PTL

-----------------------------------------------------------------------------
(***************************************************************************)
(* The page on top of the database.                                        *)
(***************************************************************************)

\* Whatever browsers and users do, the database is filled as WebappHistory
\* says.
THEOREM PageIsHistory == PageSpec => Spec
<1>1. PageInit => Init
  BY DEF PageInit
<1>2. [PageNext]_allVars => [Next]_vars
  <2> SUFFICES ASSUME [PageNext]_allVars PROVE [Next]_vars
    OBVIOUS
  <2>1. CASE MetersReport
    BY <2>1 DEF MetersReport, Next
  <2>2. CASE \/ Sessions \/ Open \/ PlayOrStop
             \/ \E date \in Choices : ChooseDate(date)
             \/ \E limit \in Limits : SetRange(limit)
             \/ \E i \in 1..Polls : Tick(i) \/ Serve(i) \/ Callback(i)
             \/ UNCHANGED allVars
    BY <2>2 DEF Sessions, Open, PlayOrStop, ChooseDate, SetRange, Tick, Serve, Admit, Query,
                Callback, allVars
  <2> QED
    BY <2>1, <2>2 DEF PageNext
<1> QED
  BY <1>1, <1>2, PTL DEF PageSpec, Spec

\* So what is proved of the database holds under the page too.
COROLLARY PageAnswersMixOnlyAtMonthEnds == PageSpec => []MixedOnlyAtMonthEnds
BY PageIsHistory, AnswersMixOnlyAtMonthEnds, PTL

Answers == {"free", "none", "querying", "docs", "useless"}
PollSet == [date : Choices \cup {NoDate}, answer : Answers, docs : SUBSET database]

\* Documents are numbered in the order they were stored in.
Numbered ==
  /\ IsFiniteSet(database)
  /\ \A doc \in database : doc.at \in 1..Stored

\* The types that the page's properties need.
PageTypeOK ==
  /\ Numbered
  /\ currentDateSelected \in Choices \cup {NoDate}
  /\ polls \in [1..Polls -> PollSet]
  /\ chart \subseteq database

\* A session that is logged in, and one with a poll it was entitled to, has seen
\* all there is.  Only such polls get past the login, and nothing later than
\* what has been seen is in an answer or shown.
SeenInv ==
  /\ PageTypeOK
  /\ seen \in Nat /\ seen <= Stored
  /\ (isAuth \/ entitled # {}) => seen = Stored
  /\ \A i \in 1..Polls : polls[i].answer = "querying" => i \in entitled
  /\ \A i \in 1..Polls : \A doc \in polls[i].docs : doc.at <= seen
  /\ OnlyLoggedInSee

LEMMA MonitorNumbers ==
  ASSUME Numbered, NEW meter \in Meters, NEW reading \in Readings, Monitor(meter, reading)
  PROVE  Numbered' /\ Stored \in Nat /\ Stored' \in Nat /\ Stored <= Stored'
         /\ database \subseteq database'
<1>1. Stored \in Nat
  BY FS_CardinalityType DEF Numbered, Stored
<1>2. CASE UNCHANGED database
  BY <1>1, <1>2 DEF Numbered, Stored
<1>3. ASSUME NEW doc, doc.at = Stored + 1, database' = database \cup {doc}
      PROVE  Numbered' /\ Stored' = Stored + 1
  <2>1. doc \notin database
    BY <1>1, <1>3 DEF Numbered
  <2>2. IsFiniteSet(database') /\ Stored' = Stored + 1
    BY <1>3, <2>1, FS_AddElement DEF Numbered, Stored
  <2> QED
    BY <1>1, <1>3, <2>2 DEF Numbered
<1>4. CASE ~ UNCHANGED database
  <2> DEFINE doc == [date |-> SavedDate(today), data |-> reading,
                     at |-> Cardinality(database) + 1, meter |-> meter, made |-> today]
  <2>1. database' = database \cup {doc} /\ doc.at = Stored + 1
    BY <1>4 DEF Monitor, Stored
  <2> HIDE DEF doc
  <2>2. Numbered' /\ Stored' = Stored + 1
    BY <1>3, <2>1
  <2> QED
    BY <1>1, <2>1, <2>2
<1> QED
  BY <1>2, <1>4

LEMMA SeenInit == PageInit => SeenInv
<1> SUFFICES ASSUME PageInit PROVE SeenInv
  OBVIOUS
<1>1. Numbered /\ Stored = 0
  BY FS_EmptySet DEF PageInit, Init, Numbered, Stored
<1>2. /\ polls \in [1..Polls -> PollSet]
      /\ \A i \in 1..Polls : polls[i].docs = {} /\ polls[i].answer = "free"
  BY DEF PageInit, Free, Poll, PollSet, Answers
<1> QED
  BY <1>1, <1>2 DEF PageInit, SeenInv, PageTypeOK, OnlyLoggedInSee

\* A step that remembers keeps the invariant, if every poll that it lets past
\* the login belongs to a session that is logged in, and what it answers and
\* shows has been seen.
LEMMA Remembered ==
  ASSUME SeenInv, Remember, PageTypeOK',
         Stored \in Nat, Stored' \in Nat, Stored <= Stored',
         \A i \in 1..Polls :
           polls'[i].answer = "querying" => polls[i].answer = "querying" \/ isAuth',
         \A i \in 1..Polls : \A doc \in polls'[i].docs : doc.at <= seen,
         \A doc \in chart' : doc.at <= seen
  PROVE  SeenInv'
<1>1. seen' \in Nat /\ seen <= seen' /\ seen' <= Stored' /\ seen \in Nat
  BY DEF SeenInv, Remember
<1>2. (isAuth' \/ entitled' # {}) => seen' = Stored'
  BY DEF Remember
<1>3. ASSUME NEW i \in 1..Polls, polls'[i].answer = "querying"
      PROVE  i \in entitled'
  <2>1. i \in Waiting'
    BY <1>3 DEF Waiting
  <2>2. isAuth' \/ i \in entitled
    BY <1>3 DEF SeenInv
  <2> QED
    BY <2>1, <2>2 DEF Remember
<1>4. \A doc \in database' : doc.at \in Int
  BY DEF PageTypeOK, Numbered
<1>5. \A i \in 1..Polls : \A doc \in polls'[i].docs : doc.at <= seen'
  <2>1. \A i \in 1..Polls : polls'[i].docs \subseteq database'
    BY DEF PageTypeOK, PollSet
  <2> QED
    BY <1>1, <1>4, <2>1
<1>6. OnlyLoggedInSee'
  <2>1. chart' \subseteq database'
    BY DEF PageTypeOK
  <2> QED
    BY <1>1, <1>4, <2>1 DEF OnlyLoggedInSee
<1> QED
  BY <1>1, <1>2, <1>3, <1>5, <1>6 DEF SeenInv

\* The case of the lemma for a step that leaves the database alone.
LEMMA RememberedFrame ==
  ASSUME SeenInv, Remember, UNCHANGED database,
         currentDateSelected' \in Choices \cup {NoDate},
         polls' \in [1..Polls -> PollSet], chart' \subseteq database,
         \A i \in 1..Polls :
           polls'[i].answer = "querying" => polls[i].answer = "querying" \/ isAuth',
         \A i \in 1..Polls : \A doc \in polls'[i].docs : doc.at <= seen,
         \A doc \in chart' : doc.at <= seen
  PROVE  SeenInv'
<1>1. Stored \in Nat /\ UNCHANGED Stored /\ Numbered'
  BY FS_CardinalityType DEF SeenInv, PageTypeOK, Numbered, Stored
<1>2. PageTypeOK'
  BY <1>1 DEF PageTypeOK, PollSet
<1> QED
  BY <1>1, <1>2, Remembered

\* A step after which a poll has the answer it had, or one without documents
\* that is not past the login.
LEMMA RememberedPolls ==
  ASSUME SeenInv, Remember, UNCHANGED <<database, chart>>,
         currentDateSelected' \in Choices \cup {NoDate},
         polls' \in [1..Polls -> PollSet],
         \A i \in 1..Polls :
           \/ polls'[i] = polls[i]
           \/ /\ polls'[i].docs \in {polls[i].docs, {}}
              /\ polls'[i].answer # "querying" \/ isAuth'
  PROVE  SeenInv'
<1>1. \A i \in 1..Polls :
        polls'[i].answer = "querying" => polls[i].answer = "querying" \/ isAuth'
  OBVIOUS
<1>2. \A i \in 1..Polls : polls'[i].docs \in {polls[i].docs, {}}
  OBVIOUS
<1>3. \A i \in 1..Polls : \A doc \in polls'[i].docs : doc.at <= seen
  BY <1>2 DEF SeenInv
<1>4. chart' \subseteq database /\ \A doc \in chart' : doc.at <= seen
  BY DEF SeenInv, PageTypeOK, OnlyLoggedInSee
<1> QED
  BY <1>1, <1>3, <1>4, RememberedFrame

\* What the process leaves of the polls when it ends.
LEMMA DroppedPolls ==
  ASSUME SeenInv, polls' = Dropped
  PROVE  /\ polls' \in [1..Polls -> PollSet]
         /\ \A i \in 1..Polls :
              \/ i \notin Waiting /\ polls'[i] = polls[i]
              \/ /\ i \in Waiting /\ polls'[i].answer = "useless"
                 /\ polls'[i].date = polls[i].date /\ polls'[i].docs = polls[i].docs
<1>1. ASSUME NEW i \in 1..Polls
      PROVE  /\ polls'[i] \in PollSet
             /\ \/ i \notin Waiting /\ polls'[i] = polls[i]
                \/ /\ i \in Waiting /\ polls'[i].answer = "useless"
                   /\ polls'[i].date = polls[i].date /\ polls'[i].docs = polls[i].docs
  <2>1. polls[i] \in PollSet
    BY DEF SeenInv, PageTypeOK
  <2>2. polls'[i] = [polls[i] EXCEPT !.answer = IF i \in Waiting THEN "useless"
                                                ELSE polls[i].answer]
    BY DEF Dropped
  <2>3. CASE i \in Waiting
    <3>1. polls'[i] = [polls[i] EXCEPT !.answer = "useless"]
      BY <2>2, <2>3
    <3> QED
      BY <2>1, <2>3, <3>1 DEF PollSet, Answers
  <2>4. CASE i \notin Waiting
    <3>1. polls'[i] = [polls[i] EXCEPT !.answer = polls[i].answer]
      BY <2>2, <2>4
    <3> QED
      BY <2>1, <2>4, <3>1 DEF PollSet
  <2> QED
    BY <2>3, <2>4
<1> QED
  BY <1>1 DEF Dropped

\* What an answer does to the polls.
LEMMA AnsweredPolls ==
  ASSUME SeenInv, NEW i \in 1..Polls, NEW answer \in Answers, NEW docs \in SUBSET database,
         polls' = Answered(i, answer, docs)
  PROVE  /\ polls' \in [1..Polls -> PollSet]
         /\ \A j \in (1..Polls) \ {i} : polls'[j] = polls[j]
         /\ polls'[i].date = polls[i].date
         /\ polls'[i].answer = answer /\ polls'[i].docs = docs
<1>1. polls \in [1..Polls -> PollSet] /\ polls[i] \in PollSet
  BY DEF SeenInv, PageTypeOK
<1>2. /\ \A j \in (1..Polls) \ {i} : polls'[j] = polls[j]
      /\ polls'[i] = [[polls[i] EXCEPT !.answer = answer] EXCEPT !.docs = docs]
      /\ DOMAIN polls' = 1..Polls /\ polls' = [j \in 1..Polls |-> polls'[j]]
  BY <1>1 DEF Answered
<1>3. /\ polls'[i] \in PollSet /\ polls'[i].date = polls[i].date
      /\ polls'[i].answer = answer /\ polls'[i].docs = docs
  BY <1>1, <1>2 DEF PollSet
<1>4. polls' \in [1..Polls -> PollSet]
  <2>1. \A j \in 1..Polls : polls'[j] \in PollSet
    BY <1>1, <1>2, <1>3
  <2> QED
    BY <1>2, <2>1
<1> QED
  BY <1>2, <1>3, <1>4

LEMMA SeenStep == SeenInv /\ [PageNext]_allVars => SeenInv'
<1> SUFFICES ASSUME SeenInv, [PageNext]_allVars PROVE SeenInv'
  OBVIOUS
<1>0. Stored \in Nat
  BY FS_CardinalityType DEF SeenInv, PageTypeOK, Numbered, Stored
<1>p. polls \in [1..Polls -> PollSet] /\ currentDateSelected \in Choices \cup {NoDate}
  BY DEF SeenInv, PageTypeOK
<1>1. CASE Sessions
  <2>1. /\ UNCHANGED <<database, chart, currentDateSelected>> /\ Remember
        /\ polls' \in {polls, Dropped}
    BY <1>1 DEF Sessions, vars, userVars
  <2>2. CASE polls' = polls
    BY <1>p, <2>1, <2>2, RememberedPolls
  <2>3. CASE polls' = Dropped
    <3>1. polls' \in [1..Polls -> PollSet]
      BY <2>3, DroppedPolls
    <3>2. \A i \in 1..Polls :
            \/ polls'[i] = polls[i]
            \/ polls'[i].docs = polls[i].docs /\ polls'[i].answer = "useless"
      BY <2>3, DroppedPolls
    <3> QED
      BY <1>p, <2>1, <3>1, <3>2, RememberedPolls
  <2> QED
    BY <2>1, <2>2, <2>3
<1>2. CASE MetersReport
  <2>1. UNCHANGED <<chart, polls, currentDateSelected>> /\ Remember
    BY <1>2 DEF MetersReport, userVars
  <2>2. /\ Numbered' /\ Stored' \in Nat /\ Stored <= Stored' /\ database \subseteq database'
    <3>1. CASE NextDay
      BY <1>0, <3>1 DEF NextDay, Numbered, SeenInv, PageTypeOK, Stored
    <3> QED
      BY <1>2, <3>1, MonitorNumbers DEF MetersReport, SeenInv, PageTypeOK
  <2>3. PageTypeOK'
    BY <2>1, <2>2 DEF SeenInv, PageTypeOK, PollSet
  <2>4. /\ \A i \in 1..Polls : \A doc \in polls'[i].docs : doc.at <= seen
        /\ \A doc \in chart' : doc.at <= seen
    BY <2>1 DEF SeenInv, OnlyLoggedInSee
  <2> QED
    BY <1>0, <2>1, <2>2, <2>3, <2>4, Remembered
<1>3. ASSUME NEW i \in 1..Polls, Admit(i) PROVE SeenInv'
  <2>1. UNCHANGED <<database, chart, currentDateSelected, isAuth>> /\ Remember
    BY <1>3 DEF Admit, vars, sessionVars, userVars
  <2>2. PICK answer \in {"querying", "useless"} :
          polls' = Answered(i, answer, {}) /\ (answer = "querying" => isAuth)
    BY <1>3 DEF Admit, Session!LoggedIn
  <2>3. /\ polls' \in [1..Polls -> PollSet]
        /\ \A j \in (1..Polls) \ {i} : polls'[j] = polls[j]
        /\ polls'[i].answer = answer /\ polls'[i].docs = {}
    BY <2>2, AnsweredPolls DEF Answers
  <2> QED
    BY <1>p, <2>1, <2>2, <2>3, RememberedPolls
<1>4. ASSUME NEW i \in 1..Polls, Query(i) PROVE SeenInv'
  <2>1. /\ UNCHANGED <<database, chart, currentDateSelected>> /\ Remember
        /\ polls[i].answer = "querying"
    BY <1>4 DEF Query, vars, userVars
  <2>2. CASE polls' = Dropped
    <3>1. polls' \in [1..Polls -> PollSet]
      BY <2>2, DroppedPolls
    <3>2. \A j \in 1..Polls :
            \/ polls'[j] = polls[j]
            \/ polls'[j].docs = polls[j].docs /\ polls'[j].answer = "useless"
      BY <2>2, DroppedPolls
    <3> QED
      BY <1>p, <2>1, <3>1, <3>2, RememberedPolls
  <2>3. CASE polls' = Answered(i, "useless", {})
    <3>1. /\ polls' \in [1..Polls -> PollSet]
          /\ \A j \in (1..Polls) \ {i} : polls'[j] = polls[j]
          /\ polls'[i].answer = "useless" /\ polls'[i].docs = {}
      BY <2>3, AnsweredPolls DEF Answers
    <3> QED
      BY <1>p, <2>1, <3>1, RememberedPolls
  <2>4. CASE polls' = Answered(i, "docs", Found(resourceName, DateOf(polls[i])))
    <3>1. PICK docs \in SUBSET database : polls' = Answered(i, "docs", docs)
      BY <2>4 DEF Found
    <3>2. /\ polls' \in [1..Polls -> PollSet]
          /\ \A j \in (1..Polls) \ {i} : polls'[j] = polls[j]
          /\ polls'[i].answer = "docs" /\ polls'[i].docs = docs
      BY <3>1, AnsweredPolls DEF Answers
    <3>3. seen = Stored
      BY <2>1 DEF SeenInv
    <3>4. \A doc \in docs : doc.at <= seen
      BY <1>0, <3>3 DEF SeenInv, PageTypeOK, Numbered
    <3>5. \A j \in 1..Polls : \A doc \in polls'[j].docs : doc.at <= seen
      BY <3>2, <3>4 DEF SeenInv
    <3>6. \A j \in 1..Polls : polls'[j].answer = "querying" => polls[j].answer = "querying"
      BY <3>2
    <3>7. chart' \subseteq database /\ \A doc \in chart' : doc.at <= seen
      BY <2>1 DEF SeenInv, PageTypeOK, OnlyLoggedInSee
    <3> QED
      BY <1>p, <2>1, <3>2, <3>5, <3>6, <3>7, RememberedFrame
  <2> QED
    BY <1>4, <2>2, <2>3, <2>4 DEF Query
<1>5. CASE Open
  <2>1. /\ UNCHANGED database /\ chart' = {} /\ currentDateSelected' = NoDate /\ Remember
        /\ polls' = [i \in 1..Polls |-> Free]
    BY <1>5 DEF Open, vars
  <2>2. /\ polls' \in [1..Polls -> PollSet]
        /\ \A i \in 1..Polls : polls'[i].docs = {} /\ polls'[i].answer = "free"
    BY <2>1 DEF Free, Poll, PollSet, Answers
  <2> QED
    BY <2>1, <2>2, RememberedFrame
<1>6. ASSUME NEW i \in 1..Polls, Tick(i) PROVE SeenInv'
  <2>1. /\ UNCHANGED <<database, chart, currentDateSelected>> /\ Remember
        /\ polls' = [polls EXCEPT ![i] = Poll(currentDateSelected,
                                              IF up THEN "none" ELSE "useless")]
    BY <1>6 DEF Tick, vars, userVars
  <2>2. /\ \A j \in (1..Polls) \ {i} : polls'[j] = polls[j]
        /\ polls'[i] \in PollSet /\ polls'[i].docs = {} /\ polls'[i].answer # "querying"
    BY <1>p, <2>1 DEF Poll, PollSet, Answers
  <2>3. polls' \in [1..Polls -> PollSet]
    BY <1>p, <2>1, <2>2
  <2> QED
    BY <1>p, <2>1, <2>2, <2>3, RememberedPolls
<1>7. ASSUME NEW i \in 1..Polls, Callback(i) PROVE SeenInv'
  <2>1. /\ UNCHANGED <<database, currentDateSelected>> /\ Remember
        /\ polls' = [polls EXCEPT ![i] = Free]
        /\ chart' \subseteq chart \cup polls[i].docs
    BY <1>7 DEF Callback, vars, userVars, LastOf
  <2>2. /\ \A j \in (1..Polls) \ {i} : polls'[j] = polls[j]
        /\ polls'[i] \in PollSet /\ polls'[i].docs = {} /\ polls'[i].answer = "free"
    BY <1>p, <2>1 DEF Free, Poll, PollSet, Answers
  <2>3. polls' \in [1..Polls -> PollSet]
    BY <1>p, <2>1, <2>2
  <2>4. \A j \in 1..Polls : \A doc \in polls'[j].docs : doc.at <= seen
    BY <2>2 DEF SeenInv
  <2>5. \A j \in 1..Polls : polls'[j].answer = "querying" => polls[j].answer = "querying"
    BY <2>2
  <2>6. chart' \subseteq database /\ \A doc \in chart' : doc.at <= seen
    BY <1>p, <2>1 DEF SeenInv, PageTypeOK, PollSet, OnlyLoggedInSee
  <2> QED
    BY <1>p, <2>1, <2>3, <2>4, <2>5, <2>6, RememberedFrame
<1>8. CASE \/ PlayOrStop \/ \E date \in Choices : ChooseDate(date)
           \/ \E limit \in Limits : SetRange(limit)
  <2>1. /\ UNCHANGED <<database, chart, polls>> /\ Remember
        /\ currentDateSelected' \in Choices \cup {NoDate}
    BY <1>8, <1>p DEF PlayOrStop, ChooseDate, SetRange, vars
  <2> QED
    BY <1>p, <2>1, RememberedPolls
<1>9. CASE PageNext
  BY <1>1, <1>2, <1>3, <1>4, <1>5, <1>6, <1>7, <1>8, <1>9 DEF PageNext, Serve
<1>10. CASE UNCHANGED allVars
  <2>1. UNCHANGED <<database, seen, entitled, isAuth, chart, polls, currentDateSelected>>
    BY <1>10 DEF allVars, vars, sessionVars, pageVars, userVars, history
  <2>2. UNCHANGED Stored /\ PageTypeOK'
    BY <2>1 DEF SeenInv, PageTypeOK, PollSet, Numbered, Stored
  <2> QED
    BY <2>1, <2>2 DEF SeenInv, OnlyLoggedInSee
<1> QED
  BY <1>9, <1>10

\* A browser that is not logged in is shown nothing that was stored after it
\* was, and after the last answer to what it had asked by then, whatever pages
\* it has open, however late queries run and answers come.
THEOREM OnlyTheLoggedInSee == PageSpec => []OnlyLoggedInSee
<1>1. SeenInv => OnlyLoggedInSee
  BY DEF SeenInv
<1> QED
  BY SeenInit, SeenStep, <1>1, PTL DEF PageSpec

\* Unless polls overlap there is one at a time, once the chart is of the chosen
\* date so is the poll under way, and an answer is of the date it was asked for.
ChosenInv ==
  /\ ~ overlap => \A i, j \in UnderWay : i = j
  /\ (current /\ ~ overlap) => \A i \in UnderWay : polls[i].date = currentDateSelected
  /\ \A i \in 1..Polls :
       (polls[i].answer = "docs" /\ polls[i].date # NoDate) =>
         \A doc \in polls[i].docs : doc.date = polls[i].date
  /\ ChartIsOfChosenDate

LEMMA ChosenInit == PageInit => ChosenInv
BY DEF PageInit, ChosenInv, UnderWay, Free, Poll, ChartIsOfChosenDate

\* A step after which every poll has the date it had, as has its answer, and
\* which takes nothing else.
LEMMA PollsKept ==
  ASSUME SeenInv, ChosenInv,
         UNCHANGED <<currentDateSelected, chart, overlap, current>>,
         NEW keeps \in SUBSET (1..Polls),
         \A i \in keeps : polls'[i] = polls[i],
         \A i \in (1..Polls) \ keeps :
           /\ polls'[i].date = polls[i].date
           /\ polls[i].answer # "free"
           /\ \/ polls'[i].answer = "useless"
              \/ polls'[i].answer = "docs" /\
                 (polls[i].date # NoDate =>
                    \A doc \in polls'[i].docs : doc.date = polls[i].date)
  PROVE  ChosenInv'
<1>1. \A i \in 1..Polls : polls'[i].date = polls[i].date
  OBVIOUS
<1>2. UnderWay' \subseteq UnderWay
  BY DEF UnderWay
<1>3. ASSUME NEW i \in 1..Polls, polls'[i].answer = "docs", polls'[i].date # NoDate
      PROVE  \A doc \in polls'[i].docs : doc.date = polls'[i].date
  <2>1. CASE i \in keeps
    BY <1>3, <2>1 DEF ChosenInv
  <2>2. CASE i \notin keeps
    BY <1>1, <1>3, <2>2
  <2> QED
    BY <2>1, <2>2
<1>4. /\ ~ overlap' => \A i, j \in UnderWay' : i = j
      /\ (current' /\ ~ overlap') =>
            \A i \in UnderWay' : polls'[i].date = currentDateSelected'
  <2>1. UnderWay \subseteq 1..Polls
    BY DEF UnderWay
  <2> QED
    BY <1>1, <1>2, <2>1 DEF ChosenInv
<1>5. ChartIsOfChosenDate'
  BY DEF ChosenInv, ChartIsOfChosenDate
<1> QED
  BY <1>3, <1>4, <1>5 DEF ChosenInv

LEMMA DroppedKeeps ==
  ASSUME SeenInv, ChosenInv, polls' = Dropped,
         UNCHANGED <<currentDateSelected, chart, overlap, current>>
  PROVE  ChosenInv'
<1> DEFINE keeps == (1..Polls) \ Waiting
<1>1. \A i \in keeps : polls'[i] = polls[i]
  BY DroppedPolls
<1>2. \A i \in (1..Polls) \ keeps :
        /\ polls'[i].date = polls[i].date
        /\ polls[i].answer # "free"
        /\ polls'[i].answer = "useless"
  BY DroppedPolls DEF Waiting
<1> HIDE DEF keeps
<1>3. keeps \in SUBSET (1..Polls)
  BY DEF keeps
<1> QED
  BY <1>1, <1>2, <1>3, PollsKept

LEMMA ChosenStep == SeenInv /\ ChosenInv /\ [PageNext]_allVars => ChosenInv'
<1> SUFFICES ASSUME SeenInv, ChosenInv, [PageNext]_allVars PROVE ChosenInv'
  OBVIOUS
<1>a. ASSUME UNCHANGED <<polls, currentDateSelected, chart, overlap, current>>
      PROVE  ChosenInv'
  BY <1>a DEF ChosenInv, ChartIsOfChosenDate, UnderWay
<1>1. CASE Sessions
  BY <1>1, <1>a, DroppedKeeps DEF Sessions, userVars
<1>2. CASE MetersReport
  BY <1>2, <1>a DEF MetersReport, userVars
<1>3. ASSUME NEW i \in 1..Polls, Serve(i) PROVE ChosenInv'
  <2>1. /\ UNCHANGED <<currentDateSelected, chart, overlap, current>>
        /\ polls[i].answer # "free"
    BY <1>3 DEF Serve, Admit, Query, userVars
  <2>2. CASE polls' = Dropped
    BY <2>1, <2>2, DroppedKeeps
  <2> DEFINE keeps == (1..Polls) \ {i}
  <2>k. keeps \in SUBSET (1..Polls) /\ \A j \in (1..Polls) \ keeps : j = i
    OBVIOUS
  <2>4. CASE polls' = Answered(i, "useless", {})
    <3>1. /\ \A j \in keeps : polls'[j] = polls[j]
          /\ polls'[i].date = polls[i].date /\ polls'[i].answer = "useless"
      BY <2>4, AnsweredPolls DEF Answers
    <3> HIDE DEF keeps
    <3> QED
      BY <2>1, <2>k, <3>1, PollsKept
  <2>5. CASE polls' = Answered(i, "docs", Found(resourceName, DateOf(polls[i])))
    <3>1. /\ Found(resourceName, DateOf(polls[i])) \in SUBSET database
          /\ polls[i].date # NoDate =>
               \A doc \in Found(resourceName, DateOf(polls[i])) : doc.date = polls[i].date
      BY DEF Found, DateOf
    <3>2. /\ \A j \in keeps : polls'[j] = polls[j]
          /\ polls'[i].date = polls[i].date
          /\ polls'[i].answer = "docs"
          /\ polls'[i].docs = Found(resourceName, DateOf(polls[i]))
      BY <2>5, <3>1, AnsweredPolls DEF Answers
    <3>3. polls[i].date # NoDate =>
            \A doc \in polls'[i].docs : doc.date = polls[i].date
      BY <3>1, <3>2
    <3> HIDE DEF keeps
    <3> QED
      BY <2>1, <2>k, <3>2, <3>3, PollsKept
  <2>6. CASE polls' = Answered(i, "querying", {})
    <3>1. /\ \A j \in (1..Polls) \ {i} : polls'[j] = polls[j]
          /\ polls'[i].date = polls[i].date /\ polls'[i].answer = "querying"
      BY <2>6, AnsweredPolls DEF Answers
    <3>2. UnderWay' \subseteq UnderWay /\ UnderWay \subseteq 1..Polls
      BY <2>1, <3>1 DEF UnderWay
    <3>3. \A j \in 1..Polls : polls'[j].date = polls[j].date
      BY <3>1
    <3> QED
      BY <2>1, <3>1, <3>2, <3>3 DEF ChosenInv, ChartIsOfChosenDate
  <2> QED
    BY <1>3, <2>2, <2>4, <2>5, <2>6 DEF Serve, Admit, Query
<1>4. CASE Open
  BY <1>4 DEF Open, ChosenInv, UnderWay, Free, Poll, ChartIsOfChosenDate
<1>5. ASSUME NEW i \in 1..Polls, Tick(i) PROVE ChosenInv'
  <2>1. /\ UNCHANGED <<currentDateSelected, chart, current>>
        /\ overlap' = (overlap \/ UnderWay # {})
        /\ polls' = [polls EXCEPT ![i] = Poll(currentDateSelected,
                                              IF up THEN "none" ELSE "useless")]
    BY <1>5 DEF Tick, userVars
  <2>2. /\ \A j \in (1..Polls) \ {i} : polls'[j] = polls[j]
        /\ polls'[i].date = currentDateSelected /\ polls'[i].answer # "docs"
    BY <2>1 DEF Poll, SeenInv, PageTypeOK
  <2>3. UnderWay' \subseteq UnderWay \cup {i}
    BY <2>2 DEF UnderWay
  <2>4. ~ overlap' => ~ overlap /\ \A j \in UnderWay' : j = i
    BY <2>1, <2>3
  <2> QED
    BY <2>1, <2>2, <2>4 DEF ChosenInv, ChartIsOfChosenDate
<1>6. ASSUME NEW i \in 1..Polls, Callback(i) PROVE ChosenInv'
  <2>1. /\ UNCHANGED <<currentDateSelected, overlap>>
        /\ polls' = [polls EXCEPT ![i] = Free]
        /\ i \in UnderWay
    BY <1>6 DEF Callback, userVars, UnderWay
  <2>2. /\ \A j \in (1..Polls) \ {i} : polls'[j] = polls[j]
        /\ polls'[i].answer = "free"
    BY <2>1 DEF Free, Poll, SeenInv, PageTypeOK
  <2>3. UnderWay' = UnderWay \ {i}
    BY <2>2 DEF UnderWay
  <2>4. ~ overlap => UnderWay' = {}
    BY <2>1, <2>3 DEF ChosenInv
  <2>5. ChartIsOfChosenDate'
    <3>1. CASE UNCHANGED <<chart, current>>
      BY <2>1, <3>1 DEF ChosenInv, ChartIsOfChosenDate
    <3>2. CASE /\ polls[i].answer = "docs" /\ chart' \subseteq polls[i].docs
               /\ current' = (current \/ polls[i].date = currentDateSelected)
      <4>1. (current' /\ ~ overlap) => polls[i].date = currentDateSelected
        BY <2>1, <3>2 DEF ChosenInv
      <4> QED
        BY <2>1, <3>2, <4>1 DEF ChosenInv, ChartIsOfChosenDate
    <3> QED
      BY <1>6, <3>1, <3>2 DEF Callback, LastOf
  <2> QED
    BY <2>1, <2>2, <2>4, <2>5 DEF ChosenInv
<1>7. CASE \E date \in Choices : ChooseDate(date)
  BY <1>7 DEF ChooseDate, ChosenInv, UnderWay, ChartIsOfChosenDate
<1>8. CASE PlayOrStop \/ \E limit \in Limits : SetRange(limit)
  BY <1>8, <1>a DEF PlayOrStop, SetRange
<1>9. CASE PageNext
  BY <1>1, <1>2, <1>3, <1>4, <1>5, <1>6, <1>7, <1>8, <1>9 DEF PageNext
<1>10. CASE UNCHANGED allVars
  BY <1>10, <1>a DEF allVars, pageVars, userVars
<1> QED
  BY <1>9, <1>10

\* Unless two polls have been under way at a time, a chart that was refreshed
\* after a date was chosen is of that date, however users, meters and the web
\* application go on meanwhile.
THEOREM TheChartIsOfTheChosenDate == PageSpec => []ChartIsOfChosenDate
<1>1. ChosenInv => ChartIsOfChosenDate
  BY DEF ChosenInv
<1> QED
  BY SeenInit, SeenStep, ChosenInit, ChosenStep, <1>1, PTL DEF PageSpec

=============================================================================
