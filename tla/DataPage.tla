------------------------------- MODULE DataPage -------------------------------
(***************************************************************************)
(* The page with the readings of a meter, in one browser:                  *)
(* webapp/public/js/script.js, /data (routes/data.js) and /api/get         *)
(* (routes/api/getResource.js), on top of the database of readings         *)
(* (WebappHistory) and the browser's session (WebappSession).              *)
(*                                                                         *)
(* While it plays, the page asks for the readings of the chosen day every  *)
(* three seconds, whether or not the last answer is there.  Answers may    *)
(* come in any order, and the chart shows the last that came.              *)
(***************************************************************************)
EXTENDS WebappHistory

CONSTANTS
  resourceName,\* the meter of the page
  Choices,     \* the dates a user may choose
  NoDate,      \* no date has been chosen
  Limits,      \* how many readings the chart may be set to show
  Default,     \* and how many it shows at first
  Polls,       \* bound: the polls under way at a time
  Names, Passwords, NoLogin, Accounts, Faults   \* as in WebappSession

VARIABLES
  up, users, registering, login, isAuth, faults,
  page,        \* is the page open?
  currentDateSelected,
  playing,     \* is the interval running?
  limitChart,
  polls,       \* the polls under way
  chart,       \* the documents the chart shows
  overlap,     \* have two polls been under way at a time since the page opened?
  current,     \* has an answer for the chosen date come?
  entitled,    \* history: the polls that wait for an answer and did so at
               \* some time while the browser was logged in
  seen         \* history: how many documents there were when the browser was
               \* last logged in, or last had such a poll

Session == INSTANCE WebappSession

sessionVars == <<up, users, registering, login, isAuth, faults>>
userVars == <<page, currentDateSelected, playing, limitChart>>
history == <<entitled, seen>>
pageVars == <<userVars, polls, chart, overlap, current, history>>

\* A poll: the date it asks for and what the answer is: "none" yet, "querying"
\* when it is past the login, the documents found, or something with which the
\* script does nothing: the login page, a message, an error.
Poll(date, answer) == [date |-> date, answer |-> answer, docs |-> {}]
Free == Poll(NoDate, "free")

UnderWay == {i \in 1..Polls : polls[i].answer # "free"}
Waiting  == {i \in 1..Polls : polls[i].answer \in {"none", "querying"}}

\* The process is gone, and with it the answers it owed.
Dropped == [i \in 1..Polls |->
              [polls[i] EXCEPT !.answer = IF i \in Waiting THEN "useless" ELSE @]]

\* The last entries of an answer.  Mutated: the first.
LastOf_First(docs, n) == {doc \in docs : Cardinality({d \in docs : d.at < doc.at}) < n}
LastOf(docs, n) == {doc \in docs : Cardinality({d \in docs : d.at > doc.at}) < n}

Stored == Cardinality(database)

\* The history variables follow what every step does.
Remember ==
  /\ entitled' = IF isAuth' THEN Waiting' ELSE entitled \cap Waiting'
  /\ seen' = IF isAuth' \/ entitled' # {} THEN Stored' ELSE seen

-----------------------------------------------------------------------------
PageInit ==
  /\ Init /\ Session!Init
  /\ page = FALSE /\ currentDateSelected = NoDate /\ playing = FALSE
  /\ limitChart = Default
  /\ polls = [i \in 1..Polls |-> Free] /\ chart = {}
  /\ overlap = FALSE /\ current = FALSE
  /\ entitled = {} /\ seen = 0

(***************************************************************************)
(* The web application.                                                    *)
(***************************************************************************)

\* Users come and go, and the web application ends and is started again.
Sessions ==
  /\ Session!Next
  /\ UNCHANGED <<vars, userVars, chart, overlap, current>>
  /\ polls' = IF up' THEN polls ELSE Dropped
  /\ Remember

\* Readings come in while it is up.
MetersReport ==
  /\ \/ NextDay
     \/ up /\ \E meter \in Meters, reading \in Readings : Monitor(meter, reading)
  /\ UNCHANGED <<sessionVars, userVars, polls, chart, overlap, current>>
  /\ Remember

\* The date that is looked for: without one, today's.  Mutated: always today's.
DateOf_Today(poll) == today
DateOf(poll) == IF poll.date = NoDate THEN today ELSE poll.date

Answered(i, answer, docs) ==
  [polls EXCEPT ![i].answer = answer, ![i].docs = docs]

\* A poll comes to /api/get: isAuthenticatedCustomMiddleware looks at the
\* session as it was loaded for the request, and nothing looks at it again.
\* Without a login the answer is the login page.
Admit(i) ==
  /\ polls[i].answer = "none"
  /\ polls' = Answered(i, IF Session!LoggedIn THEN "querying" ELSE "useless", {})
  /\ UNCHANGED <<vars, sessionVars, userVars, chart, overlap, current>>
  /\ Remember

\* The user of the session is looked up, and then connect and find call back,
\* whatever has become of the session.  An error of the database is a message
\* or an error, or, while connecting, the end of the process.
Query(i) ==
  /\ polls[i].answer = "querying"
  /\ \/ /\ polls' = Answered(i, "docs", Found(resourceName, DateOf(polls[i])))
        /\ UNCHANGED sessionVars
     \/ /\ Session!Fault
        /\ \/ /\ polls' = Answered(i, "useless", {})
              /\ UNCHANGED <<up, registering, login, isAuth>>
           \/ polls' = Dropped /\ Session!Die
        /\ UNCHANGED users
  /\ UNCHANGED <<vars, userVars, chart, overlap, current>>
  /\ Remember

Serve(i) == Admit(i) \/ Query(i)

(***************************************************************************)
(* The page.                                                               *)
(***************************************************************************)

\* /data is opened, or loaded again: the script starts anew.
Open ==
  /\ up /\ Session!LoggedIn
  /\ page' = TRUE /\ currentDateSelected' = NoDate /\ playing' = FALSE
  /\ limitChart' = Default
  /\ polls' = [i \in 1..Polls |-> Free] /\ chart' = {}
  /\ overlap' = FALSE /\ current' = FALSE
  /\ UNCHANGED <<vars, sessionVars>>
  /\ Remember

\* The user plays or stops, chooses a date, or sets the range of the chart.
\* Polls under way go on.
PlayOrStop ==
  /\ page /\ playing' = ~ playing
  /\ UNCHANGED <<vars, sessionVars, page, currentDateSelected, limitChart,
                 polls, chart, overlap, current>>
  /\ Remember

ChooseDate(date) ==
  /\ page /\ currentDateSelected' = date
  /\ current' = FALSE
  /\ UNCHANGED <<vars, sessionVars, page, playing, limitChart,
                 polls, chart, overlap>>
  /\ Remember

SetRange(limit) ==
  /\ page /\ limitChart' = limit
  /\ UNCHANGED <<vars, sessionVars, page, currentDateSelected, playing,
                 polls, chart, overlap, current>>
  /\ Remember

\* getJSON up to its request, every three seconds.
Tick(i) ==
  /\ page /\ playing /\ i \notin UnderWay
  /\ polls' = [polls EXCEPT ![i] = Poll(currentDateSelected,
                                        IF up THEN "none" ELSE "useless")]
  /\ overlap' = (overlap \/ UnderWay # {})
  /\ UNCHANGED <<vars, sessionVars, userVars, chart, current>>
  /\ Remember

\* The callbacks of getJSON: the chart shows the last limitChart documents of
\* the answer, if it is one.
Callback(i) ==
  /\ polls[i].answer \in {"docs", "useless"}
  /\ polls' = [polls EXCEPT ![i] = Free]
  /\ IF polls[i].answer = "docs"
     THEN /\ chart' = LastOf(polls[i].docs, limitChart)
          /\ current' = (current \/ polls[i].date = currentDateSelected)
     ELSE UNCHANGED <<chart, current>>
  /\ UNCHANGED <<vars, sessionVars, userVars, overlap>>
  /\ Remember

PageNext ==
  \/ Sessions \/ MetersReport
  \/ Open \/ PlayOrStop
  \/ \E date \in Choices : ChooseDate(date)
  \/ \E limit \in Limits : SetRange(limit)
  \/ \E i \in 1..Polls : Tick(i) \/ Serve(i) \/ Callback(i)

allVars == <<vars, sessionVars, pageVars>>

PageSpec == PageInit /\ [][PageNext]_allVars

\* The browser's timer and both event loops go on.  Nothing is asked of users
\* and meters.
PageFairSpec ==
  /\ PageSpec
  /\ WF_allVars(\E i \in 1..Polls : Tick(i))
  /\ \A i \in 1..Polls : WF_allVars(Serve(i)) /\ WF_allVars(Callback(i))

-----------------------------------------------------------------------------
(***************************************************************************)
(* Properties.                                                             *)
(***************************************************************************)

\* Unless polls overlap, what the chart shows once it has been refreshed after
\* a date was chosen is of that date: an answer that was asked for before does
\* not come back over it.
ChartIsOfChosenDate ==
  (current /\ ~ overlap /\ currentDateSelected # NoDate) =>
    \A doc \in chart : doc.date = currentDateSelected

\* Readings are behind the login (test/specs/webapp/login.spec.js:8), but the
\* check and the query are far apart.  The page may stay open after a logout, or
\* when the web application has ended, and its polls go on: it shows nothing that
\* was stored after the logout and after the last answer to a poll that the
\* browser was waiting for before it.
OnlyLoggedInSee ==
  \A doc \in chart : doc.at <= seen

\* A page that is left playing, in a session that lasts, ends up with the last
\* readings of the chosen day, though polls overlap and some fail.
Watching(date, limit) ==
  isAuth /\ page /\ playing /\ currentDateSelected = date /\ limitChart = limit
UpToDate(date, limit) ==
  LET docs == Found(resourceName, date)
  IN  /\ chart \subseteq docs
      /\ chart = docs \/ Cardinality(chart) = limit
      /\ \A shown \in chart, left \in docs \ chart : left.at < shown.at
ChartCatchesUp ==
  \A date \in Choices, limit \in Limits :
    <>[]Watching(date, limit) => <>[]UpToDate(date, limit)

=============================================================================
