------------------------------- MODULE CppMeter -------------------------------
(***************************************************************************)
(* The C++ meter: main and callbackNotification of client/src/MeterMain.cpp*)
(* with the meter it simulates (UtilityMeter.cpp, RandomMeterValue.cpp).   *)
(*                                                                         *)
(* The main thread creates the meter's resources at the server one after   *)
(* the other, looking at no result, and then reports the meter value       *)
(* countCalc times.  The library's HTTP server runs callbackNotification   *)
(* in a thread of its own whenever the server notifies the meter of a ping *)
(* (webapp/routes/api/pingResource.js).  The threads share the meter um    *)
(* and the response object respObj, and no lock.                           *)
(***************************************************************************)
EXTENDS Integers, Sequences, FiniteSets

CONSTANTS
  contName,    \* the container of the readings, -c
  runtime,     \* the minutes to run, -t
  secondsToDelay, \* the seconds between two reports, -d
  Increments,  \* what getRunningValue may add
  Pings,       \* bound: pings of one behaviour
  Errors,      \* bound: requests to the server that end in an error
  Boots        \* bound: how often the program is started again

ASSUME ConstantsAssumption ==
  /\ contName \notin {"AE", "DESCRIPTOR", "DESCRIPTION", "PING_METER", "SUB_CPP_CLIENT"}
  /\ runtime \in Nat
  /\ secondsToDelay \in Nat \ {0}   \* 0 is divided by: undefined
  /\ Increments \subseteq Nat \ {0} /\ Increments # {}
  /\ Pings \in Nat /\ Errors \in Nat /\ Boots \in Nat

VARIABLES
  pc,          \* where each thread is
  step,        \* which of its requests main is at
  meterValue,  \* of um
  reading,     \* the reading each thread is going to post
  respObj,     \* the address of the response object the program owns, 0 for none
  mine, old,   \* in the assignment to it: the new one and the one to delete
  live,        \* the addresses at which there is a response object
  heap,        \* "sound", or "corrupt" once one was deleted that was not there
  raced,       \* history: have two assignments to respObj overlapped?
  known,       \* the resources at the server
  data,        \* the readings in each of its containers, oldest first
  pending,     \* the server's notifications the callback thread has not seen
  reports, pinged, errors, boots   \* how often so far

mainVars == <<step, meterValue, reports>>
cseVars  == <<known, data, pending>>
objVars  == <<respObj, mine, old, live, heap, raced>>
vars == <<pc, mainVars, reading, objVars, cseVars, pinged, errors, boots>>

Threads == {"main", "callback"}

\* What main asks of the server before the loop.
Setup == <<"AE", "retrieve", "DESCRIPTOR", "DESCRIPTION", "container", "PING_METER",
           "SUB_CPP_CLIENT", "reading", "retrieve">>
Op(n) == IF n <= Len(Setup) THEN Setup[n] ELSE "reading"

\* How many reports the loop makes: the double is cut off.  Mutated: without
\* the one that is due when the time is over.
countCalc_Before == (60 * runtime) \div secondsToDelay
countCalc == (60 * runtime) \div secondsToDelay + 1

LastStep == Len(Setup) + countCalc

\* Is there a request after the n-th?
More(n) == n < LastStep

\* A reading of main knows which report it belongs to, the answer to a ping
\* what the meter showed when the ping was sent.  The program sends the kWH.
Report(boot, report, kWH) == [boot |-> boot, report |-> report, kWH |-> kWH]
Reply(boot, asked, kWH)   == [boot |-> boot, asked |-> asked, kWH |-> kWH]
NoReading  == Report(0, 0, 0)
Containers == {"DATA", contName}

Before(n) == IF Op(n) = "reading" THEN "update" ELSE "request"
Goto(thread, place) == pc' = [pc EXCEPT ![thread] = place]
Up == pc["main"] \notin {"finished", "aborted"}

-----------------------------------------------------------------------------
Init ==
  /\ pc = [thread \in Threads |-> IF thread = "main" THEN "request" ELSE "idle"]
  /\ step = 1 /\ meterValue = 0 /\ reports = 0
  /\ reading = [thread \in Threads |-> NoReading]
  /\ respObj = 0 /\ mine = [thread \in Threads |-> 0] /\ old = [thread \in Threads |-> 0]
  /\ live = {} /\ heap = "sound" /\ raced = FALSE
  /\ pending = <<>>
  /\ known = {} /\ data = [container \in Containers |-> <<>>]
  /\ pinged = 0 /\ errors = 0 /\ boots = 0

(***************************************************************************)
(* The server, as far as the meter and its pings need it.                  *)
(***************************************************************************)

\* The resource a create is below, and what it leaves behind.
Parent(op) ==
  CASE op \in {"DESCRIPTOR", "container", "PING_METER"} -> {"AE"}
    [] op = "DESCRIPTION"                               -> {"DESCRIPTOR"}
    [] op = "SUB_CPP_CLIENT"                            -> {"PING_METER"}
    [] OTHER                                            -> {}
Made(op) == CASE op = "container" -> {contName}
              [] op = "retrieve"  -> {}
              [] OTHER            -> {op}

\* A notification of the server: of a ping, with what the meter showed then,
\* or a request to verify a new subscription.
Notification(verificationRequest, asked) ==
  [verificationRequest |-> verificationRequest, asked |-> asked]

Create(op) ==
  LET made == IF Parent(op) \subseteq known THEN Made(op) ELSE {} IN
    /\ known' = known \cup made
    /\ pending' = IF "SUB_CPP_CLIENT" \in made \ known
                  THEN Append(pending, Notification(TRUE, 0)) ELSE pending
    /\ UNCHANGED data

Store(container, it) ==
  /\ data' = IF container \in known
             THEN [data EXCEPT ![container] = Append(@, it)] ELSE data
  /\ UNCHANGED <<known, pending>>

\* The web application creates the container DATA when it subscribes to the
\* meter (webapp/onem2m.js:177-217).
WebappCreatesData ==
  /\ "AE" \in known /\ "DATA" \notin known
  /\ known' = known \cup {"DATA"}
  /\ UNCHANGED <<pc, mainVars, reading, objVars, data, pending, pinged, errors, boots>>

\* A user pings the meter, which has subscribed to pings.
Ping ==
  /\ "SUB_CPP_CLIENT" \in known /\ Up /\ pinged < Pings /\ pinged' = pinged + 1
  /\ pending' = Append(pending, Notification(FALSE, meterValue))
  /\ UNCHANGED <<pc, mainVars, reading, objVars, known, data, errors, boots>>

(***************************************************************************)
(* createResource and retrieveResource, of either thread.  The result code *)
(* is printed.  The response goes to respObj:                              *)
(* the assignment loads the pointer, stores the new one and deletes the    *)
(* object of the one it has loaded.                                        *)
(***************************************************************************)

\* Where a new object may be: where a deleted one was, or elsewhere; anywhere,
\* when the heap is corrupt.
NewAddresses ==
  {a \in 1..(Cardinality(live) + 1) : heap = "sound" => a \notin live}

\* The server performs the request and answers, or there is an error and no
\* response, of a request that was performed or not.
Respond(thread, performed) ==
  /\ \/ /\ performed /\ UNCHANGED errors
        /\ \E a \in NewAddresses :
             mine' = [mine EXCEPT ![thread] = a] /\ live' = live \cup {a}
     \/ /\ errors < Errors /\ errors' = errors + 1
        /\ performed \/ UNCHANGED cseVars
        /\ UNCHANGED <<mine, live>>
  /\ Goto(thread, "load")
  /\ UNCHANGED <<respObj, old, heap, raced>>

Load(thread) ==
  /\ pc[thread] = "load" /\ Up
  /\ old' = [old EXCEPT ![thread] = respObj]
  /\ raced' = (raced \/ \E other \in Threads \ {thread} : pc[other] = "store")
  /\ Goto(thread, "store")
  /\ UNCHANGED <<mainVars, reading, respObj, mine, live, heap,
                 cseVars, pinged, errors, boots>>

\* What respObj owns after the assignment, nothing after an error.
\* Mutated: as with a plain pointer that is only set to a response there is.
Owned_KeptOnError(thread) == IF mine[thread] = 0 THEN old[thread] ELSE mine[thread]
Owned(thread) == mine[thread]

\* To delete what is not there is undefined.
StoreAndDelete(thread) ==
  /\ pc[thread] = "store"
  /\ respObj' = Owned(thread)
  /\ live' = live \ {old[thread]}
  /\ heap' = IF old[thread] \in live \cup {0} THEN heap ELSE "corrupt"
  /\ mine' = [mine EXCEPT ![thread] = 0] /\ old' = [old EXCEPT ![thread] = 0]
  /\ UNCHANGED raced

\* With a corrupt heap the program may be aborted at any time, or go on.
Abort ==
  /\ heap = "corrupt" /\ Up
  /\ Goto("main", "aborted")
  /\ UNCHANGED <<mainVars, reading, objVars, cseVars, pinged, errors, boots>>

(***************************************************************************)
(* The main thread.                                                        *)
(***************************************************************************)

\* updateMeterValueRand: getRunningValue adds to the running value, which the
\* meter takes over.
\* Mutated: the value is set, not run up.
Update_Fresh(increment) == increment
Update(increment) == meterValue + increment

MainUpdate ==
  /\ pc["main"] = "update"
  /\ \E increment \in Increments : meterValue' = Update(increment)
  /\ reports' = reports + 1
  /\ reading' = [reading EXCEPT !["main"] = Report(boots, reports', meterValue')]
  /\ Goto("main", "request")
  /\ UNCHANGED <<step, objVars, cseVars, pinged, errors, boots>>

MainRequest ==
  /\ pc["main"] = "request"
  /\ Respond("main", IF Op(step) = "reading" THEN Store(contName, reading["main"])
                                             ELSE Create(Op(step)))
  /\ UNCHANGED <<mainVars, reading, pinged, boots>>

\* On to the next request, or to terminate.
MainStore ==
  /\ StoreAndDelete("main")
  /\ \/ /\ More(step)
        /\ step' = step + 1 /\ Goto("main", Before(step + 1))
     \/ ~ More(step) /\ Goto("main", "finished") /\ UNCHANGED step
  /\ UNCHANGED <<meterValue, reports, reading, cseVars, pinged, errors, boots>>

(***************************************************************************)
(* The callback thread.                                                    *)
(***************************************************************************)

\* The reading that is posted for a ping: the meter's when it is handled.
\* Mutated: the one that was read for the ping before.
Answer_Kept == reading["callback"].kWH
Answer == meterValue

\* Mutated: everything is taken for a verification request.
IsVerification_Always(notification) == TRUE
IsVerification(notification) == notification.verificationRequest

\* A verification request is accepted.  For a ping the meter is read.
CallbackStarts ==
  /\ pc["callback"] = "idle" /\ pending # <<>> /\ Up
  /\ pending' = Tail(pending)
  /\ IF IsVerification(Head(pending))
     THEN UNCHANGED <<pc, reading>>
     ELSE /\ reading' = [reading EXCEPT !["callback"] =
                           Reply(boots, Head(pending).asked, Answer)]
          /\ Goto("callback", "request")
  /\ UNCHANGED <<mainVars, objVars, known, data, pinged, errors, boots>>

\* Always to DATA.
CallbackRequest ==
  /\ pc["callback"] = "request" /\ Up
  /\ Respond("callback", Store("DATA", reading["callback"]))
  /\ UNCHANGED <<mainVars, reading, pinged, boots>>

CallbackStore ==
  /\ StoreAndDelete("callback") /\ Up
  /\ Goto("callback", "idle")
  /\ UNCHANGED <<mainVars, reading, cseVars, pinged, errors, boots>>

\* The program has ended, or is killed, and is started again.  The server
\* has kept what it had.
Restart ==
  /\ boots < Boots /\ boots' = boots + 1
  /\ pc' = [thread \in Threads |-> IF thread = "main" THEN "request" ELSE "idle"]
  /\ step' = 1 /\ meterValue' = 0
  /\ reading' = [thread \in Threads |-> NoReading]
  /\ respObj' = 0 /\ mine' = [thread \in Threads |-> 0] /\ old' = [thread \in Threads |-> 0]
  /\ live' = {} /\ heap' = "sound" /\ raced' = FALSE
  /\ pending' = <<>>
  /\ UNCHANGED <<reports, known, data, pinged, errors>>

Main     == MainUpdate \/ MainRequest \/ Load("main") \/ MainStore
Callback == CallbackStarts \/ CallbackRequest \/ Load("callback") \/ CallbackStore

Next == Main \/ Callback \/ WebappCreatesData \/ Ping \/ Abort \/ Restart

Spec == Init /\ [][Next]_vars

\* The callback thread is run and its requests end.  Nothing is asked of main,
\* which mostly waits for its next report.
FairSpec == Spec /\ WF_vars(Callback)

-----------------------------------------------------------------------------
(***************************************************************************)
(* Properties.                                                             *)
(***************************************************************************)
TypeOK ==
  /\ pc["main"] \in {"update", "request", "load", "store", "finished", "aborted"}
  /\ pc["callback"] \in {"idle", "request", "load", "store"}
  /\ step \in 1..LastStep /\ meterValue \in Nat
  /\ respObj \in Nat /\ heap \in {"sound", "corrupt"} /\ raced \in BOOLEAN
  /\ IsFiniteSet(live) /\ live \subseteq Nat \ {0}
  /\ \A thread \in Threads : mine[thread] \in Nat /\ old[thread] \in Nat
  /\ pinged \in 0..Pings /\ errors \in 0..Errors /\ boots \in 0..Boots

IsReply(it) == "asked" \in DOMAIN it

\* The container of main's readings is a feed as MeterFeed describes it: each
\* reading is stored once at most, while it is the latest one, whatever the
\* callback thread does meanwhile.  The callback thread puts its replies
\* between them if the container is DATA, and nothing into any other.
Feed == INSTANCE MeterFeed WITH
          Copies <- 1,
          Strangers <- IF contName = "DATA"
                       THEN [boot : Nat, asked : Nat, kWH : Nat] ELSE {},
          latest <- Report(boots, reports, meterValue),
          feed <- data[contName]
FeedSpec == Feed!Spec

\* A ping is answered with a reading that is no older than the ping.
ReplyIsFresh ==
  \A container \in Containers :
    \A i \in DOMAIN data[container] :
      LET it == data[container][i] IN IsReply(it) => it.kWH >= it.asked

\* The meter reports for as long as it was told to (-t) and no longer: the
\* loop, which waits secondsToDelay before each of its reports, ends with the
\* first one that is due after runtime minutes.  One report is made before it.
ReportsCoverRuntime ==
  (pc["main"] = "finished" /\ boots = 0) =>
    LET inLoop == reports - 1
    IN  /\ inLoop * secondsToDelay > 60 * runtime
        /\ (inLoop - 1) * secondsToDelay <= 60 * runtime

\* Every ping is answered with a reading, wherever main is, unless the program
\* ends or is started again or a request fails: the callback's post is not
\* repeated.
Replies == Cardinality({i \in DOMAIN data["DATA"] : IsReply(data["DATA"][i])})
PingsAreAnswered ==
  \A n \in 1..Pings :
    pinged = n ~> (Replies >= n \/ ~ Up \/ errors > 0 \/ boots > 0)

\* The two threads assign the unique_ptr respObj (MeterMain.cpp:63) without a
\* lock, and the addresses of deleted objects are used again.  As long as no two
\* assignments have overlapped, whatever the threads, errors and restarts do
\* otherwise, nothing is deleted twice, every object that is there has one owner,
\* and no owner has one that is gone.
Held == ({respObj} \cup {mine[thread] : thread \in Threads}) \ {0}
OneOwner ==
  \A thread \in Threads : mine[thread] # 0 =>
    /\ mine[thread] # respObj
    /\ \A other \in Threads \ {thread} : mine[other] # mine[thread]
OnlyRacesBreakTheHeap == ~ raced => heap = "sound" /\ live = Held /\ OneOwner

=============================================================================
