----------------------------- MODULE Bg96Client -----------------------------
(***************************************************************************)
(* The BG96 electricity meter, src/client_c/src/MeterMain.c.               *)
(*                                                                         *)
(* Three threads of the module share one ThreadX event flags group:        *)
(*   - the main thread runs run_ae(): it sets a data call up, connects     *)
(*     HTTP, creates the meter's resources one after the other             *)
(*     (op_state), and then reports the meter value once per cycle;        *)
(*   - the modem's thread calls dss_event_cb when the data call comes up   *)
(*     or is lost;                                                         *)
(*   - the oneM2M library's thread calls http_client_cb once for every     *)
(*     request it has accepted.                                            *)
(* The radio network, the HTTP transport and the CSE are the environment.  *)
(* What they may do wrong, and how often in one behaviour, is bounded by   *)
(* Budget: a behaviour with a zero budget for a fault never sees it.       *)
(*                                                                         *)
(* Environment assumptions, all from how the code uses the libraries:      *)
(*   - an accepted request gets exactly one callback (MeterMain.c:529      *)
(*     waits for it without a time limit);                                 *)
(*   - the modem reports the events of the data call in order, and every   *)
(*     loss of it (MeterMain.c:817-818 relies on this);                    *)
(*   - a request whose callback reported a failure may still be processed  *)
(*     by the server: for as long as its connection is open, or, when      *)
(*     ServesClosed, even after the meter has closed it.                   *)
(***************************************************************************)
EXTENDS Cse, Sequences, FiniteSets

CONSTANTS
  HTTP_ATTEMPTS,       \* attempts to connect, and to get a request answered
  DATA_CALL_ATTEMPTS,  \* attempts to set a data call up in one cycle
  Increments,          \* what rand() % 20 may yield
  MaxReports,          \* bound: readings taken in one behaviour
  ServesClosed,        \* may the CSE serve a request of a closed connection?
  Budget               \* bound: how often each fault may strike

\* start   a data call cannot be set up      dns     the DNS client fails
\* drop    the network ends the data call    connect the HTTP connect fails
\* lost    a request or its answer is lost   server  the CSE fails
\* delete  the web application deletes the   reboot  the device restarts
\*         meter's AE at the server
Faults == {"start", "dns", "drop", "connect", "lost", "server", "delete", "reboot"}

ASSUME ConstantsAssumption ==
  /\ HTTP_ATTEMPTS \in Nat \ {0}
  /\ DATA_CALL_ATTEMPTS \in Nat \ {0}
  /\ Increments \subseteq 0..19 /\ Increments # {}
  /\ MaxReports \in Nat
  /\ ServesClosed \in BOOLEAN
  /\ Budget \in [Faults -> Nat]

VARIABLES
  pc,            \* where the main thread is in run_ae
  op_state,      \* global op_state
  no_data_call,  \* local of run_ae
  done_report,   \* local of run_ae
  attempt,       \* the loop counter i of the three ..._with_retry functions
  myMeterValue,  \* global myMeterValue
  flags,         \* the event flags that are set in events_p
  call,          \* the data call, as the modem sees it
  dssEvents,     \* data call events the modem has not yet called back
  request,       \* the accepted request whose callback is to come
  late,          \* messages given up by the transport, not by the server
  known,         \* resources at the CSE
  data,          \* the messages stored in the DATA container, oldest first
  reports,       \* how many readings have been taken
  left           \* what is left of Budget

mainVars == <<pc, op_state, no_data_call, done_report, attempt, myMeterValue, reports>>
callVars == <<call, dssEvents>>
httpVars == <<request, late>>
cseVars  == <<known, data>>
vars == <<mainVars, flags, callVars, httpVars, cseVars, left>>

EVENT_CALL_CONNECT    == 1
EVENT_CALL_DISCONNECT == 2
EVENT_HTTP_SUCCESS    == 4
EVENT_HTTP_FAIL       == 8
CALL_EVENTS == {EVENT_CALL_CONNECT, EVENT_CALL_DISCONNECT}
HTTP_EVENTS == {EVENT_HTTP_SUCCESS, EVENT_HTTP_FAIL}
Events      == CALL_EVENTS \cup HTTP_EVENTS

MainPoints == {"boot", "check_call", "start_call", "wait_call", "config_dns",
               "http_connect", "next_request", "http_request", "wait_http",
               "sleep", "stopped"}

Boots == Budget["reboot"] - left["reboot"]

\* A reading is identified by the boot and the report it belongs to, which
\* the program does not send: they tell readings of equal value apart.
Reading == [boot : Nat, report : Nat, kWH : Nat]
Message == [op : OpStates, try : Nat, reading : Reading]

\* The life of the request main waits for: "none", "sent" (accepted by the
\* library), "replied" (the answer is on its way), "failed" (at HTTP level).
Request == [phase : {"none", "sent", "replied", "failed"}, msg : Message, rsc : Rscs]

CurrentReading == [boot |-> Boots, report |-> reports, kWH |-> myMeterValue]
NoMessage == [op |-> create_ae, try |-> 0,
              reading |-> [boot |-> 0, report |-> 0, kWH |-> 0]]
NoRequest == [phase |-> "none", msg |-> NoMessage, rsc |-> NO_RSC]

\* One fault of kind f strikes.
Spend(f) == left[f] > 0 /\ left' = [left EXCEPT ![f] = @ - 1]

\* tx_event_flags_get(..., TX_OR_CLEAR, ...) that finds one of the events.
Consume_Nothing(events) == UNCHANGED flags
Consume(events) == flags' = flags \ events

-----------------------------------------------------------------------------
Init ==
  /\ pc = "boot" /\ op_state = create_ae /\ no_data_call = TRUE
  /\ done_report = FALSE /\ attempt = 0 /\ myMeterValue = 0 /\ reports = 0
  /\ flags = {}
  /\ call = "down" /\ dssEvents = <<>>
  /\ request = NoRequest /\ late = {}
  /\ known = {} /\ data = <<>>
  /\ left = Budget

(***************************************************************************)
(* The main thread.                                                        *)
(***************************************************************************)

\* Everything before the main loop: allocation, onboarding, configuration,
\* DSS handle, HTTP session.  It ends in the main loop or in a stop.
Boot ==
  /\ pc = "boot"
  /\ pc' \in {"check_call", "stopped"}
  /\ no_data_call' = TRUE
  /\ UNCHANGED <<op_state, done_report, attempt, myMeterValue, reports,
                 flags, callVars, httpVars, cseVars, left>>

\* The endless sleep at the end of run_ae.
Stopped == pc = "stopped" /\ UNCHANGED vars

\* A cycle starts: with no_data_call, or with a loss of the call reported,
\* set a call up; otherwise go on with the one there is.
CheckCall ==
  /\ pc = "check_call"
  /\ IF no_data_call
     THEN pc' = "start_call" /\ UNCHANGED flags
     ELSE IF EVENT_CALL_DISCONNECT \in flags
     THEN pc' = "start_call" /\ Consume({EVENT_CALL_DISCONNECT})
     ELSE pc' = "http_connect" /\ UNCHANGED flags
  /\ attempt' = 0
  /\ UNCHANGED <<op_state, no_data_call, done_report, myMeterValue, reports,
                 callVars, httpVars, cseVars, left>>

\* Mutated: the flag is cleared whatever the status.
CallFailed_ClearsFlag ==
  /\ IF attempt + 1 < DATA_CALL_ATTEMPTS
     THEN pc' = "start_call" /\ attempt' = attempt + 1
     ELSE pc' = "sleep" /\ attempt' = 0
  /\ no_data_call' = FALSE

\* start_data_call did not return QAPI_OK: the next turn of
\* start_data_call_with_retry, or the end of this cycle.
CallFailed ==
  /\ IF attempt + 1 < DATA_CALL_ATTEMPTS
     THEN pc' = "start_call" /\ attempt' = attempt + 1
     ELSE pc' = "sleep" /\ attempt' = 0
  /\ UNCHANGED no_data_call

\* start_data_call up to its wait: clear both call flags, start the call.
\* Starting a call that is already up either fails or announces it again.
StartDataCall ==
  /\ pc = "start_call"
  /\ flags' = flags \ CALL_EVENTS
  /\ \/ /\ Spend("start")
        /\ CallFailed
        /\ UNCHANGED callVars
     \/ /\ pc' = "wait_call"
        /\ call' = IF call = "up" THEN "up" ELSE "starting"
        /\ dssEvents' = IF call = "up"
                        THEN Append(dssEvents, EVENT_CALL_CONNECT) ELSE dssEvents
        /\ UNCHANGED <<attempt, no_data_call, left>>
  /\ UNCHANGED <<op_state, done_report, myMeterValue, reports, httpVars, cseVars>>

\* The wait of start_data_call returns, clearing the flags it asked for.
WaitCall ==
  /\ pc = "wait_call"
  /\ flags \cap CALL_EVENTS # {}
  /\ Consume(CALL_EVENTS)
  /\ IF EVENT_CALL_CONNECT \in flags
     THEN pc' = "config_dns" /\ UNCHANGED <<attempt, no_data_call>>
     ELSE CallFailed
  /\ UNCHANGED <<op_state, done_report, myMeterValue, reports,
                 callVars, httpVars, cseVars, left>>

\* The DNS part of start_data_call.  Success clears no_data_call when it was
\* set and leaves it clear otherwise; a failure leaves the call up.
ConfigureDns ==
  /\ pc = "config_dns"
  /\ \/ /\ pc' = "http_connect" /\ attempt' = 0 /\ no_data_call' = FALSE
        /\ UNCHANGED left
     \/ Spend("dns") /\ CallFailed
  /\ UNCHANGED <<op_state, done_report, myMeterValue, reports, flags,
                 callVars, httpVars, cseVars>>

\* One turn of http_connect_with_retry.  There is no connection without a
\* data call, and with one it may still fail.
HttpConnect ==
  /\ pc = "http_connect"
  /\ \/ /\ call = "up"
        /\ pc' = "next_request" /\ attempt' = 0
        /\ UNCHANGED left
     \/ /\ IF call = "up" THEN Spend("connect") ELSE UNCHANGED left
        /\ IF attempt + 1 < HTTP_ATTEMPTS
           THEN pc' = pc /\ attempt' = attempt + 1
           ELSE pc' = "sleep" /\ attempt' = 0
  /\ UNCHANGED <<op_state, no_data_call, done_report, myMeterValue, reports,
                 flags, callVars, httpVars, cseVars>>

\* incrementMyMeterValue.
IncrementMyMeterValue_Replaces == \E r \in Increments : myMeterValue' = r
IncrementMyMeterValue == \E r \in Increments : myMeterValue' = myMeterValue + r

\* The head of the loop over the requests of a cycle: a report takes a new
\* reading first.
NextRequest ==
  /\ pc = "next_request"
  /\ pc' = "http_request" /\ attempt' = 0
  /\ done_report' = (op_state = reporting)
  /\ IF op_state = reporting
     THEN IncrementMyMeterValue /\ reports' = reports + 1
     ELSE UNCHANGED <<myMeterValue, reports>>
  /\ UNCHANGED <<op_state, no_data_call, flags, callVars, httpVars, cseVars, left>>

\* http_disconnect at the end of a cycle.
Disconnect == late' = IF ServesClosed THEN late ELSE {}

\* Mutated: one turn too many.
RequestFailed_OffByOne ==
  /\ UNCHANGED <<op_state, done_report>>
  /\ IF attempt < HTTP_ATTEMPTS
     THEN pc' = "http_request" /\ attempt' = attempt + 1 /\ UNCHANGED late
     ELSE pc' = "sleep" /\ attempt' = 0 /\ Disconnect

\* A turn of http_request_with_retry without success.
RequestFailed ==
  /\ UNCHANGED <<op_state, done_report>>
  /\ IF attempt + 1 < HTTP_ATTEMPTS
     THEN pc' = "http_request" /\ attempt' = attempt + 1 /\ UNCHANGED late
     ELSE pc' = "sleep" /\ attempt' = 0 /\ Disconnect

\* http_request_using_state: the library accepts the request, or refuses it
\* (no memory, connection broken).
HttpRequest ==
  /\ pc = "http_request"
  /\ \/ /\ request' = [phase |-> "sent", rsc |-> NO_RSC,
                       msg |-> [op |-> op_state, try |-> attempt,
                                reading |-> CurrentReading]]
        /\ pc' = "wait_http"
        /\ UNCHANGED <<op_state, done_report, attempt, late, left>>
     \/ /\ IF call = "up" THEN Spend("lost") ELSE UNCHANGED left
        /\ RequestFailed
        /\ UNCHANGED request
  /\ UNCHANGED <<no_data_call, myMeterValue, reports, flags, callVars, cseVars>>

\* op_state after a success: the next resource, or another report.
Advanced == IF op_state # reporting THEN op_state + 1 ELSE op_state

\* wait_for_http_session returns, clearing the flags it asked for; success
\* counts when both are set.  It moves op_state on, and a cycle goes on
\* until it has done a report.
WaitHttp ==
  /\ pc = "wait_http"
  /\ flags \cap HTTP_EVENTS # {}
  /\ Consume(HTTP_EVENTS)
  /\ IF EVENT_HTTP_SUCCESS \in flags
     THEN /\ op_state' = Advanced
          /\ attempt' = 0
          /\ UNCHANGED done_report
          /\ IF done_report THEN pc' = "sleep" /\ Disconnect
                            ELSE pc' = "next_request" /\ UNCHANGED late
     ELSE RequestFailed
  /\ UNCHANGED <<no_data_call, myMeterValue, reports, callVars, request, cseVars, left>>

\* The sleep until the next cycle.  A behaviour is observed for MaxReports
\* readings: after those the meter is left asleep.
WakeUp ==
  /\ pc = "sleep"
  /\ IF reports < MaxReports THEN pc' = "check_call" ELSE UNCHANGED pc
  /\ UNCHANGED <<op_state, no_data_call, done_report, attempt, myMeterValue, reports,
                 flags, callVars, httpVars, cseVars, left>>

Main == \/ Boot \/ CheckCall \/ StartDataCall \/ WaitCall \/ ConfigureDns
        \/ HttpConnect \/ NextRequest \/ HttpRequest \/ WaitHttp \/ WakeUp
        \/ Stopped

(***************************************************************************)
(* The callbacks.                                                          *)
(***************************************************************************)

\* Mutated: the case of a lost call is missing.
dss_event_cb_ConnectOnly ==
  /\ dssEvents # <<>>
  /\ flags' = flags \cup ({Head(dssEvents)} \ {EVENT_CALL_DISCONNECT})
  /\ dssEvents' = Tail(dssEvents)
  /\ UNCHANGED <<mainVars, call, httpVars, cseVars, left>>

\* The modem's thread delivers the oldest event.
dss_event_cb ==
  /\ dssEvents # <<>>
  /\ flags' = flags \cup {Head(dssEvents)}
  /\ dssEvents' = Tail(dssEvents)
  /\ UNCHANGED <<mainVars, call, httpVars, cseVars, left>>

\* Mutated: any answer with a oneM2M status will do.
IsSuccess_AnyStatus(rsc) == rsc # 0

\* Mutated: a resource that exists already is an error.
IsSuccess_NoConflict(rsc) == rsc # 0 /\ rsc <= 2999

\* What http_client_cb takes for success: any 2xxx status, or a conflict
\* while the meter is still creating its resources.
IsSuccess(rsc) ==
  /\ rsc # 0
  /\ rsc <= 2999 \/ (op_state # reporting /\ rsc = CONFLICT)

\* The library's thread delivers the outcome of the request.
http_client_cb ==
  /\ request.phase \in {"replied", "failed"}
  /\ flags' = flags \cup
       {IF request.phase = "replied" /\ IsSuccess(request.rsc)
        THEN EVENT_HTTP_SUCCESS ELSE EVENT_HTTP_FAIL}
  /\ request' = NoRequest
  /\ UNCHANGED <<mainVars, callVars, late, cseVars, left>>

Callbacks == dss_event_cb \/ http_client_cb

(***************************************************************************)
(* The environment.                                                        *)
(***************************************************************************)

\* The network grants or refuses the call that is being started.
CallUp ==
  /\ call = "starting"
  /\ call' = "up" /\ dssEvents' = Append(dssEvents, EVENT_CALL_CONNECT)
  /\ UNCHANGED <<mainVars, flags, httpVars, cseVars, left>>

CallRefused ==
  /\ call = "starting"
  /\ Spend("start")
  /\ call' = "down" /\ dssEvents' = Append(dssEvents, EVENT_CALL_DISCONNECT)
  /\ UNCHANGED <<mainVars, flags, httpVars, cseVars>>

CallDrop ==
  /\ call = "up"
  /\ Spend("drop")
  /\ call' = "down" /\ dssEvents' = Append(dssEvents, EVENT_CALL_DISCONNECT)
  /\ UNCHANGED <<mainVars, flags, httpVars, cseVars>>

\* The server processes a create message.
Create(msg) ==
  /\ known' = IF Answer(known, msg.op) = CREATED THEN known \cup Made(msg.op) ELSE known
  /\ data' = IF Answer(known, msg.op) = CREATED /\ msg.op = reporting
             THEN Append(data, msg) ELSE data

CseServe ==
  /\ request.phase = "sent" /\ call = "up"
  /\ request' = [request EXCEPT !.phase = "replied",
                                !.rsc = Answer(known, request.msg.op)]
  /\ Create(request.msg)
  /\ UNCHANGED <<mainVars, flags, callVars, late, left>>

\* The server answers with an error, or a proxy without a oneM2M status.
CseError ==
  /\ request.phase = "sent" /\ call = "up"
  /\ Spend("server")
  /\ \E rsc \in {SERVER_ERROR, NO_RSC} :
       request' = [request EXCEPT !.phase = "replied", !.rsc = rsc]
  /\ UNCHANGED <<mainVars, flags, callVars, late, cseVars>>

\* The transport gives up: the request is gone, or still on its way to the
\* server, or served and only its answer is lost.  This needs a fault
\* unless the data call is down.
TransportFails ==
  /\ request.phase \in {"sent", "replied"}
  /\ IF call = "up" THEN Spend("lost") ELSE UNCHANGED left
  /\ request' = [request EXCEPT !.phase = "failed"]
  /\ \/ UNCHANGED late
     \/ request.phase = "sent" /\ late' = late \cup {request.msg}
  /\ UNCHANGED <<mainVars, flags, callVars, cseVars>>

\* A message the transport gave up reaches the server after all.
CseServeLate ==
  /\ \E msg \in late : Create(msg) /\ late' = late \ {msg}
  /\ UNCHANGED <<mainVars, flags, callVars, request, left>>

\* The web application's /api/delete removes the AE and all below it.
DeleteAE ==
  /\ "AE" \in known
  /\ Spend("delete")
  /\ known' = {} /\ data' = <<>>
  /\ UNCHANGED <<mainVars, flags, callVars, httpVars>>

\* The device restarts: all it has in memory is gone, the server's
\* resources are not.  Mutated: op_state is kept.
RestartState_Kept == op_state
RestartState == create_ae

Reboot ==
  /\ Spend("reboot")
  /\ pc' = "boot" /\ op_state' = RestartState /\ no_data_call' = TRUE
  /\ done_report' = FALSE /\ attempt' = 0 /\ myMeterValue' = 0
  /\ flags' = {}
  /\ call' = "down" /\ dssEvents' = <<>>
  /\ request' = NoRequest
  /\ IF ~ ServesClosed THEN late' = {}
     ELSE \/ UNCHANGED late
          \/ request.phase = "sent" /\ late' = late \cup {request.msg}
  /\ UNCHANGED <<reports, cseVars>>

Environment == \/ CallUp \/ CallRefused \/ CallDrop
               \/ CseServe \/ CseError \/ TransportFails \/ CseServeLate
               \/ DeleteAE \/ Reboot

Next == Main \/ Callbacks \/ Environment

Spec == Init /\ [][Next]_vars

\* The threads run, the network settles a call that is being started and
\* the transport settles a request; nothing forces a fault.
Fairness ==
  /\ WF_vars(Main)
  /\ WF_vars(dss_event_cb)
  /\ WF_vars(http_client_cb)
  /\ WF_vars(CallUp \/ CallRefused)
  /\ WF_vars(CseServe \/ CseError \/ TransportFails)

FairSpec == Spec /\ Fairness

-----------------------------------------------------------------------------
(***************************************************************************)
(* Properties.                                                             *)
(***************************************************************************)

\* The type of every variable.  A reboot after the last reading may add one.
TypeOK ==
  /\ pc \in MainPoints /\ op_state \in OpStates
  /\ no_data_call \in BOOLEAN /\ done_report \in BOOLEAN
  /\ attempt \in 0..(HTTP_ATTEMPTS + DATA_CALL_ATTEMPTS)
  /\ myMeterValue \in Nat /\ reports \in Nat
  /\ flags \subseteq Events
  /\ call \in {"down", "starting", "up"} /\ dssEvents \in Seq(CALL_EVENTS)
  /\ request \in Request /\ late \subseteq Message
  /\ known \subseteq Resources /\ data \in Seq(Message)
  /\ left \in [Faults -> Nat] /\ \A f \in Faults : left[f] <= Budget[f]

Deleted == left["delete"] < Budget["delete"]

\* The main thread never starts a request, or sleeps, with an answer to an
\* earlier request still set or still to come: wait_for_http_session would
\* take it for the answer to the next request and op_state would skip a
\* resource.  Nothing clears the HTTP flags before a request is sent.
NoStaleAnswer ==
  pc # "wait_http" => request.phase = "none" /\ flags \cap HTTP_EVENTS = {}

\* Every wait without a time limit has somebody left to end it: the waits of
\* start_data_call and of wait_for_http_session cannot hang the meter.
WaitsEnd ==
  /\ pc = "wait_call" => \/ call = "starting" \/ dssEvents # <<>>
                         \/ flags \cap CALL_EVENTS # {}
  /\ pc = "wait_http" => request.phase # "none" \/ flags \cap HTTP_EVENTS # {}

\* The meter never gets ahead of the server: whatever op_state it has reached,
\* through conflicts, retries and reboots, the resources of all earlier
\* states exist, unless somebody deleted them.
ProvisionedInOrder ==
  ~ Deleted => \A op \in OpStates : op < op_state => Made(op) \subseteq known

\* A report the meter takes for delivered is in the DATA container.
AcknowledgedIsStored ==
  (EVENT_HTTP_SUCCESS \in flags /\ op_state = reporting /\ ~ Deleted)
    => \E i \in DOMAIN data : data[i].reading = CurrentReading

\* The DATA container is a meter's record: oldest reading first, and the kWh
\* never go back between two restarts of the device, whatever was retried.
ReadingsInOrder ==
  \A i, j \in DOMAIN data : i < j =>
    LET first == data[i].reading  second == data[j].reading IN
      /\ first.report <= second.report
      /\ first.boot = second.boot => first.kWH <= second.kWH

\* Retries deliver a reading at least once, and at most HTTP_ATTEMPTS times.
CopiesBounded ==
  \A i \in DOMAIN data :
    Cardinality({j \in DOMAIN data : data[j].reading = data[i].reading}) <= HTTP_ATTEMPTS

\* All in all the DATA container is the feed MeterFeed promises: nothing in it
\* was not measured, and nothing is late, reordered or stored too often.
Feed == INSTANCE MeterFeed WITH
          Copies <- HTTP_ATTEMPTS, Strangers <- {},
          latest <- CurrentReading,
          feed   <- [i \in DOMAIN data |-> data[i].reading]
FeedSpec == Feed!Spec

\* Main has seen all that was announced of the call, or one event is on its way.
Quiet == dssEvents = <<>> /\ flags \cap CALL_EVENTS = {}
Announced(event) ==
  \/ dssEvents = <<event>> /\ flags \cap CALL_EVENTS = {}
  \/ dssEvents = <<>> /\ flags \cap CALL_EVENTS = {event}
LossAnnounced == call = "down" /\ Announced(EVENT_CALL_DISCONNECT)

\* What main believes of the call is true, or an event will correct it.
CallIsKnown ==
  /\ pc = "wait_call" => \/ call = "starting" /\ Quiet
                         \/ call = "up" /\ Announced(EVENT_CALL_CONNECT)
                         \/ LossAnnounced /\ no_data_call
  /\ pc # "wait_call" => /\ call # "starting"
                         /\ Quiet \/ (LossAnnounced /\ ~ no_data_call)
  /\ pc \in {"start_call", "config_dns"} => Quiet
  /\ pc = "config_dns" => call = "up"
  /\ pc = "http_connect" => ~ no_data_call
  /\ pc = "boot" => no_data_call
  /\ ~ no_data_call /\ pc \notin {"start_call", "wait_call"} => call = "up" \/ LossAnnounced

\* The two races that make main lose sight of the call: the network ends it
\* while main is setting it up, or before main believes in it; and a set-up
\* fails while main still believes in the call that was lost before it.
DropUnseen == /\ CallDrop
              /\ no_data_call \/ pc \in {"start_call", "wait_call", "config_dns"}
SetupFails == left'["start"] # left["start"] /\ ~ no_data_call

\* "Make sure there is a data call up" (MeterMain.c:826): however often calls
\* are refused, dropped and announced, and whatever requests do meanwhile, main
\* knows what became of its call, or has the event to come that tells it; and
\* only those two races can end that, until a restart mends it.
OnlyRacesForget ==
  [][(CallIsKnown \/ Reboot) => (CallIsKnown' \/ DropUnseen \/ SetupFails)]_vars

\* When main goes on to HTTP the call is up, or its loss will be seen next cycle.
LossNotForgotten ==
  pc = "http_connect" =>
    \/ call = "up"
    \/ EVENT_CALL_DISCONNECT \in flags
    \/ \E i \in DOMAIN dssEvents : dssEvents[i] = EVENT_CALL_DISCONNECT

\* A cycle that ends without a data call is followed by a new attempt to set
\* one up, "at the next scheduled report time" (MeterMain.c:94).
DataCallRetried ==
  (pc = "sleep" /\ call = "down" /\ reports < MaxReports)
    ~> pc \in {"start_call", "stopped"}

\* Once the faults are over, the meter's readings reach the server, if nobody
\* deletes it there and no restart loses the last one that is observed.
ReadingsArrive ==
  \/ <>(pc = "stopped") \/ <>Deleted
  \/ <>(Boots > 0 /\ pc = "sleep" /\ reports >= MaxReports)
  \/ <>(\E i \in DOMAIN data : data[i].reading.report >= MaxReports)

\* While the meter reports it does not notice that it was deleted at the server
\* (a report is answered NOT_FOUND and given up).  A restart mends it: every
\* resource is created again.  This is for one deletion in a behaviour.
ReprovisionedAfterReboot ==
  (pc = "boot" /\ Deleted /\ reports < MaxReports)
    ~> (pc = "stopped" \/ known = Resources)

-----------------------------------------------------------------------------
(***************************************************************************)
(* What the proofs need besides: the inductive invariant.                  *)
(***************************************************************************)

\* The outstanding request is the one main would send now.
RequestIsCurrent ==
  request.phase # "none" =>
    /\ request.msg = [op |-> op_state, try |-> attempt, reading |-> CurrentReading]
    /\ flags \cap HTTP_EVENTS = {}

\* What the request main waits for asks for is there.
Delivered ==
  /\ Made(op_state) \subseteq known
  /\ op_state = reporting => \E i \in DOMAIN data : data[i].reading = CurrentReading

\* A success, under way or already set, is not a lie.
SuccessIsTrue ==
  ~ Deleted =>
    /\ (request.phase = "replied" /\ IsSuccess(request.rsc)) => Delivered
    /\ EVENT_HTTP_SUCCESS \in flags => Delivered

\* A cycle takes a reading exactly when it sends a report.
ReportIsDone ==
  pc \in {"http_request", "wait_http"} => (done_report <=> op_state = reporting)

\* The server never knows more than the meter has measured.
DataIsPast ==
  \A i \in DOMAIN data :
    LET stored == data[i].reading IN
      /\ stored.report <= reports /\ stored.boot <= Boots
      /\ stored.boot = Boots => stored.kWH <= myMeterValue

\* Reports given up by the transport belong to the present cycle, when the
\* server forgets those of a closed connection.
LateIsCurrent ==
  \A msg \in late : msg.op = reporting =>
    /\ msg.reading = CurrentReading
    /\ done_report /\ pc \in {"http_request", "wait_http"}

\* The messages that hold a report: stored, or still on their way.
Stored == {data[i] : i \in DOMAIN data}
Reports == Stored \cup {msg \in late : msg.op = reporting}

\* Every attempt to deliver a reading is counted, and none is stored twice.
\* A message with the current report has an earlier number than the attempt
\* main is about to make, or has just made.
AttemptsAreCounted ==
  /\ \A msg \in Reports : msg.reading.report <= reports /\ msg.try < HTTP_ATTEMPTS
  /\ \A msg \in Stored : msg.op = reporting
  /\ \A i, j \in DOMAIN data : data[i] = data[j] => i = j
  /\ Stored \cap late = {}
  /\ \A msg \in Reports :
       (op_state = reporting /\ msg.reading.report = reports) =>
         /\ pc = "http_request" => msg.try < attempt
         /\ pc = "wait_http" => \/ msg.try < attempt
                                \/ msg.try = attempt /\ request.phase # "sent"
  /\ pc \in {"http_request", "wait_http"} => attempt < HTTP_ATTEMPTS

\* Inductive for any server.
IInv == /\ TypeOK /\ NoStaleAnswer /\ WaitsEnd /\ RequestIsCurrent
        /\ SuccessIsTrue /\ ProvisionedInOrder /\ ReportIsDone

\* Inductive, with IInv, when ~ ServesClosed.
OrderInv == DataIsPast /\ LateIsCurrent /\ ReadingsInOrder

=============================================================================
