-------------------------- MODULE Bg96ClientProofs --------------------------
(***************************************************************************)
(* Proofs about Bg96Client, for every value of its constants.              *)
(***************************************************************************)
EXTENDS Bg96Client, FunctionTheorems, FiniteSetTheorems,
        SequenceTheorems, TLAPS

\* The names that stand for numbers and sets of them.
USE DEF create_ae, create_container, create_descriptor, populate_descriptor,
        reporting, OpStates

\* A fault leaves the budget a function to the naturals, and never above Budget.
LEMMA SpendType ==
  ASSUME TypeOK, NEW f \in Faults, Spend(f)
  PROVE  left' \in [Faults -> Nat] /\ \A g \in Faults : left'[g] <= Budget[g]
<1>1. left \in [Faults -> Nat] /\ left[f] \in Nat /\ left[f] > 0
  BY DEF TypeOK, Spend
<1>2. left' = [left EXCEPT ![f] = left[f] - 1]
  BY DEF Spend
<1>3. left' \in [Faults -> Nat]
  BY <1>1, <1>2
<1>4. ASSUME NEW g \in Faults PROVE left'[g] <= Budget[g]
  <2>1. left[g] \in Nat /\ Budget[g] \in Nat /\ left[g] <= Budget[g]
    BY ConstantsAssumption DEF TypeOK
  <2>2. left'[g] \in Int /\ left'[g] <= left[g]
    BY <1>1, <1>2, <2>1
  <2> QED
    BY <2>1, <2>2
<1> QED
  BY <1>3, <1>4

\* A turn of start_data_call_with_retry without success keeps its types.
LEMMA CallFailedType ==
  ASSUME TypeOK, CallFailed
  PROVE  /\ pc' \in MainPoints /\ no_data_call' \in BOOLEAN
         /\ attempt' \in 0..(HTTP_ATTEMPTS + DATA_CALL_ATTEMPTS)
<1>1. /\ attempt \in Nat /\ HTTP_ATTEMPTS \in Nat /\ DATA_CALL_ATTEMPTS \in Nat
      /\ no_data_call \in BOOLEAN
  BY ConstantsAssumption DEF TypeOK
<1>2. pc' \in MainPoints /\ attempt' \in Nat /\ attempt' <= HTTP_ATTEMPTS + DATA_CALL_ATTEMPTS
  BY <1>1 DEF CallFailed, MainPoints
<1>3. no_data_call' \in BOOLEAN
  BY <1>1 DEF CallFailed
<1> QED
  BY <1>1, <1>2, <1>3

\* So does a turn of http_request_with_retry without success.
LEMMA RequestFailedType ==
  ASSUME TypeOK, RequestFailed
  PROVE  /\ pc' \in MainPoints /\ late' \subseteq Message
         /\ attempt' \in 0..(HTTP_ATTEMPTS + DATA_CALL_ATTEMPTS)
<1>1. attempt \in Nat /\ HTTP_ATTEMPTS \in Nat /\ DATA_CALL_ATTEMPTS \in Nat
  BY ConstantsAssumption DEF TypeOK
<1>2. pc' \in MainPoints /\ attempt' \in Nat /\ attempt' <= HTTP_ATTEMPTS + DATA_CALL_ATTEMPTS
  BY <1>1 DEF RequestFailed, MainPoints
<1>3. late' \subseteq Message
  BY DEF RequestFailed, Disconnect, TypeOK
<1> QED
  BY <1>1, <1>2, <1>3

\* What the server stores is a resource or a message.
LEMMA CreateType ==
  ASSUME TypeOK, NEW msg \in Message, Create(msg)
  PROVE  known' \subseteq Resources /\ data' \in Seq(Message)
<1>1. known' \subseteq Resources
  BY DEF Create, Made, Resources, Message, TypeOK
<1>2. data' \in Seq(Message)
  BY DEF Create, TypeOK
<1> QED
  BY <1>1, <1>2

\* The CSE answers every request with one of its status codes.
LEMMA AnswerType == ASSUME NEW op \in OpStates PROVE Answer(known, op) \in Rscs
  BY DEF Answer, Rscs

\* The request of an idle client is well formed.
LEMMA NoRequestType == NoRequest \in Request
  BY DEF NoRequest, NoMessage, Request, Message, Reading, Rscs

\* The number of boots so far is a natural number.
LEMMA BootsType == ASSUME TypeOK PROVE Boots \in Nat
<1>1. left["reboot"] \in Nat /\ Budget["reboot"] \in Nat /\ left["reboot"] <= Budget["reboot"]
  BY ConstantsAssumption DEF TypeOK, Faults
<1> QED
  BY <1>1 DEF Boots

\* The reading incrementMyMeterValue last made is well formed.
LEMMA CurrentReadingType == ASSUME TypeOK PROVE CurrentReading \in Reading
  BY BootsType DEF CurrentReading, Reading, TypeOK

\* The queue of data-call events stays a queue of such events.
LEMMA AppendType ==
  ASSUME TypeOK, NEW event \in CALL_EVENTS
  PROVE  Append(dssEvents, event) \in Seq(CALL_EVENTS)
  BY DEF TypeOK

\* Every step keeps every variable in its type.
LEMMA TypeStep == TypeOK /\ [Next]_vars => TypeOK'
<1> SUFFICES ASSUME TypeOK, [Next]_vars PROVE TypeOK'
  OBVIOUS
<1>a. left' \in [Faults -> Nat] /\ \A f \in Faults : left'[f] <= Budget[f]
  <2>1. (\E f \in Faults : Spend(f)) \/ UNCHANGED left
    BY DEF Next, Main, Callbacks, Environment, Boot, CheckCall, StartDataCall, WaitCall,
       ConfigureDns, HttpConnect, NextRequest, HttpRequest, WaitHttp, Advanced, WakeUp, Stopped,
       dss_event_cb, http_client_cb, CallUp, CallRefused, CallDrop, CseServe, CseError,
       TransportFails, CseServeLate, DeleteAE, Reboot, Faults, vars
  <2> QED
    BY <2>1, SpendType DEF TypeOK
<1>b. /\ 0 \in 0..(HTTP_ATTEMPTS + DATA_CALL_ATTEMPTS)
      /\ \A i \in Nat : i + 1 < HTTP_ATTEMPTS => i + 1 \in 0..(HTTP_ATTEMPTS + DATA_CALL_ATTEMPTS)
  BY ConstantsAssumption
<1>1. CASE Boot
  BY <1>a, <1>1 DEF TypeOK, Boot, MainPoints, callVars, httpVars, cseVars
<1>2. CASE CheckCall
  BY <1>a, <1>b, <1>2 DEF TypeOK, CheckCall, Consume, MainPoints, callVars, httpVars, cseVars
<1>3. CASE StartDataCall
  <2>1. /\ pc' \in MainPoints /\ no_data_call' \in BOOLEAN
        /\ attempt' \in 0..(HTTP_ATTEMPTS + DATA_CALL_ATTEMPTS)
    BY <1>3, CallFailedType DEF StartDataCall, TypeOK, MainPoints
  <2>2. call' \in {"down", "starting", "up"} /\ dssEvents' \in Seq(CALL_EVENTS)
    <3>1. EVENT_CALL_CONNECT \in CALL_EVENTS
      BY DEF CALL_EVENTS
    <3> QED
      BY <1>3, <3>1, AppendType DEF StartDataCall, TypeOK, callVars
  <2> QED
    BY <1>a, <1>3, <2>1, <2>2 DEF StartDataCall, TypeOK, httpVars, cseVars
<1>4. CASE WaitCall
  <2>1. /\ pc' \in MainPoints /\ no_data_call' \in BOOLEAN
        /\ attempt' \in 0..(HTTP_ATTEMPTS + DATA_CALL_ATTEMPTS)
    BY <1>4, CallFailedType DEF WaitCall, TypeOK, MainPoints
  <2> QED
    BY <1>a, <1>4, <2>1 DEF WaitCall, Consume, TypeOK, callVars, httpVars, cseVars
<1>5. CASE ConfigureDns
  <2>1. /\ pc' \in MainPoints /\ no_data_call' \in BOOLEAN
        /\ attempt' \in 0..(HTTP_ATTEMPTS + DATA_CALL_ATTEMPTS)
    BY <1>5, <1>b, CallFailedType DEF ConfigureDns, MainPoints
  <2> QED
    BY <1>a, <1>5, <2>1 DEF ConfigureDns, TypeOK, callVars, httpVars, cseVars
<1>6. CASE HttpConnect
  <2>1. pc' \in MainPoints /\ attempt' \in 0..(HTTP_ATTEMPTS + DATA_CALL_ATTEMPTS)
    BY <1>6, <1>b DEF HttpConnect, MainPoints, TypeOK
  <2> QED
    BY <1>a, <1>6, <2>1 DEF HttpConnect, TypeOK, callVars, httpVars, cseVars
<1>7. CASE NextRequest
  <2>1. myMeterValue' \in Nat /\ reports' \in Nat
    <3>1. \A r \in Increments : r \in Nat
      BY ConstantsAssumption
    <3> QED
      BY <1>7, <3>1 DEF NextRequest, IncrementMyMeterValue, TypeOK
  <2> QED
    BY <1>a, <1>b, <1>7, <2>1 DEF NextRequest, TypeOK, MainPoints, callVars, httpVars, cseVars
<1>8. CASE HttpRequest
  <2>1. /\ pc' \in MainPoints /\ late' \subseteq Message
        /\ attempt' \in 0..(HTTP_ATTEMPTS + DATA_CALL_ATTEMPTS)
    BY <1>8, RequestFailedType DEF HttpRequest, TypeOK, MainPoints
  <2>2. op_state' \in OpStates /\ done_report' \in BOOLEAN
    BY <1>8 DEF HttpRequest, RequestFailed, TypeOK
  <2>3. request' \in Request
    <3>1. attempt \in Nat
      BY ConstantsAssumption DEF TypeOK
    <3> QED
      BY <1>8, <3>1, CurrentReadingType DEF HttpRequest, Request, Message, Rscs, TypeOK
  <2> QED
    BY <1>a, <1>8, <2>1, <2>2, <2>3 DEF HttpRequest, TypeOK, callVars, cseVars
<1>9. CASE WaitHttp
  <2>1. /\ pc' \in MainPoints /\ late' \subseteq Message
        /\ attempt' \in 0..(HTTP_ATTEMPTS + DATA_CALL_ATTEMPTS)
    BY <1>9, <1>b, RequestFailedType DEF WaitHttp, Advanced, Disconnect, TypeOK, MainPoints
  <2>2. op_state' \in OpStates /\ done_report' \in BOOLEAN
    BY <1>9 DEF WaitHttp, Advanced, RequestFailed, TypeOK
  <2> QED
    BY <1>a, <1>9, <2>1, <2>2 DEF WaitHttp, Advanced, Consume, TypeOK, callVars, cseVars
<1>10. CASE WakeUp
  BY <1>a, <1>10 DEF TypeOK, WakeUp, MainPoints, callVars, httpVars, cseVars
<1>11. CASE Stopped \/ UNCHANGED vars
  BY <1>11 DEF TypeOK, Stopped, vars, mainVars, callVars, httpVars, cseVars
<1>12. CASE dss_event_cb
  BY <1>a, <1>12 DEF TypeOK, dss_event_cb, mainVars, httpVars, cseVars, CALL_EVENTS, Events
<1>13. CASE http_client_cb
  BY <1>a, <1>13, NoRequestType DEF TypeOK, http_client_cb, mainVars, callVars, cseVars,
     HTTP_EVENTS, Events
<1>14. CASE CallUp
  BY <1>a, <1>14 DEF TypeOK, CallUp, mainVars, httpVars, cseVars, CALL_EVENTS
<1>15. CASE CallRefused \/ CallDrop
  <2>1. call' \in {"down", "starting", "up"} /\ dssEvents' \in Seq(CALL_EVENTS)
    <3>1. EVENT_CALL_DISCONNECT \in CALL_EVENTS
      BY DEF CALL_EVENTS
    <3> QED
      BY <1>15, <3>1, AppendType DEF CallRefused, CallDrop
  <2> QED
    BY <1>a, <1>15, <2>1 DEF TypeOK, CallRefused, CallDrop, mainVars, httpVars, cseVars
<1>16. CASE CseServe
  <2>1. request.msg \in Message /\ request.msg.op \in OpStates
    BY DEF TypeOK, Request, Message
  <2>2. known' \subseteq Resources /\ data' \in Seq(Message)
    BY <1>16, <2>1, CreateType DEF CseServe
  <2>3. request' \in Request
    BY <1>16, <2>1, AnswerType DEF CseServe, TypeOK, Request
  <2> QED
    BY <1>a, <1>16, <2>2, <2>3 DEF CseServe, TypeOK, mainVars, callVars
<1>17. CASE CseError
  BY <1>a, <1>17 DEF TypeOK, CseError, Request, Rscs, mainVars, callVars, cseVars
<1>18. CASE TransportFails
  BY <1>a, <1>18 DEF TypeOK, TransportFails, Request, mainVars, callVars, cseVars
<1>19. CASE CseServeLate
  BY <1>a, <1>19, CreateType DEF TypeOK, CseServeLate, mainVars, callVars
<1>20. CASE DeleteAE
  BY <1>a, <1>20 DEF TypeOK, DeleteAE, mainVars, callVars, httpVars
<1>21. CASE Reboot
  <2>1. late' \subseteq Message
    BY <1>21 DEF Reboot, RestartState, TypeOK, Request
  <2>2. pc' \in MainPoints /\ op_state' \in OpStates /\ dssEvents' \in Seq(CALL_EVENTS)
    BY <1>21 DEF Reboot, RestartState, MainPoints
  <2> QED
    BY <1>a, <1>b, <1>21, <2>1, <2>2, NoRequestType DEF Reboot, RestartState, TypeOK, cseVars
<1> QED
  BY <1>1, <1>2, <1>3, <1>4, <1>5, <1>6, <1>7, <1>8, <1>9, <1>10, <1>11, <1>12,
     <1>13, <1>14, <1>15, <1>16, <1>17, <1>18, <1>19, <1>20, <1>21
  DEF Next, Main, Callbacks, Environment

\* The meter boots with every variable in its type.
LEMMA TypeInit == Init => TypeOK
<1> SUFFICES ASSUME Init PROVE TypeOK
  OBVIOUS
<1>1. left \in [Faults -> Nat] /\ \A f \in Faults : left[f] <= Budget[f]
  BY ConstantsAssumption DEF Init
<1>2. attempt \in 0..(HTTP_ATTEMPTS + DATA_CALL_ATTEMPTS)
  BY ConstantsAssumption DEF Init
<1>3. dssEvents \in Seq(CALL_EVENTS) /\ data \in Seq(Message)
  BY DEF Init
<1>4. /\ no_data_call \in BOOLEAN /\ done_report \in BOOLEAN
      /\ flags \subseteq Events /\ late \subseteq Message /\ known \subseteq Resources
  BY DEF Init
<1>5. pc \in MainPoints /\ op_state \in OpStates /\ myMeterValue \in Nat /\ reports \in Nat
  BY DEF Init, MainPoints
<1>6. call \in {"down", "starting", "up"} /\ request \in Request
  BY NoRequestType DEF Init
<1> QED
  BY <1>1, <1>2, <1>3, <1>4, <1>5, <1>6 DEF TypeOK

\* Every variable always has its type.
THEOREM TypeCorrect == Spec => []TypeOK
  BY TypeInit, TypeStep, PTL DEF Spec

-----------------------------------------------------------------------------
\* A fault of one kind leaves the budget of the others alone.
LEMMA SpendOther ==
  ASSUME TypeOK, NEW f \in Faults, NEW g \in Faults, f # g, Spend(f)
  PROVE  left'[g] = left[g]
  BY DEF TypeOK, Spend

\* Only a reboot counts as a boot.
LEMMA BootsKept == ASSUME TypeOK, [Next]_vars, ~ Reboot PROVE Boots' = Boots
<1>1. (\E f \in Faults : f # "reboot" /\ Spend(f)) \/ UNCHANGED left
  BY DEF Next, Main, Callbacks, Environment, Boot, CheckCall, StartDataCall, WaitCall,
     ConfigureDns, HttpConnect, NextRequest, HttpRequest, WaitHttp, Advanced, WakeUp, Stopped,
     dss_event_cb, http_client_cb, CallUp, CallRefused, CallDrop, CseServe, CseError,
     TransportFails, CseServeLate, DeleteAE, Faults, vars
<1>2. left'["reboot"] = left["reboot"]
  BY <1>1, SpendOther DEF Faults
<1> QED
  BY <1>2 DEF Boots

\* Only the removal of the AE at the CSE counts as one.
LEMMA DeletedKept == ASSUME TypeOK, [Next]_vars, ~ DeleteAE PROVE Deleted' = Deleted
<1>1. (\E f \in Faults : f # "delete" /\ Spend(f)) \/ UNCHANGED left
  BY DEF Next, Main, Callbacks, Environment, Boot, CheckCall, StartDataCall, WaitCall,
     ConfigureDns, HttpConnect, NextRequest, HttpRequest, WaitHttp, Advanced, WakeUp, Stopped,
     dss_event_cb, http_client_cb, CallUp, CallRefused, CallDrop, CseServe, CseError,
     TransportFails, CseServeLate, Reboot, Faults, vars
<1>2. left'["delete"] = left["delete"]
  BY <1>1, SpendOther DEF Faults
<1> QED
  BY <1>2 DEF Deleted

\* The part of IInv that is about the main thread and its callbacks.
Handshake == NoStaleAnswer /\ WaitsEnd /\ RequestIsCurrent /\ ReportIsDone

\* Every step keeps the main thread and http_client_cb in step: one request, and
\* one pending answer at most, which is that request's.
LEMMA HandshakeStep == TypeOK /\ Handshake /\ [Next]_vars => Handshake'
<1> SUFFICES ASSUME TypeOK, Handshake, [Next]_vars PROVE Handshake'
  OBVIOUS
<1> USE DEF Handshake, NoStaleAnswer, WaitsEnd, RequestIsCurrent, ReportIsDone
<1>a. ~ Reboot => Boots' = Boots
  BY BootsKept
<1>b. CALL_EVENTS \cap HTTP_EVENTS = {}
  BY DEF CALL_EVENTS, HTTP_EVENTS, EVENT_CALL_CONNECT, EVENT_CALL_DISCONNECT,
     EVENT_HTTP_SUCCESS, EVENT_HTTP_FAIL
<1>1. CASE Boot \/ CheckCall \/ WakeUp
  BY <1>1, <1>b DEF Boot, CheckCall, Consume, WakeUp, httpVars, CALL_EVENTS
<1>2. CASE StartDataCall
  BY <1>2, <1>b DEF StartDataCall, CallFailed, httpVars, TypeOK
<1>3. CASE WaitCall
  BY <1>3, <1>b DEF WaitCall, CallFailed, Consume, httpVars
<1>4. CASE ConfigureDns \/ HttpConnect
  BY <1>4 DEF ConfigureDns, HttpConnect, CallFailed, httpVars
<1>5. CASE NextRequest
  BY <1>5 DEF NextRequest, httpVars
<1>6. CASE HttpRequest
  <2>0. ~ Reboot
    BY <1>6 DEF HttpRequest, RequestFailed, Reboot, RestartState
  <2>1. CurrentReading' = CurrentReading
    BY <1>6, <1>a, <2>0 DEF HttpRequest, CurrentReading
  <2> QED
    BY <1>6, <2>1 DEF HttpRequest, RequestFailed
<1>7. CASE WaitHttp
  BY <1>7 DEF WaitHttp, Advanced, Consume, RequestFailed
<1>8. CASE Stopped \/ UNCHANGED vars
  BY <1>8 DEF Stopped, vars, mainVars, callVars, httpVars, CurrentReading, Boots
<1>c. (UNCHANGED mainVars /\ ~ Reboot) => CurrentReading' = CurrentReading
  BY <1>a DEF mainVars, CurrentReading
<1>9. CASE dss_event_cb
  <2>1. Head(dssEvents) \in CALL_EVENTS
    BY <1>9 DEF dss_event_cb, TypeOK
  <2>2. flags' \cap HTTP_EVENTS = flags \cap HTTP_EVENTS /\ flags' \cap CALL_EVENTS # {}
    BY <1>9, <1>b, <2>1 DEF dss_event_cb
  <2>3. ~ Reboot
    BY <1>9 DEF dss_event_cb, Reboot, RestartState, mainVars, NoStaleAnswer, TypeOK
  <2> QED
    BY <1>9, <1>c, <2>2, <2>3 DEF dss_event_cb, mainVars, httpVars
<1>10. CASE http_client_cb
  <2>1. pc = "wait_http" /\ pc' = pc /\ op_state' = op_state /\ done_report' = done_report
    BY <1>10 DEF http_client_cb, mainVars
  <2>2. flags' \cap HTTP_EVENTS # {}
    BY <1>10 DEF http_client_cb, HTTP_EVENTS
  <2>3. request'.phase = "none"
    BY <1>10 DEF http_client_cb, NoRequest
  <2> QED
    BY <2>1, <2>2, <2>3
<1>11. CASE CallUp \/ CallRefused \/ CallDrop
  <2>1. ~ Reboot
    BY <1>11 DEF CallUp, CallRefused, CallDrop, Reboot, RestartState, TypeOK
  <2>2. dssEvents' # <<>>
    BY <1>11 DEF CallUp, CallRefused, CallDrop, TypeOK
  <2> QED
    BY <1>11, <1>c, <2>1, <2>2 DEF CallUp, CallRefused, CallDrop, mainVars, httpVars
<1>12. CASE CseServe \/ CseError \/ TransportFails
  <2>1. pc = "wait_http" /\ UNCHANGED <<mainVars, flags, callVars>>
    BY <1>12 DEF CseServe, CseError, TransportFails
  <2>2. ~ Reboot
    BY <2>1 DEF Reboot, RestartState, mainVars
  <2>3. request'.phase # "none" /\ request'.msg = request.msg /\ request.phase # "none"
    BY <1>12 DEF CseServe, CseError, TransportFails, TypeOK, Request
  <2> QED
    BY <1>c, <2>1, <2>2, <2>3 DEF mainVars, callVars
<1>13. CASE CseServeLate \/ DeleteAE
  <2>1. UNCHANGED <<mainVars, flags, callVars, request>>
    BY <1>13 DEF CseServeLate, DeleteAE, httpVars
  <2>2. CASE Reboot
    BY <2>2 DEF Reboot, RestartState, NoRequest
  <2> QED
    BY <1>c, <2>1, <2>2 DEF mainVars, callVars
<1>14. CASE Reboot
  BY <1>14 DEF Reboot, RestartState, NoRequest
<1> QED
  BY <1>1, <1>2, <1>3, <1>4, <1>5, <1>6, <1>7, <1>8, <1>9, <1>10, <1>11, <1>12,
     <1>13, <1>14
  DEF Next, Main, Callbacks, Environment

-----------------------------------------------------------------------------
\* The part of IInv that relates the main thread to the server.
Truth == SuccessIsTrue /\ ProvisionedInOrder

\* What was delivered stays delivered while the server only adds.
LEMMA DeliveredKept ==
  ASSUME TypeOK, Delivered, op_state' = op_state, CurrentReading' = CurrentReading,
         known \subseteq known',
         \A i \in DOMAIN data : i \in DOMAIN data' /\ data'[i] = data[i]
  PROVE  Delivered'
  BY DEF Delivered

\* The server only adds when it serves a message.
LEMMA CreateAdds ==
  ASSUME TypeOK, NEW msg \in Message, Create(msg)
  PROVE  /\ known \subseteq known'
         /\ \A i \in DOMAIN data : i \in DOMAIN data' /\ data'[i] = data[i]
<1>1. data \in Seq(Message)
  BY DEF TypeOK
<1> QED
  BY <1>1 DEF Create

\* A normal answer that counts as a success leaves what was asked for.
LEMMA AnswerIsTrue ==
  ASSUME TypeOK, NEW msg \in Message, Create(msg), msg.op = op_state,
         msg.reading = CurrentReading, IsSuccess(Answer(known, msg.op)),
         op_state' = op_state, CurrentReading' = CurrentReading
  PROVE  Delivered'
<1>1. op_state \in 0..4 /\ data \in Seq(Message) /\ CurrentReading \in Reading
  BY CurrentReadingType DEF TypeOK
<1>2. Answer(known, op_state) = CREATED
      \/ (Answer(known, op_state) = CONFLICT /\ op_state # reporting)
  BY DEF Answer, IsSuccess, NOT_FOUND, CONFLICT, CREATED
<1>3. CASE Answer(known, op_state) = CREATED
  <2>1. Made(op_state) \subseteq known'
    BY <1>3 DEF Create
  <2>2. CASE op_state = reporting
    <3>1. data' = Append(data, msg)
      BY <1>3, <2>2 DEF Create
    <3>2. Len(data) + 1 \in DOMAIN data' /\ data'[Len(data) + 1] = msg
      BY <1>1, <3>1
    <3> QED
      BY <2>1, <3>2 DEF Delivered
  <2> QED
    BY <2>1, <2>2 DEF Delivered
<1>4. CASE Answer(known, op_state) = CONFLICT /\ op_state # reporting
  <2>1. Made(op_state) \subseteq known
    BY <1>4 DEF Answer, CREATED, CONFLICT, NOT_FOUND
  <2> QED
    BY <1>4, <2>1, CreateAdds DEF Delivered
<1> QED
  BY <1>2, <1>3, <1>4

\* What the client holds for true of the CSE is true: a success it has been
\* given, and that what the states before op_state make exists.
Honest ==
  /\ (request.phase = "replied" /\ IsSuccess(request.rsc)) => Delivered
  /\ EVENT_HTTP_SUCCESS \in flags => Delivered
  /\ \A op \in OpStates : op < op_state => Made(op) \subseteq known

\* It is what IInv says of a meter whose AE nobody has deleted.
LEMMA TruthIsHonest == Truth <=> (~ Deleted => Honest)
  BY DEF Truth, SuccessIsTrue, ProvisionedInOrder, Honest

\* A restarted meter claims nothing.
LEMMA RebootIsHonest == TypeOK /\ Reboot => Honest'
<1> SUFFICES ASSUME TypeOK, Reboot PROVE Honest'
  OBVIOUS
<1>1. request'.phase = "none" /\ flags' = {} /\ op_state' = 0
  BY DEF Reboot, RestartState, NoRequest, create_ae
<1>2. \A op \in OpStates : ~ (op < op_state')
  BY <1>1 DEF OpStates, create_ae, reporting
<1> QED
  BY <1>1, <1>2 DEF Honest

\* Every other step but a deletion keeps it: a step of the provisioning that is
\* left behind has made its resource.
LEMMA HonestStep ==
  ASSUME TypeOK, Handshake, Honest, [Next]_vars, ~ DeleteAE, ~ Reboot
  PROVE  Honest'
<1> USE DEF Honest
<1>b. Boots' = Boots
  BY BootsKept
<1>c. UNCHANGED mainVars => CurrentReading' = CurrentReading
  BY <1>b DEF mainVars, CurrentReading
<1>3. CASE Boot \/ CheckCall \/ StartDataCall \/ WaitCall \/ ConfigureDns \/ HttpConnect
           \/ NextRequest \/ WakeUp
  <2>1. /\ op_state' = op_state /\ UNCHANGED <<request, known, data>>
        /\ flags' \subseteq flags /\ pc # "wait_http"
    BY <1>3 DEF Boot, CheckCall, StartDataCall, WaitCall, ConfigureDns, HttpConnect,
       NextRequest, WakeUp, Consume, httpVars, cseVars
  <2>2. request.phase = "none" /\ EVENT_HTTP_SUCCESS \notin flags
    BY <2>1 DEF Handshake, NoStaleAnswer, HTTP_EVENTS
  <2> QED
    BY <2>1, <2>2
<1>4. CASE HttpRequest
  <2>1. op_state' = op_state /\ UNCHANGED <<flags, known, data>> /\ pc # "wait_http"
    BY <1>4 DEF HttpRequest, RequestFailed, cseVars
  <2>2. request'.phase # "replied" /\ EVENT_HTTP_SUCCESS \notin flags
    BY <1>4, <2>1 DEF HttpRequest, Handshake, NoStaleAnswer, HTTP_EVENTS
  <2> QED
    BY <2>1, <2>2
<1>5. CASE WaitHttp
  <2>1. UNCHANGED <<request, known, data>> /\ EVENT_HTTP_SUCCESS \notin flags'
    BY <1>5 DEF WaitHttp, Advanced, Consume, cseVars, HTTP_EVENTS
  <2>2. request.phase = "none"
    BY <1>5 DEF WaitHttp, Advanced, Handshake, RequestIsCurrent
  <2>3. CASE EVENT_HTTP_SUCCESS \in flags
    <3>1. Made(op_state) \subseteq known
      BY <2>3 DEF Delivered
    <3>2. \A op \in OpStates : op < op_state' => op < op_state \/ op = op_state
      BY <1>5, <2>3 DEF WaitHttp, Advanced, TypeOK
    <3> QED
      BY <2>1, <2>2, <3>1, <3>2
  <2>4. CASE EVENT_HTTP_SUCCESS \notin flags
    BY <1>5, <2>1, <2>2, <2>4 DEF WaitHttp, Advanced, RequestFailed
  <2> QED
    BY <2>3, <2>4
<1>6. CASE Stopped \/ UNCHANGED vars \/ dss_event_cb \/ CallUp \/ CallRefused \/ CallDrop
  <2>1. UNCHANGED <<mainVars, request, known, data>>
    BY <1>6 DEF Stopped, vars, dss_event_cb, CallUp, CallRefused, CallDrop, httpVars, cseVars
  <2>2. EVENT_HTTP_SUCCESS \in flags' => EVENT_HTTP_SUCCESS \in flags
    <3>1. dss_event_cb => Head(dssEvents) \in CALL_EVENTS
      BY DEF dss_event_cb, TypeOK
    <3>2. EVENT_HTTP_SUCCESS \notin CALL_EVENTS
      BY DEF CALL_EVENTS, EVENT_HTTP_SUCCESS, EVENT_CALL_CONNECT, EVENT_CALL_DISCONNECT
    <3> QED
      BY <1>6, <3>1, <3>2 DEF Stopped, vars, dss_event_cb, CallUp, CallRefused, CallDrop
  <2>3. Delivered' = Delivered
    BY <1>c, <2>1 DEF Delivered, mainVars
  <2>4. IsSuccess(request.rsc)' = IsSuccess(request.rsc)
    BY <2>1 DEF IsSuccess, mainVars
  <2> QED
    BY <2>1, <2>2, <2>3, <2>4 DEF mainVars
<1>7. CASE http_client_cb
  <2>1. UNCHANGED <<mainVars, known, data>> /\ request'.phase = "none"
    BY <1>7 DEF http_client_cb, cseVars, NoRequest
  <2>2. Delivered' = Delivered
    BY <1>c, <2>1 DEF Delivered, mainVars
  <2>3. EVENT_HTTP_SUCCESS \in flags' => Delivered
    <3>1. EVENT_HTTP_SUCCESS # EVENT_HTTP_FAIL
      BY DEF EVENT_HTTP_SUCCESS, EVENT_HTTP_FAIL
    <3> QED
      BY <1>7, <3>1 DEF http_client_cb
  <2> QED
    BY <2>1, <2>2, <2>3 DEF mainVars
<1>8. CASE CseServe
  <2>1. /\ UNCHANGED <<mainVars, flags>> /\ Create(request.msg)
        /\ request'.rsc = Answer(known, request.msg.op)
    BY <1>8 DEF CseServe, TypeOK, Request
  <2>2. /\ request.msg \in Message /\ request.msg.op = op_state
        /\ request.msg.reading = CurrentReading /\ EVENT_HTTP_SUCCESS \notin flags
    BY <1>8 DEF CseServe, TypeOK, Request, Handshake, RequestIsCurrent, HTTP_EVENTS
  <2>3. op_state' = op_state /\ CurrentReading' = CurrentReading
    BY <1>c, <2>1 DEF mainVars
  <2>4. IsSuccess(request.rsc)' => Delivered'
    <3>1. IsSuccess(request.rsc)' = IsSuccess(Answer(known, request.msg.op))
      BY <2>1, <2>3 DEF IsSuccess
    <3> QED
      BY <2>1, <2>2, <2>3, <3>1, AnswerIsTrue
  <2>5. known \subseteq known'
    BY <2>1, <2>2, CreateAdds
  <2> QED
    BY <2>1, <2>2, <2>3, <2>4, <2>5
<1>9. CASE CseError \/ TransportFails
  <2>1. UNCHANGED <<mainVars, flags, known, data>>
    BY <1>9 DEF CseError, TransportFails, cseVars
  <2>2. ~ (request.phase = "replied" /\ IsSuccess(request.rsc))'
    <3>1. TransportFails => request'.phase = "failed"
      BY DEF TransportFails, TypeOK, Request
    <3>2. CseError => request'.rsc \in {SERVER_ERROR, NO_RSC}
      BY DEF CseError, TypeOK, Request
    <3>3. CseError => ~ IsSuccess(request.rsc)'
      BY <3>2 DEF IsSuccess, SERVER_ERROR, NO_RSC, CONFLICT
    <3> QED
      BY <1>9, <3>1, <3>3
  <2>3. Delivered' = Delivered
    BY <1>c, <2>1 DEF Delivered, mainVars
  <2> QED
    BY <2>1, <2>2, <2>3 DEF mainVars
<1>10. CASE CseServeLate
  <2>1. UNCHANGED <<mainVars, flags, request>>
    BY <1>10 DEF CseServeLate
  <2>2. /\ known \subseteq known'
        /\ \A i \in DOMAIN data : i \in DOMAIN data' /\ data'[i] = data[i]
    BY <1>10, CreateAdds DEF CseServeLate, TypeOK
  <2>3. Delivered => Delivered'
    BY <1>c, <2>1, <2>2, DeliveredKept DEF mainVars
  <2>4. IsSuccess(request.rsc)' = IsSuccess(request.rsc)
    BY <2>1 DEF IsSuccess, mainVars
  <2> QED
    BY <2>1, <2>2, <2>3, <2>4 DEF mainVars
<1> QED
  BY <1>3, <1>4, <1>5, <1>6, <1>7, <1>8, <1>9, <1>10
  DEF Next, Main, Callbacks, Environment

\* So does every step, as long as nobody has deleted the AE.
LEMMA TruthStep == TypeOK /\ Handshake /\ Truth /\ [Next]_vars => Truth'
<1> SUFFICES ASSUME TypeOK, Handshake, Truth, [Next]_vars PROVE Truth'
  OBVIOUS
<1>1. CASE DeleteAE
  <2>1. left["delete"] \in Nat /\ Budget["delete"] \in Nat /\ left["delete"] <= Budget["delete"]
    BY ConstantsAssumption DEF TypeOK, Faults
  <2>2. left'["delete"] = left["delete"] - 1
    BY <1>1 DEF DeleteAE, Spend, TypeOK, Faults
  <2>3. Deleted'
    BY <2>1, <2>2 DEF Deleted
  <2> QED
    BY <2>3 DEF Truth, SuccessIsTrue, ProvisionedInOrder
<1>2. CASE ~ DeleteAE
  <2>1. Deleted' = Deleted
    BY <1>2, DeletedKept
  <2>2. Honest => Honest'
    BY <1>2, HonestStep, RebootIsHonest
  <2>3. ~ Deleted' => Honest'
    BY <2>1, <2>2, TruthIsHonest
  <2> QED
    BY <2>3 DEF Truth, SuccessIsTrue, ProvisionedInOrder, Honest
<1> QED
  BY <1>1, <1>2

\* IInv is an invariant, whatever the constants.
THEOREM Invariance == Spec => []IInv
<1>1. Init => IInv
  <2> SUFFICES ASSUME Init PROVE IInv
    OBVIOUS
  <2>1. TypeOK
    BY TypeInit
  <2>2. Handshake
    BY DEF Init, Handshake, NoStaleAnswer, WaitsEnd, RequestIsCurrent, ReportIsDone, NoRequest
  <2>3. Truth
    BY DEF Init, Truth, SuccessIsTrue, ProvisionedInOrder, NoRequest
  <2> QED
    BY <2>1, <2>2, <2>3 DEF IInv, Handshake, Truth
<1>2. IInv /\ [Next]_vars => IInv'
  BY TypeStep, HandshakeStep, TruthStep DEF IInv, Handshake, Truth
<1> QED
  BY <1>1, <1>2, PTL DEF Spec

\* No answer outlives the request it belongs to.
THEOREM NoAnswerIsStale == Spec => []NoStaleAnswer
  BY Invariance, PTL DEF IInv

\* No unbounded wait of the main thread is left without a waker.
THEOREM NoWaitIsForever == Spec => []WaitsEnd
  BY Invariance, PTL DEF IInv

\* op_state never gets ahead of the server's resources.
THEOREM ProvisioningIsInOrder == Spec => []ProvisionedInOrder
  BY Invariance, PTL DEF IInv

\* Only a deletion misleads the meter, and a restart sets it right: after a restart
\* that follows the deletion it is as little ahead of the server, and as little
\* deceived by an answer, as one whose AE was never deleted.
THEOREM OnlyDeletionMisleads ==
  Spec => [][(Reboot => Honest') /\ (Honest /\ ~ DeleteAE => Honest')]_vars
<1>1. IInv /\ [Next]_vars
        => [(Reboot => Honest') /\ (Honest /\ ~ DeleteAE => Honest')]_vars
  BY RebootIsHonest, HonestStep DEF IInv, Handshake
<1> QED
  BY <1>1, Invariance, PTL DEF Spec

\* A report taken for delivered is in the DATA container.
THEOREM AcknowledgementIsTrue == Spec => []AcknowledgedIsStored
<1>1. IInv => AcknowledgedIsStored
  BY DEF IInv, SuccessIsTrue, Delivered, AcknowledgedIsStored
<1> QED
  BY <1>1, Invariance, PTL

-----------------------------------------------------------------------------
\* Appending the current reading keeps the container in order.
LEMMA AppendInOrder ==
  ASSUME TypeOK, DataIsPast, ReadingsInOrder,
         NEW msg \in Message, msg.reading = CurrentReading,
         data' = data \/ data' = Append(data, msg),
         reports' = reports, myMeterValue' = myMeterValue, Boots' = Boots
  PROVE  DataIsPast' /\ ReadingsInOrder'
<1>1. data \in Seq(Message) /\ CurrentReading \in Reading /\ Boots \in Nat
      /\ reports \in Nat /\ myMeterValue \in Nat
  BY CurrentReadingType, BootsType DEF TypeOK
<1>2. CASE data' = data
  BY <1>2 DEF DataIsPast, ReadingsInOrder
<1>3. CASE data' = Append(data, msg)
  <2>1. DOMAIN data' = DOMAIN data \cup {Len(data) + 1}
    BY <1>1, <1>3
  <2>2. \A i \in DOMAIN data : data'[i] = data[i] /\ i < Len(data) + 1
    BY <1>1, <1>3
  <2>3. data'[Len(data) + 1] = msg
    BY <1>1, <1>3
  <2>4. /\ CurrentReading.report = reports /\ CurrentReading.boot = Boots
        /\ CurrentReading.kWH = myMeterValue
    BY DEF CurrentReading
  <2>5. DataIsPast'
    BY <1>1, <2>1, <2>2, <2>3, <2>4 DEF DataIsPast
  <2>6. ASSUME NEW i \in DOMAIN data', NEW k \in DOMAIN data', i < k
        PROVE  LET first == data'[i].reading  second == data'[k].reading IN
                 /\ first.report <= second.report
                 /\ first.boot = second.boot => first.kWH <= second.kWH
    <3>1. CASE k \in DOMAIN data
      <4>1. i \in DOMAIN data
        BY <1>1, <2>1, <2>2, <2>6, <3>1
      <4> QED
        BY <2>2, <2>6, <3>1, <4>1 DEF ReadingsInOrder
    <3>2. CASE k = Len(data) + 1
      <4>1. i \in DOMAIN data
        BY <1>1, <2>1, <2>6, <3>2
      <4> QED
        BY <2>2, <2>3, <2>4, <3>2, <4>1 DEF DataIsPast
    <3> QED
      BY <2>1, <2>6, <3>1, <3>2
  <2> QED
    BY <2>5, <2>6 DEF ReadingsInOrder
<1> QED
  BY <1>2, <1>3

\* What the server does with a create that, if it is a report, is current.
LEMMA CreateInOrder ==
  ASSUME TypeOK, DataIsPast, ReadingsInOrder, NEW msg \in Message, Create(msg),
         msg.op = reporting => msg.reading = CurrentReading,
         reports' = reports, myMeterValue' = myMeterValue, Boots' = Boots
  PROVE  DataIsPast' /\ ReadingsInOrder'
<1>1. CASE data' = data
  BY <1>1 DEF DataIsPast, ReadingsInOrder
<1>2. CASE data' # data
  BY <1>2, AppendInOrder DEF Create
<1> QED
  BY <1>1, <1>2

\* Every step keeps the stored readings in the order they were made in, when the
\* CSE does not serve requests of closed connections.
LEMMA OrderStep ==
  ASSUME ~ ServesClosed, IInv, OrderInv, [Next]_vars
  PROVE  OrderInv'
<1> USE DEF OrderInv
<1>t. TypeOK
  BY DEF IInv
<1>a. ~ Reboot => Boots' = Boots
  BY <1>t, BootsKept
<1>1. CASE Reboot
  <2>1. left["reboot"] \in Nat /\ left'["reboot"] = left["reboot"] - 1 /\ Budget["reboot"] \in Nat
    BY <1>t, <1>1, ConstantsAssumption DEF Reboot, RestartState, Spend, TypeOK, Faults
  <2>2. Boots' = Boots + 1 /\ Boots \in Nat
    BY <1>t, <2>1, BootsType DEF Boots
  <2>3. UNCHANGED <<data, reports>> /\ late' = {}
    BY <1>1 DEF Reboot, RestartState, cseVars
  <2>4. \A i \in DOMAIN data : data[i].reading.boot \in Nat
    <3>1. \A i \in DOMAIN data : data[i] \in Message
      BY <1>t DEF TypeOK
    <3> QED
      BY <3>1 DEF Message, Reading
  <2> QED
    BY <2>2, <2>3, <2>4 DEF DataIsPast, LateIsCurrent, ReadingsInOrder
<1>2. CASE DeleteAE
  <2>1. UNCHANGED mainVars /\ UNCHANGED late /\ data' = <<>>
    BY <1>2 DEF DeleteAE, httpVars
  <2>2. Boots' = Boots
    <3>1. left'["reboot"] = left["reboot"]
      BY <1>t, <1>2, SpendOther DEF DeleteAE, Faults
    <3> QED
      BY <3>1 DEF Boots
  <2> QED
    BY <2>1, <2>2 DEF DataIsPast, LateIsCurrent, ReadingsInOrder, CurrentReading, mainVars
<1> SUFFICES ASSUME ~ Reboot, ~ DeleteAE PROVE OrderInv'
  BY <1>1, <1>2
<1>3. CASE NextRequest
  <2>1. UNCHANGED <<data, late>> /\ pc = "next_request"
    BY <1>3 DEF NextRequest, cseVars, httpVars
  <2>2. \A msg \in late : msg.op # reporting
    BY <2>1 DEF LateIsCurrent
  <2>3. /\ reports \in Nat /\ myMeterValue \in Nat /\ reports' \in Nat /\ myMeterValue' \in Nat
        /\ reports <= reports' /\ myMeterValue <= myMeterValue'
    <3>1. \A r \in Increments : r \in Nat
      BY ConstantsAssumption
    <3> QED
      BY <1>t, <1>3, <3>1 DEF NextRequest, IncrementMyMeterValue, TypeOK
  <2>4. \A i \in DOMAIN data : data[i] \in Message
    BY <1>t DEF TypeOK
  <2> QED
    BY <1>a, <2>1, <2>2, <2>3, <2>4 DEF DataIsPast, LateIsCurrent, ReadingsInOrder, Message, Reading
<1> SUFFICES ASSUME ~ NextRequest PROVE OrderInv'
  BY <1>3
<1>b. CASE Boot \/ CheckCall \/ StartDataCall \/ WaitCall \/ ConfigureDns \/ HttpConnect
           \/ WakeUp
  <2>1. /\ UNCHANGED <<data, late, reports, myMeterValue>>
        /\ pc \notin {"http_request", "wait_http"}
    BY <1>b DEF Boot, CheckCall, StartDataCall, WaitCall, ConfigureDns, HttpConnect,
       WakeUp, httpVars, cseVars
  <2> QED
    BY <1>a, <2>1 DEF DataIsPast, LateIsCurrent, ReadingsInOrder
<1>4. CASE HttpRequest
  <2>1. UNCHANGED <<data, reports, myMeterValue, done_report>>
    BY <1>4 DEF HttpRequest, RequestFailed, cseVars
  <2>2. late' = {} \/ (late' = late /\ pc' \in {"http_request", "wait_http"})
    BY <1>4 DEF HttpRequest, RequestFailed, Disconnect
  <2> QED
    BY <1>a, <2>1, <2>2 DEF DataIsPast, LateIsCurrent, ReadingsInOrder, CurrentReading
<1>5. CASE WaitHttp
  <2>1. UNCHANGED <<data, reports, myMeterValue, done_report>>
    BY <1>5 DEF WaitHttp, Advanced, RequestFailed, cseVars
  <2>2. \/ late' = {}
        \/ late' = late /\ (pc' \in {"http_request", "wait_http"} \/ ~ done_report)
    BY <1>5 DEF WaitHttp, Advanced, RequestFailed, Disconnect
  <2> QED
    BY <1>a, <2>1, <2>2 DEF DataIsPast, LateIsCurrent, ReadingsInOrder, CurrentReading
<1>6. CASE \/ Stopped \/ UNCHANGED vars \/ Callbacks \/ CallUp \/ CallRefused \/ CallDrop
           \/ CseError
  <2>1. UNCHANGED <<mainVars, data, late>>
    BY <1>6 DEF Stopped, vars, Callbacks, dss_event_cb, http_client_cb, CallUp, CallRefused,
       CallDrop, CseError, httpVars, cseVars
  <2> QED
    BY <1>a, <2>1 DEF DataIsPast, LateIsCurrent, ReadingsInOrder, CurrentReading, mainVars
<1>7. CASE TransportFails
  <2>1. UNCHANGED <<mainVars, data>> /\ request.phase # "none"
        /\ late' \subseteq late \cup {request.msg}
    BY <1>7 DEF TransportFails, cseVars
  <2>2. request.msg.op = reporting =>
          request.msg.reading = CurrentReading /\ done_report /\ pc = "wait_http"
    BY <2>1 DEF IInv, RequestIsCurrent, NoStaleAnswer, ReportIsDone
  <2>3. CurrentReading' = CurrentReading
    BY <1>a, <2>1 DEF CurrentReading, mainVars
  <2> QED
    BY <1>a, <2>1, <2>2, <2>3 DEF DataIsPast, LateIsCurrent, ReadingsInOrder, mainVars
<1>8. CASE CseServe
  <2>1. UNCHANGED <<mainVars, late>> /\ Create(request.msg)
        /\ request.msg.reading = CurrentReading /\ request.msg \in Message
    BY <1>t, <1>8 DEF CseServe, IInv, RequestIsCurrent, TypeOK, Request
  <2>2. DataIsPast' /\ ReadingsInOrder'
    BY <1>t, <1>a, <2>1, CreateInOrder DEF mainVars
  <2> QED
    BY <1>a, <2>1, <2>2 DEF LateIsCurrent, CurrentReading, mainVars
<1>9. CASE CseServeLate
  <2>1. PICK msg \in late : Create(msg) /\ late' = late \ {msg}
    BY <1>9 DEF CseServeLate
  <2>2. UNCHANGED mainVars
    BY <1>9 DEF CseServeLate
  <2>3. msg.op = reporting => msg.reading = CurrentReading
    BY DEF LateIsCurrent
  <2>4. DataIsPast' /\ ReadingsInOrder'
    BY <1>t, <1>a, <2>1, <2>2, <2>3, CreateInOrder DEF mainVars, TypeOK
  <2> QED
    BY <1>a, <2>1, <2>2, <2>4 DEF LateIsCurrent, CurrentReading, mainVars
<1> QED
  BY <1>b, <1>4, <1>5, <1>6, <1>7, <1>8, <1>9 DEF Next, Main, Environment

\* The DATA container is in order, if the server forgets the requests of a
\* connection the meter has closed.
THEOREM DataIsInOrder == ASSUME ~ ServesClosed PROVE Spec => []ReadingsInOrder
<1>1. Init => OrderInv
  BY DEF Init, OrderInv, DataIsPast, LateIsCurrent, ReadingsInOrder
<1>2. IInv /\ IInv' /\ OrderInv /\ [Next]_vars => OrderInv'
  BY OrderStep
<1>3. OrderInv => ReadingsInOrder
  BY DEF OrderInv
<1> QED
  BY <1>1, <1>2, <1>3, Invariance, PTL DEF Spec

-----------------------------------------------------------------------------
\* Storing a message adds just that one to the container.
LEMMA AppendStores ==
  ASSUME TypeOK, NEW msg \in Message, data' = Append(data, msg)
  PROVE  /\ Stored' = Stored \cup {msg}
         /\ (/\ \A i, j \in DOMAIN data : data[i] = data[j] => i = j
             /\ msg \notin Stored)
            => \A i, j \in DOMAIN data' : data'[i] = data'[j] => i = j
<1>1. data \in Seq(Message)
  BY DEF TypeOK
<1>2. /\ DOMAIN data' = DOMAIN data \cup {Len(data) + 1}
      /\ \A i \in DOMAIN data : data'[i] = data[i]
      /\ data'[Len(data) + 1] = msg
  BY <1>1
<1>3. Stored' = Stored \cup {msg}
  BY <1>2 DEF Stored
<1>4. ASSUME \A i, j \in DOMAIN data : data[i] = data[j] => i = j, msg \notin Stored,
             NEW i \in DOMAIN data', NEW j \in DOMAIN data', data'[i] = data'[j]
      PROVE  i = j
  BY <1>2, <1>4 DEF Stored
<1> QED
  BY <1>3, <1>4

\* A request that is still under way holds no message the server or the
\* network has already.
LEMMA SentIsNew ==
  ASSUME IInv, AttemptsAreCounted, request.phase = "sent"
  PROVE  /\ request.msg \notin Stored
         /\ request.msg.op = reporting => request.msg \notin late
         /\ request.msg.op = reporting =>
              request.msg.reading.report = reports /\ request.msg.try < HTTP_ATTEMPTS
         /\ request.msg \in Message /\ request.msg.try = attempt
         /\ request.msg.op = op_state /\ pc = "wait_http"
<1>1. /\ request.msg = [op |-> op_state, try |-> attempt, reading |-> CurrentReading]
      /\ pc = "wait_http" /\ attempt < HTTP_ATTEMPTS
  BY DEF IInv, RequestIsCurrent, NoStaleAnswer, AttemptsAreCounted
<1>2. request.msg \in Message /\ attempt \in Nat /\ reports \in Nat
  BY ConstantsAssumption DEF IInv, TypeOK, Request
<1>3. request.msg.reading.report = reports
  BY <1>1 DEF CurrentReading
<1>4. ASSUME request.msg \in Reports, op_state = reporting PROVE FALSE
  <2>1. request.msg.try < attempt
    BY <1>1, <1>3, <1>4 DEF AttemptsAreCounted
  <2> QED
    BY <1>1, <1>2, <2>1
<1>5. request.msg \in Stored => request.msg \in Reports /\ op_state = reporting
  BY <1>1 DEF Reports, AttemptsAreCounted
<1>6. (request.msg \in late /\ op_state = reporting) => request.msg \in Reports
  BY <1>1 DEF Reports
<1> QED
  BY <1>1, <1>2, <1>3, <1>4, <1>5, <1>6

\* Every step keeps the stored copies of a reading within the attempts made.
LEMMA AttemptStep ==
  ASSUME IInv, AttemptsAreCounted, [Next]_vars
  PROVE  AttemptsAreCounted'
<1>t. TypeOK
  BY DEF IInv
<1>n. /\ attempt \in Nat /\ HTTP_ATTEMPTS \in Nat \ {0} /\ reports \in Nat
      /\ \A msg \in Reports : msg.try \in Nat /\ msg.reading.report \in Nat
  <2>1. Reports \subseteq Message
    BY <1>t DEF Reports, Stored, TypeOK
  <2> QED
    BY <1>t, <2>1, ConstantsAssumption DEF TypeOK, Message, Reading
<1>s. \A msg \in Message : msg.try \in Nat /\ msg.reading.report \in Nat
  BY DEF Message, Reading
<1>1. ASSUME UNCHANGED <<data, reports>>, late' \subseteq late,
             pc' \notin {"http_request", "wait_http"}
      PROVE  AttemptsAreCounted'
  <2>1. Stored' = Stored /\ Reports' \subseteq Reports
    BY <1>1 DEF Stored, Reports
  <2> QED
    BY <1>1, <2>1 DEF AttemptsAreCounted
<1>2. CASE \/ Boot \/ CheckCall \/ StartDataCall \/ WaitCall \/ ConfigureDns
           \/ HttpConnect \/ WakeUp
  BY <1>1, <1>2 DEF Boot, CheckCall, StartDataCall, WaitCall, ConfigureDns, HttpConnect,
     WakeUp, CallFailed, httpVars, cseVars
<1>3. CASE NextRequest
  <2>1. /\ UNCHANGED <<data, late, op_state>> /\ pc' = "http_request" /\ attempt' = 0
        /\ reports' = IF op_state = reporting THEN reports + 1 ELSE reports
    BY <1>3 DEF NextRequest, httpVars, cseVars
  <2>2. Stored' = Stored /\ Reports' = Reports
    BY <2>1 DEF Stored, Reports
  <2> QED
    BY <1>n, <2>1, <2>2 DEF AttemptsAreCounted
<1>4. ASSUME RequestFailed, UNCHANGED <<data, reports>>,
             pc = "http_request" \/ (pc = "wait_http" /\ request.phase = "none")
      PROVE  AttemptsAreCounted'
  <2>1. CASE attempt + 1 < HTTP_ATTEMPTS
    <3>1. /\ UNCHANGED <<late, op_state>> /\ pc' = "http_request" /\ attempt' = attempt + 1
      BY <1>4, <2>1 DEF RequestFailed
    <3>2. Stored' = Stored /\ Reports' = Reports
      BY <1>4, <3>1 DEF Stored, Reports
    <3> QED
      BY <1>n, <1>4, <2>1, <3>1, <3>2 DEF AttemptsAreCounted
  <2>2. CASE ~ (attempt + 1 < HTTP_ATTEMPTS)
    BY <1>1, <1>4, <2>2 DEF RequestFailed, Disconnect
  <2> QED
    BY <2>1, <2>2
<1>5. CASE HttpRequest
  <2>1. CASE pc' = "wait_http"
    <3>1. UNCHANGED <<data, late, reports, op_state, attempt>> /\ pc = "http_request"
      BY <1>5, <2>1 DEF HttpRequest, RequestFailed, cseVars
    <3>2. Stored' = Stored /\ Reports' = Reports
      BY <3>1 DEF Stored, Reports
    <3> QED
      BY <2>1, <3>1, <3>2 DEF AttemptsAreCounted
  <2>2. CASE pc' # "wait_http"
    BY <1>4, <1>5, <2>2 DEF HttpRequest, cseVars
  <2> QED
    BY <2>1, <2>2
<1>6. CASE WaitHttp
  <2>1. UNCHANGED <<data, reports>> /\ pc = "wait_http" /\ request.phase = "none"
    BY <1>6 DEF WaitHttp, Advanced, cseVars, IInv, RequestIsCurrent
  <2>2. CASE EVENT_HTTP_SUCCESS \in flags
    BY <1>1, <1>6, <2>1, <2>2 DEF WaitHttp, Advanced, Disconnect
  <2>3. CASE EVENT_HTTP_SUCCESS \notin flags
    BY <1>4, <1>6, <2>1, <2>3 DEF WaitHttp, Advanced
  <2> QED
    BY <2>2, <2>3
<1>7. ASSUME UNCHANGED <<mainVars, data, late>>,
             request'.phase = "sent" => request.phase = "sent"
      PROVE  AttemptsAreCounted'
  <2>1. Stored' = Stored /\ Reports' = Reports
    BY <1>7 DEF Stored, Reports
  <2> QED
    BY <1>7, <2>1 DEF AttemptsAreCounted, mainVars
<1>8. CASE \/ Stopped \/ UNCHANGED vars \/ dss_event_cb \/ http_client_cb
           \/ CallUp \/ CallRefused \/ CallDrop \/ CseError
  <2>1. UNCHANGED <<mainVars, data, late>>
    BY <1>8 DEF Stopped, vars, dss_event_cb, http_client_cb, CallUp, CallRefused, CallDrop,
       CseError, httpVars, cseVars
  <2>2. request'.phase = "sent" => request.phase = "sent"
    BY <1>8, <1>t DEF Stopped, vars, dss_event_cb, http_client_cb, CallUp, CallRefused,
       CallDrop, CseError, httpVars, NoRequest, TypeOK, Request
  <2> QED
    BY <1>7, <2>1, <2>2
<1>9. CASE TransportFails
  <2>1. UNCHANGED <<mainVars, data>> /\ request'.phase = "failed"
    BY <1>9, <1>t DEF TransportFails, cseVars, TypeOK, Request
  <2>2. CASE late' = late
    BY <1>7, <2>1, <2>2
  <2>3. CASE request.phase = "sent" /\ late' = late \cup {request.msg}
    <3>1. /\ request.msg \notin Stored /\ request.msg \in Message
          /\ request.msg.op = reporting =>
               request.msg.reading.report = reports /\ request.msg.try < HTTP_ATTEMPTS
          /\ request.msg.try = attempt /\ pc = "wait_http"
      BY <2>3, SentIsNew
    <3>2. Stored' = Stored
      BY <2>1 DEF Stored
    <3>3. \A msg \in Reports' :
            msg \in Reports \/ (msg = request.msg /\ msg.op = reporting)
      BY <2>3, <3>2 DEF Reports
    <3>4. UNCHANGED <<pc, op_state, attempt, reports>>
      BY <2>1 DEF mainVars
    <3>5. \A msg \in Reports' : msg.reading.report <= reports /\ msg.try < HTTP_ATTEMPTS
      BY <1>n, <3>1, <3>3 DEF AttemptsAreCounted
    <3>6. Stored' \cap late' = {}
      BY <2>3, <3>1, <3>2 DEF AttemptsAreCounted
    <3>7. \A msg \in Reports' : (op_state = reporting /\ msg.reading.report = reports) =>
            msg.try < attempt \/ msg.try = attempt
      BY <3>1, <3>3 DEF AttemptsAreCounted
    <3> QED
      BY <2>1, <3>1, <3>2, <3>4, <3>5, <3>6, <3>7 DEF AttemptsAreCounted
  <2> QED
    BY <1>9, <2>2, <2>3 DEF TransportFails
<1>10. CASE CseServe
  <2>1. /\ UNCHANGED <<mainVars, late>> /\ Create(request.msg)
        /\ request.phase = "sent" /\ request'.phase = "replied"
    BY <1>10, <1>t DEF CseServe, TypeOK, Request
  <2>2. CASE data' = data
    BY <1>7, <2>1, <2>2
  <2>3. CASE data' # data
    <3>1. data' = Append(data, request.msg) /\ request.msg.op = reporting
      BY <2>1, <2>3 DEF Create
    <3>2. /\ request.msg \notin Stored /\ request.msg \notin late /\ request.msg \in Message
          /\ request.msg.reading.report = reports /\ request.msg.try < HTTP_ATTEMPTS
          /\ request.msg.try = attempt /\ pc = "wait_http"
      BY <2>1, <3>1, SentIsNew
    <3>3. /\ Stored' = Stored \cup {request.msg}
          /\ \A i, j \in DOMAIN data' : data'[i] = data'[j] => i = j
      BY <1>t, <3>1, <3>2, AppendStores DEF AttemptsAreCounted
    <3>4. Reports' = Reports \cup {request.msg}
      BY <2>1, <3>3 DEF Reports
    <3>5. UNCHANGED <<pc, op_state, attempt, reports>>
      BY <2>1 DEF mainVars
    <3>6. \A msg \in Reports' : msg.reading.report <= reports /\ msg.try < HTTP_ATTEMPTS
      BY <1>n, <3>2, <3>4 DEF AttemptsAreCounted
    <3>7. Stored' \cap late' = {} /\ \A msg \in Stored' : msg.op = reporting
      BY <2>1, <3>1, <3>2, <3>3 DEF AttemptsAreCounted
    <3>8. \A msg \in Reports' : (op_state = reporting /\ msg.reading.report = reports) =>
            msg.try < attempt \/ msg.try = attempt
      BY <3>2, <3>4 DEF AttemptsAreCounted
    <3> QED
      BY <2>1, <3>2, <3>3, <3>5, <3>6, <3>7, <3>8 DEF AttemptsAreCounted
  <2> QED
    BY <2>2, <2>3
<1>11. CASE CseServeLate
  <2>1. PICK msg \in late : Create(msg) /\ late' = late \ {msg}
    BY <1>11 DEF CseServeLate
  <2>2. UNCHANGED <<mainVars, request>> /\ msg \in Message
    BY <1>11, <1>t DEF CseServeLate, TypeOK
  <2>3. CASE data' = data
    <3>1. Stored' = Stored /\ Reports' \subseteq Reports
      BY <2>1, <2>3 DEF Stored, Reports
    <3> QED
      BY <2>1, <2>2, <2>3, <3>1 DEF AttemptsAreCounted, mainVars
  <2>4. CASE data' # data
    <3>1. data' = Append(data, msg) /\ msg.op = reporting
      BY <2>1, <2>4 DEF Create
    <3>2. msg \notin Stored
      BY DEF AttemptsAreCounted
    <3>3. /\ Stored' = Stored \cup {msg}
          /\ \A i, j \in DOMAIN data' : data'[i] = data'[j] => i = j
      BY <1>t, <2>2, <3>1, <3>2, AppendStores DEF AttemptsAreCounted
    <3>4. Reports' = Reports
      BY <2>1, <3>1, <3>3 DEF Reports
    <3>5. Stored' \cap late' = {} /\ \A m \in Stored' : m.op = reporting
      BY <2>1, <3>1, <3>3 DEF AttemptsAreCounted
    <3> QED
      BY <2>2, <3>3, <3>4, <3>5 DEF AttemptsAreCounted, mainVars
  <2> QED
    BY <2>3, <2>4
<1>12. CASE DeleteAE
  <2>1. UNCHANGED <<mainVars, request, late>> /\ data' = <<>>
    BY <1>12 DEF DeleteAE, httpVars
  <2>2. Stored' = {} /\ Reports' \subseteq Reports
    BY <2>1 DEF Stored, Reports
  <2> QED
    BY <2>1, <2>2 DEF AttemptsAreCounted, mainVars
<1>13. CASE Reboot
  <2>1. UNCHANGED <<data, reports>> /\ pc' = "boot"
    BY <1>13 DEF Reboot, RestartState, cseVars
  <2>2. CASE late' \subseteq late
    BY <1>1, <2>1, <2>2
  <2>3. CASE request.phase = "sent" /\ late' = late \cup {request.msg}
    <3>1. /\ request.msg \notin Stored
          /\ request.msg.op = reporting =>
               request.msg.reading.report = reports /\ request.msg.try < HTTP_ATTEMPTS
      BY <2>3, SentIsNew
    <3>2. Stored' = Stored
      BY <2>1 DEF Stored
    <3>3. \A msg \in Reports' :
            msg \in Reports \/ (msg = request.msg /\ msg.op = reporting)
      BY <2>3, <3>2 DEF Reports
    <3>4. \A msg \in Reports' : msg.reading.report <= reports /\ msg.try < HTTP_ATTEMPTS
      BY <1>n, <3>1, <3>3 DEF AttemptsAreCounted
    <3>5. Stored' \cap late' = {}
      BY <2>3, <3>1, <3>2 DEF AttemptsAreCounted
    <3> QED
      BY <2>1, <3>2, <3>4, <3>5 DEF AttemptsAreCounted
  <2> QED
    BY <1>13, <2>2, <2>3 DEF Reboot, RestartState
<1> QED
  BY <1>2, <1>3, <1>5, <1>6, <1>8, <1>9, <1>10, <1>11, <1>12, <1>13
  DEF Next, Main, Callbacks, Environment

\* The messages of one reading differ in their attempt, so there are no more
\* of them than attempts.
LEMMA AttemptsBoundCopies == IInv /\ AttemptsAreCounted => CopiesBounded
<1> SUFFICES ASSUME IInv, AttemptsAreCounted, NEW i \in DOMAIN data
             PROVE  Cardinality({j \in DOMAIN data : data[j].reading = data[i].reading})
                      <= HTTP_ATTEMPTS
  BY DEF CopiesBounded
<1> DEFINE Copies   == {j \in DOMAIN data : data[j].reading = data[i].reading}
           Attempts == 0..(HTTP_ATTEMPTS - 1)
           f        == [j \in Copies |-> data[j].try]
<1>1. HTTP_ATTEMPTS \in Nat \ {0}
  BY ConstantsAssumption
<1>2. \A j \in DOMAIN data : data[j] \in Message /\ data[j].op = reporting
                             /\ data[j].try < HTTP_ATTEMPTS
  BY DEF IInv, TypeOK, AttemptsAreCounted, Reports, Stored
<1>3. \A j \in Copies : data[j].try \in Attempts
  BY <1>1, <1>2 DEF Message
<1>4. \A j, k \in Copies : data[j].try = data[k].try => j = k
  <2> SUFFICES ASSUME NEW j \in Copies, NEW k \in Copies, data[j].try = data[k].try
               PROVE  j = k
    OBVIOUS
  <2>1. data[j] = data[k]
    BY <1>2 DEF Message
  <2> QED
    BY <2>1 DEF AttemptsAreCounted
<1>5. f \in Injection(Copies, Attempts)
  BY <1>3, <1>4 DEF Injection, IsInjective
<1>6. IsFiniteSet(Attempts) /\ Cardinality(Attempts) = HTTP_ATTEMPTS
  BY <1>1, FS_Interval
<1>7. Cardinality(Copies) <= Cardinality(Attempts)
  BY <1>5, <1>6, FS_Injection
<1> QED
  BY <1>6, <1>7

\* Retries store a reading at most HTTP_ATTEMPTS times, whatever the network
\* and the server do with the attempts.
THEOREM CopiesAreBounded == Spec => []CopiesBounded
<1>1. Init => AttemptsAreCounted
  BY DEF Init, AttemptsAreCounted, Reports, Stored
<1>2. IInv /\ AttemptsAreCounted /\ [Next]_vars => AttemptsAreCounted'
  BY AttemptStep
<1> QED
  BY <1>1, <1>2, AttemptsBoundCopies, Invariance, PTL DEF Spec

-----------------------------------------------------------------------------
\* The readings of a container: MeterFeed's feed.
FeedOf(container) == [i \in DOMAIN container |-> container[i].reading]

\* Storing one more message with the current reading is a step of the feed.
LEMMA StoreIsStore ==
  ASSUME TypeOK, CopiesBounded', NEW msg \in Message, data' = Append(data, msg),
         msg.reading = CurrentReading, CurrentReading' = CurrentReading
  PROVE  Feed!Store
<1> DEFINE n == Len(data) + 1
           C == {i \in DOMAIN data : data[i].reading = CurrentReading}
           D == {i \in DOMAIN data' : data'[i].reading = data'[n].reading}
<1>1. data \in Seq(Message) /\ HTTP_ATTEMPTS \in Nat
  BY ConstantsAssumption DEF TypeOK
<1>2. /\ DOMAIN data' = DOMAIN data \cup {n} /\ n \notin DOMAIN data
      /\ \A i \in DOMAIN data : data'[i] = data[i]
      /\ data'[n] = msg
  BY <1>1
<1>3. FeedOf(data)' = Append(FeedOf(data), CurrentReading)
  <2>1. /\ Len(data) \in Nat /\ DOMAIN data = 1..Len(data) /\ DOMAIN data' = 1..n
    BY <1>1
  <2>2. FeedOf(data) = [i \in 1..Len(data) |-> data[i].reading]
    BY <2>1 DEF FeedOf
  <2>3. FeedOf(data) \in Seq(Reading) /\ Len(FeedOf(data)) = Len(data)
    <3>1. \A i \in 1..Len(data) : data[i].reading \in Reading
      <4>1. \A i \in 1..Len(data) : data[i] \in Message
        BY <1>1
      <4> QED
        BY <4>1 DEF Message
    <3> QED
      BY <2>1, <2>2, <3>1
  <2>4. CurrentReading \in Reading
    BY CurrentReadingType
  <2>5. ASSUME NEW i \in 1..n
        PROVE  data'[i].reading = IF i = n THEN CurrentReading ELSE FeedOf(data)[i]
    BY <1>2, <2>1, <2>2
  <2>6. FeedOf(data)' \in Seq(Reading) /\ Len(FeedOf(data)') = n
    <3>1. FeedOf(data)' = [i \in 1..n |-> data'[i].reading]
      BY <2>1 DEF FeedOf
    <3>2. \A i \in 1..n : data'[i].reading \in Reading
      BY <1>2, <2>1, <2>3, <2>4, <2>5, <2>2, <1>1 DEF Message
    <3> QED
      BY <2>1, <3>1, <3>2
  <2>7. \A i \in 1..n : FeedOf(data)'[i] = IF i = n THEN CurrentReading ELSE FeedOf(data)[i]
    BY <2>1, <2>5 DEF FeedOf
  <2>8. /\ Append(FeedOf(data), CurrentReading) \in Seq(Reading)
        /\ Len(Append(FeedOf(data), CurrentReading)) = n
        /\ \A i \in 1..n : Append(FeedOf(data), CurrentReading)[i]
                            = IF i = n THEN CurrentReading ELSE FeedOf(data)[i]
    BY <2>1, <2>3, <2>4, AppendProperties
  <2> HIDE DEF n
  <2> QED
    BY <2>6, <2>7, <2>8, SeqEqual
<1>4. D = C \cup {n} /\ n \notin C
  BY <1>2
<1>5. IsFiniteSet(C)
  BY <1>1, FS_Interval, FS_Subset
<1>6. Cardinality(D) = Cardinality(C) + 1
  BY <1>4, <1>5, FS_AddElement
<1>7. Cardinality(D) <= HTTP_ATTEMPTS
  BY <1>2 DEF CopiesBounded
<1>8. Cardinality(C) < HTTP_ATTEMPTS
  <2>1. Cardinality(C) \in Nat
    BY <1>5, FS_CardinalityType
  <2> HIDE DEF C, D
  <2> QED
    BY <1>1, <1>6, <1>7, <2>1
<1>9. Feed!CopiesOf(CurrentReading) = Cardinality(C)
  <2> DEFINE feed == [i \in DOMAIN data |-> data[i].reading]
  <2>1. {i \in DOMAIN feed : feed[i] = CurrentReading} = C
    OBVIOUS
  <2>2. Feed!CopiesOf(CurrentReading) = Cardinality({i \in DOMAIN feed : feed[i] = CurrentReading})
    BY DEF Feed!CopiesOf, Feed!Cardinality, Cardinality
  <2> QED
    BY <2>1, <2>2
<1> QED
  BY <1>3, <1>8, <1>9 DEF Feed!Store, FeedOf

\* What the server does with a create is a step of the feed, or none.
LEMMA CreateIsStore ==
  ASSUME TypeOK, CopiesBounded', NEW msg \in Message, Create(msg),
         msg.op = reporting => msg.reading = CurrentReading,
         CurrentReading' = CurrentReading
  PROVE  Feed!Store \/ UNCHANGED <<CurrentReading, data>>
  BY StoreIsStore DEF Create

\* Every step is a step of the abstract feed or leaves it alone.
LEMMA FeedStep ==
  ASSUME ~ ServesClosed, IInv, OrderInv, CopiesBounded', [Next]_vars
  PROVE  Feed!Next \/ UNCHANGED <<CurrentReading, data>>
<1>t. TypeOK
  BY DEF IInv
<1>a. ~ Reboot => Boots' = Boots
  BY <1>t, BootsKept
<1>b. /\ CurrentReading = [boot |-> Boots, report |-> reports, kWH |-> myMeterValue]
      /\ CurrentReading' = [boot |-> Boots', report |-> reports', kWH |-> myMeterValue']
  BY DEF CurrentReading
<1>1. CASE Reboot
  <2>1. left["reboot"] \in Nat /\ left'["reboot"] = left["reboot"] - 1 /\ Budget["reboot"] \in Nat
    BY <1>t, <1>1, ConstantsAssumption DEF Reboot, RestartState, Spend, TypeOK, Faults
  <2>2. Boots' = Boots + 1
    BY <2>1 DEF Boots
  <2>3. data' = data /\ reports' = reports /\ myMeterValue' = 0
    BY <1>1 DEF Reboot, RestartState, cseVars
  <2>4. CurrentReading' = [boot |-> CurrentReading.boot + 1,
                           report |-> CurrentReading.report, kWH |-> 0]
    BY <2>2, <2>3 DEF CurrentReading
  <2>5. [i \in DOMAIN data |-> data[i].reading]' = [i \in DOMAIN data |-> data[i].reading]
    BY <2>3
  <2> QED
    BY <2>4, <2>5 DEF Feed!Next, Feed!Restart
<1>2. CASE DeleteAE
  <2>1. left'["reboot"] = left["reboot"]
    BY <1>t, <1>2, SpendOther DEF DeleteAE, Faults
  <2>2. CurrentReading' = CurrentReading /\ data' = <<>>
    BY <1>2, <2>1 DEF DeleteAE, CurrentReading, Boots, mainVars
  <2>3. FeedOf(data)' = <<>>
    BY <2>2 DEF FeedOf
  <2> QED
    BY <2>2, <2>3 DEF Feed!Next, Feed!Wipe, FeedOf
<1> SUFFICES ASSUME ~ Reboot, ~ DeleteAE
             PROVE  Feed!Next \/ UNCHANGED <<CurrentReading, data>>
  BY <1>1, <1>2
<1>3. CASE NextRequest
  <2>1. data' = data
    BY <1>3 DEF NextRequest, cseVars
  <2>2. CASE op_state = reporting
    <3>1. reports' = reports + 1 /\ myMeterValue' \in Nat /\ myMeterValue' >= myMeterValue
      <4>1. \A r \in Increments : r \in Nat
        BY ConstantsAssumption
      <4> QED
        BY <1>t, <1>3, <2>2, <4>1 DEF NextRequest, IncrementMyMeterValue, TypeOK
    <3>2. /\ CurrentReading' = [boot |-> CurrentReading.boot,
                                report |-> CurrentReading.report + 1,
                                kWH |-> CurrentReading'.kWH]
          /\ CurrentReading'.kWH \in Nat /\ CurrentReading'.kWH >= CurrentReading.kWH
      BY <1>a, <3>1 DEF CurrentReading
    <3>3. [i \in DOMAIN data |-> data[i].reading]' = [i \in DOMAIN data |-> data[i].reading]
      BY <2>1
    <3> QED
      BY <3>2, <3>3 DEF Feed!Next, Feed!Take
  <2>3. CASE op_state # reporting
    BY <1>a, <1>b, <1>3, <2>1, <2>3 DEF NextRequest
  <2> QED
    BY <2>2, <2>3
<1>4. CASE \/ Boot \/ CheckCall \/ StartDataCall \/ WaitCall \/ ConfigureDns
           \/ HttpConnect \/ HttpRequest \/ WaitHttp \/ WakeUp
  <2>1. UNCHANGED <<data, reports, myMeterValue>>
    BY <1>4 DEF Boot, CheckCall, StartDataCall, WaitCall, ConfigureDns, HttpConnect,
       HttpRequest, WaitHttp, Advanced, WakeUp, cseVars
  <2> QED
    BY <1>a, <1>b, <2>1
<1>5. CASE \/ Stopped \/ UNCHANGED vars \/ Callbacks \/ CallUp \/ CallRefused \/ CallDrop
           \/ CseError \/ TransportFails
  <2>1. UNCHANGED <<mainVars, data>>
    BY <1>5 DEF Stopped, vars, Callbacks, dss_event_cb, http_client_cb, CallUp, CallRefused,
       CallDrop, CseError, TransportFails, cseVars
  <2> QED
    BY <1>a, <1>b, <2>1 DEF mainVars
<1>6. CASE CseServe
  <2>1. UNCHANGED mainVars /\ Create(request.msg)
        /\ request.msg.reading = CurrentReading /\ request.msg \in Message
    BY <1>t, <1>6 DEF CseServe, IInv, RequestIsCurrent, TypeOK, Request
  <2>2. CurrentReading' = CurrentReading
    BY <1>a, <1>b, <2>1 DEF mainVars
  <2> QED
    BY <1>t, <2>1, <2>2, CreateIsStore DEF Feed!Next
<1>7. CASE CseServeLate
  <2>1. PICK msg \in late : Create(msg)
    BY <1>7 DEF CseServeLate
  <2>2. msg \in Message /\ (msg.op = reporting => msg.reading = CurrentReading)
    BY <1>t DEF TypeOK, OrderInv, LateIsCurrent
  <2>3. CurrentReading' = CurrentReading
    BY <1>a, <1>b, <1>7 DEF CseServeLate, mainVars
  <2> QED
    BY <1>t, <2>1, <2>2, <2>3, CreateIsStore DEF Feed!Next
<1> QED
  BY <1>3, <1>4, <1>5, <1>6, <1>7 DEF Next, Main, Environment

\* The meter implements the feed it promises, if the server forgets the
\* requests of a connection the meter has closed.
THEOREM ImplementsFeed == ASSUME ~ ServesClosed PROVE Spec => FeedSpec
<1>1. Init => Feed!Init
  <2> SUFFICES ASSUME Init PROVE Feed!Init
    OBVIOUS
  <2>1. Boots = 0
    BY ConstantsAssumption DEF Init, Boots, Faults
  <2>2. FeedOf(data) = <<>>
    BY DEF Init, FeedOf
  <2> QED
    BY <2>1, <2>2 DEF Init, Feed!Init, FeedOf, CurrentReading
<1>2. IInv /\ OrderInv /\ CopiesBounded' /\ [Next]_vars
        => [Feed!Next]_(Feed!feedVars)
  <2> SUFFICES ASSUME IInv, OrderInv, CopiesBounded', [Next]_vars
               PROVE  Feed!Next \/ UNCHANGED Feed!feedVars
    OBVIOUS
  <2>1. UNCHANGED <<CurrentReading, data>> => UNCHANGED Feed!feedVars
    BY DEF Feed!feedVars
  <2> QED
    BY <2>1, FeedStep
<1>3. Init => OrderInv
  BY DEF Init, OrderInv, DataIsPast, LateIsCurrent, ReadingsInOrder
<1>4. IInv /\ OrderInv /\ [Next]_vars => OrderInv'
  BY OrderStep
<1> QED
  BY <1>1, <1>2, <1>3, <1>4, Invariance, CopiesAreBounded, PTL DEF Spec, FeedSpec, Feed!Spec

-----------------------------------------------------------------------------
(***************************************************************************)
(* The data call: when its loss is not forgotten.                          *)
(***************************************************************************)

\* A step that is neither of the two races.
Calm == ~ DropUnseen /\ ~ SetupFails

\* The invariant is one of the flags of the call and its events only.
LEMMA CallIsKnownFrame ==
  ASSUME CallIsKnown, UNCHANGED <<pc, no_data_call, call, dssEvents>>,
         flags' \cap CALL_EVENTS = flags \cap CALL_EVENTS
  PROVE  CallIsKnown'
BY DEF CallIsKnown, Quiet, Announced, LossAnnounced

\* Main goes on without looking at the call, with nothing but a loss of it
\* announced.
LEMMA CallIsKnownOnward ==
  ASSUME CallIsKnown, UNCHANGED <<no_data_call, call, dssEvents>>,
         flags' \cap CALL_EVENTS = flags \cap CALL_EVENTS,
         pc \in {"check_call", "http_connect", "next_request", "http_request",
                 "wait_http", "sleep", "stopped"},
         pc' \in {"check_call", "next_request", "http_request", "wait_http", "sleep"}
  PROVE  CallIsKnown'
BY DEF CallIsKnown, Quiet, Announced, LossAnnounced

LEMMA CallIsKnownStep ==
  TypeOK /\ CallIsKnown /\ [Next]_vars /\ [Calm]_vars => CallIsKnown'
<1> SUFFICES ASSUME TypeOK, CallIsKnown, [Next]_vars, [Calm]_vars PROVE CallIsKnown'
  OBVIOUS
<1>0. flags \subseteq Events /\ no_data_call \in BOOLEAN /\ dssEvents \in Seq(CALL_EVENTS)
      /\ call \in {"down", "starting", "up"}
  BY DEF TypeOK
<1>e. /\ EVENT_CALL_CONNECT # EVENT_CALL_DISCONNECT
      /\ CALL_EVENTS = {EVENT_CALL_CONNECT, EVENT_CALL_DISCONNECT}
      /\ HTTP_EVENTS \cap CALL_EVENTS = {} /\ Events = CALL_EVENTS \cup HTTP_EVENTS
  BY DEF EVENT_CALL_CONNECT, EVENT_CALL_DISCONNECT, EVENT_HTTP_SUCCESS, EVENT_HTTP_FAIL,
         CALL_EVENTS, HTTP_EVENTS, Events
<1>k. /\ pc = "wait_call" => \/ call = "starting" /\ Quiet
                             \/ call = "up" /\ Announced(EVENT_CALL_CONNECT)
                             \/ LossAnnounced /\ no_data_call
      /\ pc # "wait_call" => call # "starting" /\ (Quiet \/ (LossAnnounced /\ ~ no_data_call))
      /\ pc \in {"start_call", "config_dns"} => Quiet
      /\ pc = "config_dns" => call = "up"
      /\ pc = "http_connect" => ~ no_data_call
      /\ pc = "boot" => no_data_call
      /\ ~ no_data_call /\ pc \notin {"start_call", "wait_call"} => call = "up" \/ LossAnnounced
  BY DEF CallIsKnown
<1>c. \/ UNCHANGED vars
      \/ /\ CallDrop => ~ no_data_call /\ pc \notin {"start_call", "wait_call", "config_dns"}
         /\ left'["start"] # left["start"] => no_data_call
  BY DEF Calm, DropUnseen, SetupFails
<1>s. Spend("start") => left'["start"] # left["start"]
  BY DEF Spend, TypeOK, Faults
\* The set-up ends without success, with nothing announced.
<1>f. ASSUME CallFailed, Quiet', call' = call, call # "starting", no_data_call \/ call = "up"
      PROVE  CallIsKnown'
  BY <1>f DEF CallFailed, CallIsKnown, LossAnnounced, Quiet
<1>1. CASE Boot
  <2>1. UNCHANGED <<call, dssEvents, flags>> /\ no_data_call' /\ pc' \in {"check_call", "stopped"}
    BY <1>1 DEF Boot, callVars
  <2>2. pc = "boot"
    BY <1>1 DEF Boot
  <2> QED
    BY <1>k, <2>1, <2>2 DEF CallIsKnown, Quiet
<1>2. CASE CheckCall
  <2>1. UNCHANGED <<call, dssEvents, no_data_call>> /\ pc = "check_call"
    BY <1>2 DEF CheckCall, callVars
  <2>2. CASE no_data_call
    <3>1. pc' = "start_call" /\ flags' = flags /\ Quiet
      BY <1>2, <1>k, <2>1, <2>2 DEF CheckCall
    <3> QED
      BY <1>k, <2>1, <2>2, <3>1 DEF CallIsKnown, Quiet
  <2>3. CASE ~ no_data_call /\ EVENT_CALL_DISCONNECT \in flags
    <3>1. pc' = "start_call" /\ flags' = flags \ {EVENT_CALL_DISCONNECT}
      BY <1>2, <2>3 DEF CheckCall, Consume
    <3>2. LossAnnounced
      BY <1>e, <1>k, <2>1, <2>3 DEF Quiet
    <3>3. Quiet' /\ call' # "starting"
      BY <1>e, <2>1, <2>3, <3>1, <3>2 DEF Quiet, LossAnnounced, Announced
    <3> QED
      BY <2>1, <3>1, <3>3 DEF CallIsKnown
  <2>4. CASE ~ no_data_call /\ EVENT_CALL_DISCONNECT \notin flags
    <3>1. pc' = "http_connect" /\ flags' = flags
      BY <1>2, <2>4 DEF CheckCall
    <3>2. (LossAnnounced <=> LossAnnounced') /\ (Quiet <=> Quiet')
      BY <2>1, <3>1 DEF LossAnnounced, Announced, Quiet
    <3> QED
      BY <1>k, <2>1, <2>4, <3>1, <3>2 DEF CallIsKnown
  <2> QED
    BY <2>2, <2>3, <2>4
<1>3. CASE StartDataCall
  <2>1. pc = "start_call" /\ flags' = flags \ CALL_EVENTS /\ dssEvents = <<>> /\ call # "starting"
    BY <1>3, <1>k DEF StartDataCall, Quiet
  <2>2. CASE Spend("start") /\ CallFailed /\ UNCHANGED callVars
    <3>1. no_data_call
      BY <1>c, <1>s, <2>1, <2>2 DEF vars
    <3>2. Quiet' /\ call' = call
      BY <2>1, <2>2 DEF Quiet, callVars
    <3> QED
      BY <1>f, <2>1, <2>2, <3>1, <3>2
  <2>3. CASE /\ pc' = "wait_call"
             /\ call' = IF call = "up" THEN "up" ELSE "starting"
             /\ dssEvents' = IF call = "up"
                             THEN Append(dssEvents, EVENT_CALL_CONNECT) ELSE dssEvents
    <3>1. call' = "up" => dssEvents' = <<EVENT_CALL_CONNECT>>
      BY <2>1, <2>3
    <3>2. call' # "up" => call' = "starting" /\ dssEvents' = <<>>
      BY <2>1, <2>3
    <3>3. flags' \cap CALL_EVENTS = {}
      BY <2>1
    <3> QED
      BY <2>3, <3>1, <3>2, <3>3 DEF CallIsKnown, Quiet, Announced
  <2> QED
    BY <1>3, <2>2, <2>3 DEF StartDataCall
<1>4. CASE WaitCall
  <2>1. /\ pc = "wait_call" /\ flags \cap CALL_EVENTS # {} /\ flags' = flags \ CALL_EVENTS
        /\ UNCHANGED <<call, dssEvents>>
    BY <1>4 DEF WaitCall, Consume, callVars
  <2>2. \/ call = "up" /\ dssEvents = <<>> /\ flags \cap CALL_EVENTS = {EVENT_CALL_CONNECT}
        \/ /\ call = "down" /\ dssEvents = <<>> /\ no_data_call
           /\ flags \cap CALL_EVENTS = {EVENT_CALL_DISCONNECT}
    BY <1>k, <2>1 DEF Quiet, Announced, LossAnnounced
  <2>3. Quiet'
    BY <2>1, <2>2 DEF Quiet
  <2>4. CASE EVENT_CALL_CONNECT \in flags
    <3>1. pc' = "config_dns" /\ UNCHANGED no_data_call
      BY <1>4, <2>4 DEF WaitCall
    <3>2. call' = "up"
      BY <1>e, <2>1, <2>2, <2>4
    <3> QED
      BY <2>3, <3>1, <3>2 DEF CallIsKnown
  <2>5. CASE EVENT_CALL_CONNECT \notin flags
    <3>1. CallFailed
      BY <1>4, <2>5 DEF WaitCall
    <3> QED
      BY <1>e, <1>f, <2>1, <2>2, <2>3, <2>5, <3>1
  <2> QED
    BY <2>4, <2>5
<1>5. CASE ConfigureDns
  <2>1. pc = "config_dns" /\ UNCHANGED <<flags, call, dssEvents>>
    BY <1>5 DEF ConfigureDns, callVars
  <2>2. Quiet /\ Quiet' /\ call = "up"
    BY <1>k, <2>1 DEF Quiet
  <2>3. CASE pc' = "http_connect" /\ no_data_call' = FALSE
    BY <2>1, <2>2, <2>3 DEF CallIsKnown
  <2>4. CASE CallFailed
    BY <1>f, <2>1, <2>2, <2>4
  <2> QED
    BY <1>5, <2>3, <2>4 DEF ConfigureDns
<1>6. CASE HttpConnect
  <2>1. pc = "http_connect" /\ UNCHANGED <<no_data_call, flags, call, dssEvents>>
    BY <1>6 DEF HttpConnect, callVars
  <2>2. pc' \in {"http_connect", "next_request", "sleep"}
    BY <1>6, <2>1 DEF HttpConnect
  <2> QED
    BY <2>1, <2>2, CallIsKnownFrame, CallIsKnownOnward
<1>7. CASE NextRequest \/ HttpRequest \/ WakeUp
  <2>1. /\ pc \in {"next_request", "http_request", "sleep"}
        /\ pc' \in {"check_call", "http_request", "wait_http", "sleep"}
    BY <1>7 DEF NextRequest, HttpRequest, RequestFailed, WakeUp
  <2>2. UNCHANGED <<no_data_call, flags, call, dssEvents>>
    BY <1>7 DEF NextRequest, HttpRequest, WakeUp, callVars
  <2> QED
    BY <2>1, <2>2, CallIsKnownOnward
<1>8. CASE WaitHttp
  <2>1. pc = "wait_http" /\ pc' \in {"next_request", "http_request", "sleep"}
    BY <1>8 DEF WaitHttp, RequestFailed
  <2>2. UNCHANGED <<no_data_call, call, dssEvents>> /\ flags' = flags \ HTTP_EVENTS
    BY <1>8 DEF WaitHttp, Consume, callVars
  <2>3. flags' \cap CALL_EVENTS = flags \cap CALL_EVENTS
    BY <1>e, <2>2
  <2> QED
    BY <2>1, <2>2, <2>3, CallIsKnownOnward
<1>9. CASE dss_event_cb
  <2>1. /\ dssEvents # <<>> /\ flags' = flags \cup {Head(dssEvents)}
        /\ dssEvents' = Tail(dssEvents) /\ UNCHANGED <<pc, no_data_call, call>>
    BY <1>9 DEF dss_event_cb, mainVars
  <2>2. ~ Quiet
    BY <2>1 DEF Quiet
  <2>3. ASSUME NEW event \in CALL_EVENTS, Announced(event)
        PROVE  Announced(event)'
    <3>1. dssEvents = <<event>> /\ flags \cap CALL_EVENTS = {}
      BY <2>1, <2>3 DEF Announced
    <3>2. dssEvents' = <<>> /\ Head(dssEvents) = event
      BY <2>1, <3>1
    <3> QED
      BY <2>1, <2>3, <3>1, <3>2 DEF Announced
  <2>4. LossAnnounced => LossAnnounced'
    BY <1>e, <2>1, <2>3 DEF LossAnnounced
  <2>5. Announced(EVENT_CALL_CONNECT) => Announced(EVENT_CALL_CONNECT)'
    BY <1>e, <2>3
  <2> QED
    BY <1>k, <2>1, <2>2, <2>4, <2>5 DEF CallIsKnown
<1>10. CASE http_client_cb
  <2>1. UNCHANGED <<pc, no_data_call, call, dssEvents>>
    BY <1>10 DEF http_client_cb, mainVars, callVars
  <2>2. PICK event \in HTTP_EVENTS : flags' = flags \cup {event}
    BY <1>10 DEF http_client_cb, HTTP_EVENTS
  <2>3. flags' \cap CALL_EVENTS = flags \cap CALL_EVENTS
    BY <1>e, <2>2
  <2> QED
    BY <2>1, <2>3, CallIsKnownFrame
<1>11. CASE CallUp
  <2>1. /\ call = "starting" /\ call' = "up" /\ UNCHANGED <<pc, no_data_call, flags>>
        /\ dssEvents' = Append(dssEvents, EVENT_CALL_CONNECT)
    BY <1>11 DEF CallUp, mainVars
  <2>2. pc = "wait_call" /\ Quiet
    BY <1>k, <2>1 DEF LossAnnounced
  <2>3. Announced(EVENT_CALL_CONNECT)'
    BY <2>1, <2>2 DEF Quiet, Announced
  <2> QED
    BY <2>1, <2>2, <2>3 DEF CallIsKnown
<1>12. CASE CallRefused
  <2>1. /\ call = "starting" /\ call' = "down" /\ UNCHANGED <<pc, no_data_call, flags>>
        /\ dssEvents' = Append(dssEvents, EVENT_CALL_DISCONNECT) /\ Spend("start")
    BY <1>12 DEF CallRefused, mainVars
  <2>2. pc = "wait_call" /\ Quiet /\ no_data_call
    BY <1>k, <1>c, <1>s, <2>1 DEF LossAnnounced, vars
  <2>3. LossAnnounced'
    BY <2>1, <2>2 DEF Quiet, Announced, LossAnnounced
  <2> QED
    BY <2>1, <2>2, <2>3 DEF CallIsKnown
<1>13. CASE CallDrop
  <2>1. /\ call = "up" /\ call' = "down" /\ UNCHANGED <<pc, no_data_call, flags>>
        /\ dssEvents' = Append(dssEvents, EVENT_CALL_DISCONNECT)
    BY <1>13 DEF CallDrop, mainVars
  <2>2. ~ no_data_call /\ pc \notin {"start_call", "wait_call", "config_dns"}
    BY <1>c, <1>13, <2>1 DEF vars, callVars
  <2>3. Quiet
    BY <1>k, <2>1, <2>2 DEF LossAnnounced
  <2>4. LossAnnounced'
    BY <2>1, <2>3 DEF Quiet, Announced, LossAnnounced
  <2> QED
    BY <1>k, <2>1, <2>2, <2>4 DEF CallIsKnown
<1>14. CASE CseServe \/ CseError \/ TransportFails \/ CseServeLate \/ DeleteAE \/ Stopped
            \/ UNCHANGED vars
  <2>1. UNCHANGED <<pc, no_data_call, call, dssEvents, flags>>
    BY <1>14 DEF CseServe, CseError, TransportFails, CseServeLate, DeleteAE, Stopped, vars,
                 mainVars, callVars
  <2> QED
    BY <2>1, CallIsKnownFrame
<1>15. CASE Reboot
  <2>1. pc' = "boot" /\ no_data_call' /\ flags' = {} /\ call' = "down" /\ dssEvents' = <<>>
    BY <1>15 DEF Reboot
  <2> QED
    BY <2>1 DEF CallIsKnown, Quiet
<1> QED
  BY <1>1, <1>2, <1>3, <1>4, <1>5, <1>6, <1>7, <1>8, <1>9, <1>10, <1>11, <1>12, <1>13, <1>14,
     <1>15 DEF Next, Main, Callbacks, Environment

LEMMA CallIsKnownInit == Init => CallIsKnown
BY DEF Init, CallIsKnown, Quiet

LEMMA KnownIsNotForgotten == CallIsKnown => LossNotForgotten
<1> SUFFICES ASSUME CallIsKnown, pc = "http_connect", call # "up"
             PROVE  \/ EVENT_CALL_DISCONNECT \in flags
                    \/ \E i \in DOMAIN dssEvents : dssEvents[i] = EVENT_CALL_DISCONNECT
  BY DEF LossNotForgotten
<1>1. Announced(EVENT_CALL_DISCONNECT)
  BY DEF CallIsKnown, LossAnnounced
<1>2. CASE dssEvents = <<EVENT_CALL_DISCONNECT>>
  <2>1. 1 \in DOMAIN dssEvents /\ dssEvents[1] = EVENT_CALL_DISCONNECT
    BY <1>2
  <2> QED
    BY <2>1
<1>3. CASE flags \cap CALL_EVENTS = {EVENT_CALL_DISCONNECT}
  BY <1>3
<1> QED
  BY <1>1, <1>2, <1>3 DEF Announced

\* Whatever happens to calls, requests and the device, only the two races make
\* main lose sight of its call, and a restart always mends it.
THEOREM OnlyRacesMakeItForget == Spec => OnlyRacesForget
<1>1. TypeOK /\ [Next]_vars
        => [(CallIsKnown \/ Reboot) => (CallIsKnown' \/ DropUnseen \/ SetupFails)]_vars
  <2> SUFFICES ASSUME TypeOK, Next, CallIsKnown \/ Reboot, ~ DropUnseen, ~ SetupFails
               PROVE  CallIsKnown'
    OBVIOUS
  <2>1. CASE CallIsKnown
    BY <2>1, CallIsKnownStep DEF Calm
  <2>2. CASE Reboot
    BY <2>2 DEF Reboot, CallIsKnown, Quiet
  <2> QED
    BY <2>1, <2>2
<1> QED
  BY <1>1, TypeCorrect, PTL DEF Spec, OnlyRacesForget

\* Without the two races main never goes on to HTTP without a call whose loss
\* it is not going to see, however often calls are lost, refused or fail to be
\* configured.
THEOREM LossIsRemembered == Spec /\ [][Calm]_vars => []LossNotForgotten
<1>1. TypeOK /\ CallIsKnown /\ [Next]_vars /\ [Calm]_vars => CallIsKnown'
  BY CallIsKnownStep
<1> QED
  BY <1>1, TypeCorrect, CallIsKnownInit, KnownIsNotForgotten, PTL DEF Spec

=============================================================================
