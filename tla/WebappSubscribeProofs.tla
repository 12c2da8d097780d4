------------------------- MODULE WebappSubscribeProofs -------------------------
(***************************************************************************)
(* Proofs about WebappSubscribe, for any meters, any number of browsers'   *)
(* calls at a time, and any number of errors and kills.                    *)
(***************************************************************************)
EXTENDS WebappSubscribe, TLAPS

-----------------------------------------------------------------------------
(***************************************************************************)
(* The server.                                                             *)
(***************************************************************************)

ServerType ==
  aes \subseteq AEs /\ containers \subseteq AEs /\ sub \in [AEs -> Listeners \cup {NoOne}]
ServerOrder ==
  containers \subseteq aes /\ \A ae \in AEs : sub[ae] # NoOne => ae \in containers

\* What one request of a chain does to the server.  Only a createAE makes an
\* application entity, and what the other steps need stays.
LEMMA PerformStep ==
  ASSUME ServerType, NEW step, NEW ae \in AEs, NEW s \in Subscribes,
         Perform(step, ae, ListenerOf[s])
  PROVE  /\ ServerType'
         /\ aes \subseteq aes' /\ containers \subseteq containers'
         /\ aes' \subseteq aes \cup {ae} /\ (step # "createAE" => aes' = aes)
         /\ \A other \in AEs \ {ae} : sub'[other] = sub[other]
         /\ step = "createAE" => ae \in aes'
         /\ (step = "createDataContainer" /\ ae \in aes) => ae \in containers'
         /\ step = "deleteSubscription" => sub'[ae] = NoOne /\ containers' = containers
         /\ step = "sendSubscription" =>
              sub'[ae] = IF ae \in containers /\ sub[ae] = NoOne THEN ListenerOf[s] ELSE sub[ae]
         /\ step \notin {"deleteSubscription", "sendSubscription"} => sub' = sub
         /\ ServerOrder => ServerOrder'
<1>1. ListenerOf[s] \in Listeners
  BY DEF Listeners
<1>2. CASE step = "createAE" /\ CreateAe(ae)
  BY <1>2 DEF CreateAe, ServerType, ServerOrder
<1>3. CASE step = "createDataContainer" /\ CreateContainer(ae)
  BY <1>3 DEF CreateContainer, ServerType, ServerOrder
<1>4. CASE step = "deleteSubscription" /\ Unsubscribe(ae)
  BY <1>4 DEF Unsubscribe, ServerType, ServerOrder
<1>5. CASE step = "sendSubscription" /\ Subscribe(ae, ListenerOf[s])
  BY <1>1, <1>5 DEF Subscribe, ServerType, ServerOrder
<1> QED
  BY <1>2, <1>3, <1>4, <1>5 DEF Perform

\* Of these, what is about application entities, and what about subscriptions.
LEMMA PerformEntities ==
  ASSUME ServerType, NEW step, NEW ae \in AEs, NEW s \in Subscribes,
         Perform(step, ae, ListenerOf[s])
  PROVE  aes' \subseteq aes \cup {ae} /\ (ServerOrder => ServerOrder')
<1>1. aes' \subseteq aes \cup {ae}
  BY DEF Perform, CreateAe, CreateContainer, Unsubscribe, Subscribe
<1>2. ServerOrder => ServerOrder'
  BY PerformStep
<1> QED
  BY <1>1, <1>2

LEMMA PerformSub ==
  ASSUME ServerType, NEW step, NEW ae \in AEs, NEW s \in Subscribes,
         Perform(step, ae, ListenerOf[s])
  PROVE  /\ \A other \in AEs \ {ae} : sub'[other] = sub[other]
         /\ step = "deleteSubscription" => sub'[ae] = NoOne
         /\ (step = "sendSubscription" /\ ae \in containers /\ sub[ae] = NoOne) =>
              sub'[ae] = ListenerOf[s]
BY DEF Perform, CreateAe, CreateContainer, Unsubscribe, Subscribe, ServerType

\* What deleting an application entity does.
LEMMA RemoveStep ==
  ASSUME ServerType, NEW ae \in AEs, Remove(ae)
  PROVE  /\ ServerType'
         /\ aes' = aes \ {ae} /\ containers' = containers \ {ae}
         /\ \A other \in AEs \ {ae} : sub'[other] = sub[other]
         /\ sub'[ae] = NoOne
         /\ ServerOrder => ServerOrder'
BY DEF Remove, ServerType, ServerOrder

LEMMA TypeOfServer == TypeOK => ServerType
BY DEF TypeOK, ServerType

\* The states a call is set to.
LEMMA SetStep ==
  ASSUME TypeOK, NEW c \in Calls, NEW phase \in Phases, NEW names \in SUBSET AEs,
         Set(c, At(phase, names))
  PROVE  /\ call' \in [Calls -> [phase : Phases, names : SUBSET AEs]]
         /\ call'[c].phase = phase /\ call'[c].names = names
         /\ \A other \in Calls \ {c} : call'[other] = call[other]
BY DEF Set, At, TypeOK

\* An error is counted.
LEMMA FailsStep ==
  ASSUME ConstantsAssumption, TypeOK, Fails
  PROVE  errors' \in 0..Errors /\ errors' # 0
BY DEF ConstantsAssumption, TypeOK, Fails

\* Once there are errors there are.
LEMMA ErrorsStay ==
  ASSUME ConstantsAssumption, TypeOK, UNCHANGED errors \/ Fails
  PROVE  errors' \in 0..Errors /\ (errors' = 0 => UNCHANGED errors)
BY FailsStep DEF TypeOK

-----------------------------------------------------------------------------
(***************************************************************************)
(* Types.                                                                  *)
(***************************************************************************)

LEMMA NamesAreCalls ==
  /\ Subscribes \subseteq Calls /\ Deletes \subseteq Calls
  /\ {"answered", "waiting", "subscribing", "refused", "success", "deleted", "lost", "new"}
       \subseteq Phases
BY DEF Calls, Phases

LEMMA AfterType ==
  /\ \A step \in Steps : After[step] \in Progress /\ After[step] # "none"
  /\ After["createAE"] = "createDataContainer"
  /\ After["createDataContainer"] = "deleteSubscription"
  /\ After["deleteSubscription"] = "sendSubscription"
  /\ After["sendSubscription"] = "resolved"
<1>1. After = [step \in Steps |->
                 IF step = "createAE" THEN "createDataContainer"
                 ELSE IF step = "createDataContainer" THEN "deleteSubscription"
                 ELSE IF step = "deleteSubscription" THEN "sendSubscription"
                 ELSE "resolved"]
  <2>1. \A step \in Steps :
          (CASE step = "createAE"            -> "createDataContainer"
             [] step = "createDataContainer" -> "deleteSubscription"
             [] step = "deleteSubscription"  -> "sendSubscription"
             [] step = "sendSubscription"    -> "resolved")
          = IF step = "createAE" THEN "createDataContainer"
            ELSE IF step = "createDataContainer" THEN "deleteSubscription"
            ELSE IF step = "deleteSubscription" THEN "sendSubscription"
            ELSE "resolved"
    BY DEF Steps
  <2> QED
    BY <2>1 DEF After
<1> QED
  BY <1>1 DEF Steps, Progress

\* A request moves its chain, and no other.
LEMMA RequestStep ==
  ASSUME TypeOK, NEW s \in Subscribes, NEW ae \in AEs, Request(s, ae)
  PROVE  /\ chain' \in [Subscribes -> [AEs -> Progress]]
         /\ \A r \in Subscribes, other \in AEs :
              (r # s \/ other # ae) => chain'[r][other] = chain[r][other]
         /\ chain'[s][ae] # "none"
         /\ \/ /\ Perform(chain[s][ae], ae, ListenerOf[s]) /\ UNCHANGED errors
               /\ chain'[s][ae] = After[chain[s][ae]]
            \/ /\ Fails /\ chain'[s][ae] = "rejected"
               /\ Perform(chain[s][ae], ae, ListenerOf[s]) \/ UNCHANGED cse
<1>1. PICK next \in Progress :
        /\ chain' = [chain EXCEPT ![s][ae] = next]
        /\ next # "none"
        /\ \/ /\ Perform(chain[s][ae], ae, ListenerOf[s]) /\ UNCHANGED errors
              /\ next = After[chain[s][ae]]
           \/ /\ Fails /\ next = "rejected"
              /\ Perform(chain[s][ae], ae, ListenerOf[s]) \/ UNCHANGED cse
  BY AfterType DEF Request, Progress
<1>2. chain \in [Subscribes -> [AEs -> Progress]]
  BY DEF TypeOK
<1>3. chain'[s][ae] = next
  BY <1>1, <1>2
<1>4. chain' \in [Subscribes -> [AEs -> Progress]]
  BY <1>1, <1>2
<1>5. \A r \in Subscribes, other \in AEs :
        (r # s \/ other # ae) => chain'[r][other] = chain[r][other]
  BY <1>1, <1>2
<1> QED
  BY <1>1, <1>3, <1>4, <1>5

LEMMA TypeStep ==
  ASSUME ConstantsAssumption, TypeOK, [Next]_vars
  PROVE  TypeOK'
<1>0. ServerType
  BY TypeOfServer
<1>1. CASE UNCHANGED vars
  BY <1>1 DEF vars, cse, TypeOK
<1>2. ASSUME NEW ae \in AEs, MeterRegisters(ae) \/ MeterCreatesContainer(ae)
      PROVE  TypeOK'
  BY <1>2 DEF MeterRegisters, MeterCreatesContainer, CreateAe, CreateContainer, TypeOK
<1>3. ASSUME NEW c \in Calls, Call(c)
      PROVE  TypeOK'
  <2>1. call' \in [Calls -> [phase : Phases, names : SUBSET AEs]]
    BY <1>3, SetStep, NamesAreCalls DEF Call
  <2> QED
    BY <1>3, <2>1 DEF Call, cse, TypeOK
<1>4. ASSUME NEW s \in Subscribes, Listed(s)
      PROVE  TypeOK'
  <2>1. Entities(aes \cup Policies) \in SUBSET AEs
    BY DEF Entities
  <2>2. call' \in [Calls -> [phase : Phases, names : SUBSET AEs]]
    BY <1>4, <2>1, SetStep, NamesAreCalls DEF Listed
  <2>3. errors' \in 0..Errors
    BY <1>4, ErrorsStay DEF Listed
  <2> QED
    BY <1>4, <2>2, <2>3 DEF Listed, cse, TypeOK
<1>5. ASSUME NEW s \in Subscribes, ListCallback(s)
      PROVE  TypeOK'
  <2>1. call[s].names \in SUBSET AEs
    BY NamesAreCalls DEF TypeOK
  <2>2. call' \in [Calls -> [phase : Phases, names : SUBSET AEs]]
    BY <1>5, <2>1, SetStep, NamesAreCalls DEF ListCallback
  <2>3. errors' \in 0..Errors
    BY <1>5, ErrorsStay DEF ListCallback
  <2>4. chain' \in [Subscribes -> [AEs -> Progress]]
    <3>1. PICK begun : chain' = [chain EXCEPT ![s] =
                         [ae \in AEs |-> IF ae \in begun THEN "createAE" ELSE "none"]]
      BY <1>5 DEF ListCallback
    <3> QED
      BY <3>1 DEF TypeOK, Progress, Steps
  <2> QED
    BY <1>5, <2>1, <2>2, <2>3, <2>4 DEF ListCallback, cse, TypeOK
<1>6. ASSUME NEW s \in Subscribes, NEW ae \in AEs, Request(s, ae)
      PROVE  TypeOK'
  <2>1. errors' \in 0..Errors
    BY <1>6, ErrorsStay DEF Request
  <2>2. ServerType'
    <3>1. CASE UNCHANGED cse
      BY <1>0, <3>1 DEF cse, ServerType
    <3>2. CASE Perform(chain[s][ae], ae, ListenerOf[s])
      BY <1>0, <3>2, PerformStep
    <3> QED
      BY <1>6, <3>1, <3>2 DEF Request
  <2>3. chain' \in [Subscribes -> [AEs -> Progress]]
    BY <1>6, RequestStep
  <2> QED
    BY <1>6, <2>1, <2>2, <2>3 DEF Request, ServerType, TypeOK
<1>7. ASSUME NEW s \in Subscribes, AnswerSubscribe(s)
      PROVE  TypeOK'
  <2>1. call[s].names \in SUBSET AEs
    BY NamesAreCalls DEF TypeOK
  <2>2. call' \in [Calls -> [phase : Phases, names : SUBSET AEs]]
    BY <1>7, <2>1, SetStep, NamesAreCalls DEF AnswerSubscribe
  <2> QED
    BY <1>7, <2>2 DEF AnswerSubscribe, cse, TypeOK
<1>8. ASSUME NEW d \in Deletes, Deleted(d)
      PROVE  TypeOK'
  <2>1. errors' \in 0..Errors
    BY <1>8, ErrorsStay DEF Deleted
  <2>2. ServerType'
    <3>1. CASE UNCHANGED cse
      BY <1>0, <3>1 DEF cse, ServerType
    <3>2. CASE Remove(ResourceOf[d])
      BY <1>0, <3>2, RemoveStep DEF ConstantsAssumption
    <3> QED
      BY <1>8, <3>1, <3>2 DEF Deleted
  <2>3. call' \in [Calls -> [phase : Phases, names : SUBSET AEs]]
    BY <1>8, SetStep, NamesAreCalls DEF Deleted
  <2> QED
    BY <1>8, <2>1, <2>2, <2>3 DEF Deleted, ServerType, TypeOK
<1>9. ASSUME NEW d \in Deletes, DeleteCallback(d)
      PROVE  TypeOK'
  <2>1. call' \in [Calls -> [phase : Phases, names : SUBSET AEs]]
    BY <1>9, SetStep, NamesAreCalls DEF DeleteCallback
  <2> QED
    BY <1>9, <2>1 DEF DeleteCallback, Without, cse, TypeOK
<1>10. CASE Kill
  <2>1. ServerType'
    <3>1. CASE UNCHANGED cse
      BY <1>0, <3>1 DEF cse, ServerType
    <3>2. ASSUME NEW d \in Deletes, Remove(ResourceOf[d])
          PROVE  ServerType'
      BY <1>0, <3>2, RemoveStep DEF ConstantsAssumption
    <3>3. ASSUME NEW s \in Subscribes, NEW ae \in AEs, Perform(chain[s][ae], ae, ListenerOf[s])
          PROVE  ServerType'
      BY <1>0, <3>3, PerformStep
    <3> QED
      BY <1>10, <3>1, <3>2, <3>3 DEF Kill
  <2>2. call' \in [Calls -> [phase : Phases, names : SUBSET AEs]]
    BY <1>10, NamesAreCalls DEF Kill, At, TypeOK
  <2>3. killed' \in 0..Kills
    BY <1>10 DEF Kill, TypeOK, ConstantsAssumption
  <2> QED
    BY <1>10, <2>1, <2>2, <2>3 DEF Kill, ServerType, TypeOK
<1> QED
  BY <1>1, <1>2, <1>3, <1>4, <1>5, <1>6, <1>7, <1>8, <1>9, <1>10
  DEF Next, Subscribing, Deleting

-----------------------------------------------------------------------------
(***************************************************************************)
(* The steps of calls.                                                     *)
(***************************************************************************)

\* A kill leaves nothing under way.
LEMMA KillStep ==
  ASSUME TypeOK, Kill
  PROVE  /\ AE_NAMES' = {} /\ UnderWay' = {}
         /\ \A c \in Calls : /\ call'[c].phase \notin {"waiting", "answered", "subscribing"}
                             /\ call'[c].phase = "deleted" => call[c].phase = "deleted"
                             /\ call'[c] # call[c] =>
                                  /\ call'[c].phase = "lost" /\ call'[c].names = {}
                                  /\ call[c].phase # "lost"
<1>1. ASSUME NEW c \in Calls
      PROVE  /\ call'[c].phase \notin {"waiting", "answered", "subscribing"}
             /\ call'[c].phase = "deleted" => call[c].phase = "deleted"
             /\ call'[c] # call[c] => /\ call'[c].phase = "lost" /\ call'[c].names = {}
                                     /\ call[c].phase # "lost"
             /\ c \notin UnderWay'
  <2>1. UNCHANGED chain
    BY DEF Kill
  <2>2. CASE c \in UnderWay
    <3>1. call'[c].phase = "lost" /\ call'[c].names = {}
      BY <2>2 DEF Kill, At
    <3>2. call[c].phase # "lost"
      BY <2>2 DEF UnderWay, GoesOn
    <3> QED
      BY <3>1, <3>2 DEF UnderWay, GoesOn
  <2>3. CASE c \notin UnderWay
    BY <2>1, <2>3 DEF Kill, UnderWay, GoesOn
  <2> QED
    BY <2>2, <2>3
<1>2. UnderWay' \subseteq Calls
  BY DEF UnderWay
<1> QED
  BY <1>1, <1>2 DEF Kill

\* A list is asked for.
LEMMA ListedStep ==
  ASSUME TypeOK, NEW s \in Subscribes, Listed(s)
  PROVE  /\ call[s].phase = "waiting"
         /\ \A other \in Calls \ {s} : call'[other] = call[other]
         /\ \/ /\ UNCHANGED errors /\ call'[s].phase = "answered"
               /\ call'[s].names = Entities(aes \cup Policies)
            \/ Fails /\ call'[s].phase = "refused" /\ call'[s].names = {}
<1>1. CASE Set(s, At("answered", Entities(aes \cup Policies))) /\ UNCHANGED errors
  <2>1. Entities(aes \cup Policies) \in SUBSET AEs
    BY DEF Entities
  <2> QED
    BY <1>1, <2>1, SetStep, NamesAreCalls DEF Listed
<1>2. CASE Fails /\ Set(s, At("refused", {}))
  <2>1. {} \in SUBSET AEs
    OBVIOUS
  <2> QED
    BY <1>2, <2>1, SetStep, NamesAreCalls DEF Listed
<1> QED
  BY <1>1, <1>2 DEF Listed

\* A list arrives.
LEMMA ListCallbackStep ==
  ASSUME TypeOK, NEW s \in Subscribes, ListCallback(s)
  PROVE  /\ call[s].phase = "answered" /\ AE_NAMES' = call[s].names
         /\ call'[s].names = call[s].names
         /\ \A other \in Calls \ {s} : call'[other] = call[other]
         /\ \A r \in Subscribes \ {s} : chain'[r] = chain[r]
         /\ \A ae \in AEs : chain'[s][ae] # "none" => ae \in call[s].names
         /\ \/ /\ UNCHANGED errors /\ call'[s].phase = "subscribing"
               /\ \A ae \in call[s].names : chain'[s][ae] = "createAE"
            \/ Fails /\ call'[s].phase = "refused"
<1>1. call[s].names \in SUBSET AEs
  BY NamesAreCalls DEF TypeOK
<1>2. call[s].phase = "answered" /\ AE_NAMES' = call[s].names
  BY DEF ListCallback
<1>3. PICK begun \in SUBSET call[s].names :
        /\ chain' = [chain EXCEPT ![s] =
                       [ae \in AEs |-> IF ae \in begun THEN "createAE" ELSE "none"]]
        /\ \/ /\ begun = call[s].names
              /\ Set(s, At("subscribing", call[s].names)) /\ UNCHANGED errors
           \/ Set(s, At("refused", call[s].names)) /\ Fails
  BY DEF ListCallback
<1>4. /\ \A r \in Subscribes \ {s} : chain'[r] = chain[r]
      /\ \A ae \in AEs : chain'[s][ae] = IF ae \in begun THEN "createAE" ELSE "none"
  BY <1>3 DEF TypeOK
<1>5. \A phase \in {"subscribing", "refused"} : Set(s, At(phase, call[s].names)) =>
        /\ call'[s].phase = phase /\ call'[s].names = call[s].names
        /\ \A other \in Calls \ {s} : call'[other] = call[other]
  BY <1>1, SetStep, NamesAreCalls
<1>6. \A ae \in AEs : chain'[s][ae] # "none" => ae \in call[s].names
  BY <1>4
<1>7. CASE /\ begun = call[s].names
           /\ Set(s, At("subscribing", call[s].names)) /\ UNCHANGED errors
  BY <1>1, <1>2, <1>4, <1>5, <1>6, <1>7
<1>8. CASE Set(s, At("refused", call[s].names)) /\ Fails
  BY <1>2, <1>4, <1>5, <1>6, <1>8
<1> QED
  BY <1>3, <1>7, <1>8

\* A browser is told "success".
LEMMA AnswerStep ==
  ASSUME TypeOK, NEW s \in Subscribes, AnswerSubscribe(s)
  PROVE  /\ call[s].phase = "subscribing" /\ call'[s].phase = "success"
         /\ call'[s].names = call[s].names
         /\ \A other \in Calls \ {s} : call'[other] = call[other]
<1>1. call[s].names \in SUBSET AEs
  BY NamesAreCalls DEF TypeOK
<1> QED
  BY <1>1, SetStep, NamesAreCalls DEF AnswerSubscribe

\* A delete is performed, refused or fails.
LEMMA DeletedStep ==
  ASSUME TypeOK, NEW d \in Deletes, Deleted(d)
  PROVE  /\ call[d].phase = "waiting"
         /\ \A other \in Calls \ {d} : call'[other] = call[other]
         /\ \/ /\ ResourceOf[d] \in aes /\ Remove(ResourceOf[d])
               /\ call'[d].phase = "answered" /\ UNCHANGED errors
            \/ UNCHANGED cse /\ call'[d].phase = "refused" /\ UNCHANGED errors
            \/ /\ Fails /\ call'[d].phase = "refused"
               /\ Remove(ResourceOf[d]) \/ UNCHANGED cse
<1>1. \A phase \in {"answered", "refused"} : Set(d, At(phase, {})) =>
        /\ call'[d].phase = phase
        /\ \A other \in Calls \ {d} : call'[other] = call[other]
  BY SetStep, NamesAreCalls
<1> QED
  BY <1>1 DEF Deleted

\* A delete is reported.
LEMMA DeleteCallbackStep ==
  ASSUME TypeOK, NEW d \in Deletes, DeleteCallback(d)
  PROVE  /\ call[d].phase = "answered" /\ call'[d].phase = "deleted"
         /\ \A other \in Calls \ {d} : call'[other] = call[other]
         /\ AE_NAMES' = AE_NAMES \ {ResourceOf[d]}
BY SetStep, NamesAreCalls DEF DeleteCallback, Without

\* Only a browser puts a call under way.
LEMMA UnderWayStep ==
  ASSUME TypeOK, Next
  PROVE  \/ UnderWay' \subseteq UnderWay /\ UNCHANGED overlap
         \/ \E c \in Calls : /\ UnderWay' \subseteq UnderWay \cup {c}
                             /\ overlap' = (overlap \/ UnderWay # {})
<1> USE NamesAreCalls
<1>0. \A c \in Calls : (call'[c] = call[c] /\ (c \in Subscribes => chain'[c] = chain[c]))
                        => (c \in UnderWay' => c \in UnderWay)
  BY DEF UnderWay, GoesOn
<1>a. UnderWay' \subseteq Calls
  BY DEF UnderWay
<1>1. ASSUME NEW c \in Calls, Call(c)
      PROVE  /\ UnderWay' \subseteq UnderWay \cup {c}
             /\ overlap' = (overlap \/ UnderWay # {})
  <2>1. \A e \in Calls \ {c} : call'[e] = call[e]
    BY <1>1, SetStep DEF Call
  <2> QED
    BY <1>0, <1>a, <1>1, <2>1 DEF Call
<1>2. ASSUME NEW ae \in AEs, MeterRegisters(ae) \/ MeterCreatesContainer(ae)
      PROVE  UnderWay' \subseteq UnderWay /\ UNCHANGED overlap
  BY <1>0, <1>a, <1>2 DEF MeterRegisters, MeterCreatesContainer
<1>3. ASSUME NEW s \in Subscribes, Subscribing(s)
      PROVE  UnderWay' \subseteq UnderWay /\ UNCHANGED overlap
  <2>1. CASE Listed(s) \/ ListCallback(s) \/ AnswerSubscribe(s)
    <3>1. s \in UnderWay
      BY <2>1 DEF Listed, ListCallback, AnswerSubscribe, UnderWay
    <3>2. \A c \in Calls \ {s} : call'[c] = call[c]
      BY <2>1, ListedStep, ListCallbackStep, AnswerStep
    <3>3. \A r \in Subscribes \ {s} : chain'[r] = chain[r]
      BY <2>1, ListCallbackStep DEF Listed, AnswerSubscribe
    <3>4. UNCHANGED overlap
      BY <2>1 DEF Listed, ListCallback, AnswerSubscribe
    <3> QED
      BY <1>0, <1>a, <3>1, <3>2, <3>3, <3>4
  <2>2. ASSUME NEW ae \in AEs, Request(s, ae)
        PROVE  UnderWay' \subseteq UnderWay /\ UNCHANGED overlap
    <3>1. s \in UnderWay
      BY <2>2 DEF Request, UnderWay, GoesOn
    <3>2. UNCHANGED <<call, overlap>> /\ \A r \in Subscribes \ {s} : chain'[r] = chain[r]
      BY <2>2 DEF Request, TypeOK
    <3> QED
      BY <1>0, <1>a, <3>1, <3>2
  <2> QED
    BY <1>3, <2>1, <2>2 DEF Subscribing
<1>4. ASSUME NEW d \in Deletes, Deleting(d)
      PROVE  UnderWay' \subseteq UnderWay /\ UNCHANGED overlap
  <2>1. d \in UnderWay
    BY <1>4 DEF Deleting, Deleted, DeleteCallback, UnderWay
  <2>2. \A c \in Calls \ {d} : call'[c] = call[c]
    BY <1>4 DEF Deleting, Deleted, DeleteCallback, Set, TypeOK
  <2>3. UNCHANGED <<overlap, chain>>
    BY <1>4 DEF Deleting, Deleted, DeleteCallback
  <2> QED
    BY <1>0, <1>a, <2>1, <2>2, <2>3
<1>5. CASE Kill
  BY <1>5, KillStep DEF Kill
<1> QED
  BY <1>1, <1>2, <1>3, <1>4, <1>5 DEF Next

LEMMA AloneStep ==
  ASSUME TypeOK, Alone, [Next]_vars
  PROVE  Alone'
<1>1. CASE UNCHANGED vars
  BY <1>1 DEF vars, Alone, UnderWay, GoesOn
<1>2. CASE Next
  <2>1. CASE UnderWay' \subseteq UnderWay /\ UNCHANGED overlap
    BY <2>1 DEF Alone
  <2>2. ASSUME NEW c \in Calls, UnderWay' \subseteq UnderWay \cup {c},
               overlap' = (overlap \/ UnderWay # {})
        PROVE  Alone'
    BY <2>2 DEF Alone
  <2> QED
    BY <1>2, <2>1, <2>2, UnderWayStep
<1> QED
  BY <1>1, <1>2

-----------------------------------------------------------------------------
(***************************************************************************)
(* The server and the lists.                                               *)
(***************************************************************************)

LEMMA ServerStep ==
  ASSUME ConstantsAssumption, TypeOK, ServerInv, [Next]_vars
  PROVE  ServerInv'
<1> USE NamesAreCalls
<1> DEFINE Lists == \A s \in Subscribes : call[s].names \subseteq registered
           Chains == \A s \in Subscribes : \A ae \in AEs : chain[s][ae] # "none" =>
             /\ call[s].phase \notin {"new", "waiting", "answered"}
             /\ ae \in call[s].names \/ call[s].phase = "lost"
             /\ call[s].phase = "refused" => errors # 0
<1>0. ServerType /\ ServerOrder
  BY TypeOfServer DEF ServerInv, ServerOrder
<1>a. ServerInv <=> ServerOrder /\ aes \subseteq registered /\ Lists /\ Chains
  BY DEF ServerInv, ServerOrder
<1>b. ServerInv' <=> ServerOrder' /\ aes' \subseteq registered' /\ Lists' /\ Chains'
  BY DEF ServerInv, ServerOrder
<1> HIDE DEF Lists, Chains
<1>1. CASE UNCHANGED vars
  BY <1>1 DEF vars, cse, ServerInv
<1>2. ASSUME NEW ae \in AEs, MeterRegisters(ae)
      PROVE  ServerInv'
  <2>1. Lists' /\ Chains'
    BY <1>2, <1>a DEF MeterRegisters, Lists, Chains
  <2>2. ServerOrder' /\ aes' \subseteq registered'
    BY <1>2, <1>0, <1>a DEF MeterRegisters, CreateAe, ServerOrder
  <2> QED
    BY <2>1, <2>2, <1>b
<1>3. ASSUME NEW ae \in AEs, MeterCreatesContainer(ae)
      PROVE  ServerInv'
  BY <1>3 DEF MeterCreatesContainer, CreateContainer, ServerInv
<1>4. ASSUME NEW c \in Calls, Call(c)
      PROVE  ServerInv'
  <2>1. /\ call'[c].phase = "waiting" /\ call'[c].names = {} /\ call[c].phase = "new"
        /\ \A other \in Calls \ {c} : call'[other] = call[other]
    BY <1>4, SetStep DEF Call
  <2>2. Lists' /\ Chains'
    BY <1>4, <2>1, <1>a DEF Call, Lists, Chains
  <2> QED
    BY <1>4, <2>2, <1>0, <1>a, <1>b DEF Call, cse, ServerOrder
<1>5. ASSUME NEW s \in Subscribes, Listed(s)
      PROVE  ServerInv'
  <2>1. Entities(aes \cup Policies) \subseteq aes /\ Entities(aes \cup Policies) \in SUBSET AEs
    BY DEF Entities, ConstantsAssumption
  <2>2. call[s].phase = "waiting" /\ call'[s].names \subseteq aes
    BY <1>5, <2>1, ListedStep
  <2>3. \A other \in Calls \ {s} : call'[other] = call[other]
    BY <1>5 DEF Listed, Set, TypeOK
  <2>4. \A ae \in AEs : chain[s][ae] = "none"
    BY <1>a, <2>2 DEF Chains
  <2>5. errors # 0 => errors' # 0
    BY <1>5 DEF Listed, Fails, TypeOK, ConstantsAssumption
  <2>6. Lists' /\ Chains'
    BY <1>5, <2>2, <2>3, <2>4, <2>5, <1>a DEF Listed, Lists, Chains
  <2> QED
    BY <1>5, <2>6, <1>0, <1>a, <1>b DEF Listed, cse, ServerOrder
<1>6. ASSUME NEW s \in Subscribes, ListCallback(s)
      PROVE  ServerInv'
  <2>1. /\ call'[s].names = call[s].names
        /\ \A other \in Calls \ {s} : call'[other] = call[other]
        /\ \A r \in Subscribes \ {s} : chain'[r] = chain[r]
        /\ \A ae \in AEs : chain'[s][ae] # "none" => ae \in call[s].names
    BY <1>6, ListCallbackStep
  <2>2. /\ call'[s].phase \in {"subscribing", "refused"}
        /\ call'[s].phase = "refused" => errors' # 0
    BY <1>6, ListCallbackStep, FailsStep
  <2>3. errors # 0 => errors' # 0
    BY <1>6 DEF ListCallback, Fails, TypeOK, ConstantsAssumption
  <2>4. Lists' /\ Chains'
    BY <1>6, <2>1, <2>2, <2>3, <1>a DEF ListCallback, Lists, Chains
  <2> QED
    BY <1>6, <2>4, <1>0, <1>a, <1>b DEF ListCallback, cse, ServerOrder
<1>7. ASSUME NEW s \in Subscribes, NEW ae \in AEs, Request(s, ae)
      PROVE  ServerInv'
  <2>1. ae \in registered
    BY <1>7, <1>a DEF Request, Chains, Lists, Steps
  <2>3. Perform(chain[s][ae], ae, ListenerOf[s]) =>
          ServerOrder' /\ aes' \subseteq registered
    BY <2>1, <1>0, <1>a, PerformStep
  <2>4. UNCHANGED cse => ServerOrder' /\ aes' \subseteq registered
    BY <1>0, <1>a DEF cse, ServerOrder
  <2>5. ServerOrder' /\ aes' \subseteq registered'
    BY <1>7, <2>3, <2>4 DEF Request
  <2>6. Chains'
    <3>1. errors # 0 => errors' # 0
      BY <1>7 DEF Request, Fails, TypeOK, ConstantsAssumption
    <3>2. /\ chain[s][ae] # "none" /\ UNCHANGED call
          /\ \A r \in Subscribes, other \in AEs :
               (r # s \/ other # ae) => chain'[r][other] = chain[r][other]
      BY <1>7, RequestStep DEF Request, Steps
    <3> QED
      BY <3>1, <3>2, <1>a DEF Chains
  <2>7. Lists'
    BY <1>7, <1>a DEF Request, Lists
  <2> QED
    BY <2>5, <2>6, <2>7, <1>b
<1>8. ASSUME NEW s \in Subscribes, AnswerSubscribe(s)
      PROVE  ServerInv'
  <2>1. call[s].names \in SUBSET AEs
    BY DEF TypeOK
  <2>2. /\ call'[s].phase = "success" /\ call'[s].names = call[s].names
        /\ call[s].phase = "subscribing"
        /\ \A other \in Calls \ {s} : call'[other] = call[other]
    BY <1>8, AnswerStep
  <2>3. Lists' /\ Chains'
    BY <1>8, <2>2, <1>a DEF AnswerSubscribe, Lists, Chains
  <2> QED
    BY <1>8, <2>3, <1>0, <1>a, <1>b DEF AnswerSubscribe, cse, ServerOrder
<1>9. ASSUME NEW d \in Deletes, Deleting(d)
      PROVE  ServerInv'
  <2>1. \A other \in Calls \ {d} : call'[other] = call[other]
    BY <1>9 DEF Deleting, Deleted, DeleteCallback, Set, TypeOK
  <2>2. d \notin Subscribes
    BY DEF ConstantsAssumption
  <2>3. UNCHANGED <<registered, chain>>
    BY <1>9 DEF Deleting, Deleted, DeleteCallback
  <2>a. errors # 0 => errors' # 0
    BY <1>9 DEF Deleting, Deleted, DeleteCallback, Fails, TypeOK, ConstantsAssumption
  <2>4. Lists' /\ Chains'
    BY <2>1, <2>2, <2>3, <2>a, <1>a DEF Lists, Chains
  <2>5. Remove(ResourceOf[d]) \/ UNCHANGED cse
    BY <1>9 DEF Deleting, Deleted, DeleteCallback
  <2>6. ServerOrder' /\ aes' \subseteq aes
    BY <2>5, <1>0, RemoveStep DEF cse, ServerOrder, ConstantsAssumption
  <2> QED
    BY <2>3, <2>4, <2>6, <1>a, <1>b
<1>10. CASE Kill
  <2>1. Lists' /\ Chains'
    <3>1. UNCHANGED <<chain, registered, errors>>
      BY <1>10 DEF Kill
    <3>2. \A s \in Subscribes :
            \/ call'[s] = call[s]
            \/ call'[s].phase = "lost" /\ call'[s].names = {}
      BY <1>10, KillStep
    <3> QED
      BY <3>1, <3>2, <1>a DEF Lists, Chains
  <2>2. ServerOrder' /\ aes' \subseteq registered
    <3>1. CASE UNCHANGED cse
      BY <3>1, <1>0, <1>a DEF cse, ServerOrder
    <3>2. ASSUME NEW d \in Deletes, Remove(ResourceOf[d])
          PROVE  ServerOrder' /\ aes' \subseteq registered
      BY <3>2, <1>0, <1>a, RemoveStep DEF ConstantsAssumption
    <3>3. ASSUME NEW s \in Subscribes, NEW ae \in AEs,
                 call[s].phase \in {"subscribing", "refused"},
                 Perform(chain[s][ae], ae, ListenerOf[s])
          PROVE  ServerOrder' /\ aes' \subseteq registered
      <4>1. chain[s][ae] # "none"
        BY <3>3 DEF Perform
      <4>2. ae \in registered
        BY <3>3, <4>1, <1>a DEF Chains, Lists
      <4>3. aes' \subseteq aes \cup {ae} /\ (ServerOrder => ServerOrder')
        BY <3>3, <1>0, PerformEntities
      <4> QED
        BY <4>2, <4>3, <1>0, <1>a
    <3> QED
      BY <1>10, <3>1, <3>2, <3>3 DEF Kill
  <2>3. UNCHANGED registered
    BY <1>10 DEF Kill
  <2> QED
    BY <2>1, <2>2, <2>3, <1>b
<1> QED
  BY <1>1, <1>2, <1>3, <1>4, <1>5, <1>6, <1>7, <1>8, <1>9, <1>10 DEF Next, Subscribing

-----------------------------------------------------------------------------
(***************************************************************************)
(* What the page lists is subscribed to.                                   *)
(***************************************************************************)

\* A step that leaves the page, the calls and the chains alone, and of the
\* server only adds to it.
LEMMA ListedKept ==
  ASSUME ListedInv, UNCHANGED <<AE_NAMES, chain, errors, sub>>,
         aes \subseteq aes', containers \subseteq containers',
         \A c \in Calls : call'[c].phase \in {"answered", "subscribing"} \/
                          call[c].phase \in {"answered", "subscribing"} => call'[c] = call[c]
  PROVE  ListedInv'
BY NamesAreCalls DEF ListedInv, Removed, OnItsWay

LEMMA ListedStays ==
  ASSUME ConstantsAssumption, TypeOK, ServerInv, ListedInv, [Next]_vars
  PROVE  ListedInv'
<1> USE NamesAreCalls
<1>0. ServerType /\ ServerOrder
  BY TypeOfServer DEF ServerInv, ServerOrder
<1>1. CASE UNCHANGED vars
  BY <1>1, ListedKept DEF vars, cse
<1>2. ASSUME NEW ae \in AEs, MeterRegisters(ae) \/ MeterCreatesContainer(ae)
      PROVE  ListedInv'
  BY <1>2, ListedKept DEF MeterRegisters, MeterCreatesContainer, CreateAe, CreateContainer
<1>3. ASSUME NEW c \in Calls, Call(c)
      PROVE  ListedInv'
  <2>1. /\ call'[c].phase = "waiting" /\ call[c].phase = "new"
        /\ \A other \in Calls \ {c} : call'[other] = call[other]
    BY <1>3, SetStep DEF Call
  <2> QED
    BY <1>3, <2>1, ListedKept DEF Call, cse
<1>4. ASSUME NEW s \in Subscribes, Listed(s)
      PROVE  ListedInv'
  <2>1. CASE errors' # 0
    BY <2>1 DEF ListedInv
  <2>2. CASE errors' = 0
    <3>1. UNCHANGED <<errors, AE_NAMES, chain, cse>>
      BY <1>4, <2>2, ErrorsStay DEF Listed
    <3>2. /\ call[s].phase = "waiting" /\ s \notin Deletes
          /\ \A other \in Calls \ {s} : call'[other] = call[other]
      BY <1>4, ListedStep DEF ConstantsAssumption
    <3> QED
      BY <3>1, <3>2 DEF cse, ListedInv, Removed, OnItsWay
  <2> QED
    BY <2>1, <2>2
<1>5. ASSUME NEW s \in Subscribes, ListCallback(s)
      PROVE  ListedInv'
  <2>1. CASE errors' # 0
    BY <2>1 DEF ListedInv
  <2>2. CASE errors' = 0
    <3>1. ~ Fails
      BY <2>2, FailsStep
    <3>2. call[s].names \in SUBSET AEs
      BY DEF TypeOK
    <3>3. /\ call'[s].phase = "subscribing"
          /\ \A ae \in AE_NAMES' : chain'[s][ae] = "createAE"
      BY <1>5, <3>1, <3>2, ListCallbackStep
    <3> QED
      BY <3>3 DEF ListedInv, OnItsWay
  <2> QED
    BY <2>1, <2>2
<1>6. ASSUME NEW s \in Subscribes, NEW ae \in AEs, Request(s, ae)
      PROVE  ListedInv'
  <2>1. CASE errors' # 0
    BY <2>1 DEF ListedInv
  <2>2. CASE errors' = 0
    <3>1. UNCHANGED errors /\ ~ Fails
      BY <1>6, <2>2, ErrorsStay, FailsStep DEF Request
    <3>2. /\ chain[s][ae] \in Steps /\ call[s].phase = "subscribing"
          /\ UNCHANGED <<AE_NAMES, call>>
      BY <1>6, <2>2, <3>1 DEF Request, ServerInv, Steps
    <3>3. /\ Perform(chain[s][ae], ae, ListenerOf[s])
          /\ chain'[s][ae] = After[chain[s][ae]]
          /\ \A r \in Subscribes, other \in AEs :
               (r # s \/ other # ae) => chain'[r][other] = chain[r][other]
      BY <1>6, <3>1, RequestStep
    <3>4. SUFFICES ASSUME NEW a \in AE_NAMES
                   PROVE  \/ sub'[a] # NoOne \/ Removed(a)'
                          \/ \E r \in Subscribes : call'[r].phase = "subscribing"
                                                   /\ OnItsWay(r, a)'
      BY <3>2 DEF ListedInv
    <3>5. a \in AEs
      BY DEF TypeOK
    <3>6. \/ sub[a] # NoOne \/ Removed(a)
          \/ \E r \in Subscribes : call[r].phase = "subscribing" /\ OnItsWay(r, a)
      BY <2>2, <3>1 DEF ListedInv
    <3>a. aes \subseteq aes' /\ containers \subseteq containers'
      BY <3>3, <1>0, PerformStep
    <3>b. \A r \in Subscribes : (r # s \/ a # ae) /\ OnItsWay(r, a) => OnItsWay(r, a)'
      BY <3>3, <3>5, <3>a DEF OnItsWay
    <3>7. CASE Removed(a)
      BY <3>2, <3>7 DEF Removed
    <3>8. CASE a # ae
      <4>1. \A r \in Subscribes : OnItsWay(r, a) => OnItsWay(r, a)'
        BY <3>8, <3>b
      <4>2. sub'[a] = sub[a]
        <5>1. \A other \in AEs \ {ae} : sub'[other] = sub[other]
          BY <3>3, <1>0, PerformSub
        <5> QED
          BY <3>5, <3>8, <5>1
      <4> QED
        BY <3>2, <3>6, <3>7, <4>1, <4>2
    <3>9. CASE a = ae /\ ~ Removed(a)
      <4>1. CASE chain[s][ae] = "createAE"
        <5>1. chain'[s][ae] = "createDataContainer"
          BY <3>3, <4>1, AfterType
        <5>2. ae \in aes'
          BY <3>3, <4>1, <1>0, PerformStep
        <5>3. OnItsWay(s, a)'
          BY <3>9, <5>1, <5>2 DEF OnItsWay
        <5> QED
          BY <3>2, <5>3
      <4>2. CASE chain[s][ae] = "createDataContainer"
        <5>1. ASSUME NEW r \in Subscribes, r # s, OnItsWay(r, a)
              PROVE  OnItsWay(r, a)'
          BY <5>1, <3>b
        <5>2. OnItsWay(s, a) => OnItsWay(s, a)'
          <6>1. chain'[s][ae] = "deleteSubscription"
            BY <3>3, <4>2, AfterType
          <6>2. ae \in aes => ae \in containers'
            BY <3>3, <4>2, <1>0, PerformStep
          <6> QED
            BY <3>9, <4>2, <6>1, <6>2 DEF OnItsWay
        <5>3. sub' = sub
          BY <3>3, <4>2, <1>0, PerformStep
        <5> QED
          BY <3>2, <3>6, <3>9, <5>1, <5>2, <5>3
      <4>3. CASE chain[s][ae] = "deleteSubscription"
        <5>1. sub[a] # NoOne => ae \in containers
          BY <3>9, <1>0 DEF ServerOrder
        <5>2. ae \in containers => OnItsWay(s, a)'
          <6>1. chain'[s][ae] = "sendSubscription"
            BY <3>3, <4>3, AfterType
          <6> QED
            BY <3>a, <3>9, <6>1 DEF OnItsWay
        <5>3. OnItsWay(s, a) => ae \in containers
          BY <3>9, <4>3 DEF OnItsWay
        <5>4. ASSUME NEW r \in Subscribes, r # s, OnItsWay(r, a)
              PROVE  OnItsWay(r, a)'
          BY <5>4, <3>b
        <5> QED
          BY <3>2, <3>6, <3>9, <5>1, <5>2, <5>3, <5>4
      <4>4. CASE chain[s][ae] = "sendSubscription"
        <5>1. ASSUME NEW r \in Subscribes, r # s, OnItsWay(r, a)
              PROVE  OnItsWay(r, a)'
          BY <5>1, <3>b
        <5>2. ListenerOf[s] # NoOne
          BY DEF ConstantsAssumption, Listeners
        <5>3. OnItsWay(s, a) => sub'[a] # NoOne
          BY <3>3, <3>9, <4>4, <5>2, <1>0, PerformStep DEF OnItsWay
        <5>4. sub[a] # NoOne => sub'[a] # NoOne
          BY <3>3, <3>9, <4>4, <5>2, <1>0, PerformStep
        <5> QED
          BY <3>2, <3>6, <3>9, <5>1, <5>3, <5>4
      <4> QED
        BY <3>2, <4>1, <4>2, <4>3, <4>4 DEF Steps
    <3> QED
      BY <3>7, <3>8, <3>9
  <2> QED
    BY <2>1, <2>2
<1>7. ASSUME NEW s \in Subscribes, AnswerSubscribe(s)
      PROVE  ListedInv'
  <2>1. \A a \in AE_NAMES : ~ OnItsWay(s, a)
    BY <1>7 DEF AnswerSubscribe, Fulfilled, OnItsWay, TypeOK
  <2>2. \A other \in Calls \ {s} : call'[other] = call[other]
    BY <1>7, AnswerStep
  <2>3. UNCHANGED <<AE_NAMES, chain, errors, cse>> /\ s \notin Deletes
    BY <1>7 DEF AnswerSubscribe, ConstantsAssumption
  <2> QED
    BY <2>1, <2>2, <2>3 DEF ListedInv, Removed, OnItsWay, cse
<1>8. ASSUME NEW d \in Deletes, Deleted(d)
      PROVE  ListedInv'
  <2>1. CASE errors' # 0
    BY <2>1 DEF ListedInv
  <2>2. CASE errors' = 0
    <3>1. UNCHANGED errors /\ ~ Fails
      BY <1>8, <2>2, ErrorsStay, FailsStep DEF Deleted
    <3>2. /\ UNCHANGED <<AE_NAMES, chain>> /\ d \notin Subscribes
          /\ call[d].phase = "waiting"
          /\ \A other \in Calls \ {d} : call'[other] = call[other]
      BY <1>8, DeletedStep DEF Deleted, ConstantsAssumption
    <3>3. CASE UNCHANGED cse
      BY <3>1, <3>2, <3>3 DEF ListedInv, Removed, OnItsWay, cse
    <3>4. CASE Remove(ResourceOf[d]) /\ call'[d].phase = "answered"
      <4>1. ResourceOf[d] \in AEs
        BY DEF ConstantsAssumption
      <4>2. Removed(ResourceOf[d])'
        BY <3>4 DEF Removed
      <4>3. ASSUME NEW a \in AE_NAMES, a # ResourceOf[d]
            PROVE  /\ sub'[a] = sub[a] /\ (Removed(a) => Removed(a)')
                   /\ \A r \in Subscribes : OnItsWay(r, a) => OnItsWay(r, a)'
        <5>1. a \in AEs
          BY DEF TypeOK
        <5> QED
          BY <3>2, <3>4, <4>1, <4>3, <5>1, <1>0, RemoveStep DEF Removed, OnItsWay
      <4> QED
        BY <3>1, <3>2, <4>2, <4>3 DEF ListedInv
    <3> QED
      BY <1>8, <3>1, <3>3, <3>4, DeletedStep
  <2> QED
    BY <2>1, <2>2
<1>9. ASSUME NEW d \in Deletes, DeleteCallback(d)
      PROVE  ListedInv'
  <2>1. /\ \A other \in Calls \ {d} : call'[other] = call[other]
        /\ AE_NAMES' = AE_NAMES \ {ResourceOf[d]}
    BY <1>9, DeleteCallbackStep
  <2>2. UNCHANGED <<chain, errors, cse>> /\ d \notin Subscribes
    BY <1>9 DEF DeleteCallback, ConstantsAssumption
  <2> QED
    BY <2>1, <2>2 DEF ListedInv, Removed, OnItsWay, cse
<1>10. CASE Kill
  BY <1>10, KillStep DEF ListedInv
<1> QED
  BY <1>1, <1>2, <1>3, <1>4, <1>5, <1>6, <1>7, <1>8, <1>9, <1>10
  DEF Next, Subscribing, Deleting

-----------------------------------------------------------------------------
(***************************************************************************)
(* Calls one at a time.                                                    *)
(***************************************************************************)

\* Without overlap, whatever is under way is the call that takes the step.
LEMMA OnlyOne ==
  ASSUME Alone, ~ overlap, NEW c \in Calls, NEW e \in Calls, c # e,
         call[c].phase \in {"waiting", "answered", "subscribing"}
  PROVE  e \notin UnderWay /\ call[e].phase \notin {"waiting", "answered", "subscribing"}
BY DEF Alone, UnderWay

\* The names of a subscribe that is under way are those it was, or those of
\* application entities that are there.
LEMMA NamesStep ==
  ASSUME ConstantsAssumption, TypeOK, Next, NEW s \in Subscribes, s \in UnderWay'
  PROVE  call'[s].names \subseteq aes \/ (s \in UnderWay /\ call'[s].names = call[s].names)
<1> USE NamesAreCalls
<1>0. (call'[s] = call[s] /\ chain'[s] = chain[s]) => s \in UnderWay
  BY DEF UnderWay, GoesOn
<1>1. ASSUME NEW c \in Calls, Call(c)
      PROVE  call'[s].names \subseteq aes \/ (s \in UnderWay /\ call'[s].names = call[s].names)
  <2>1. call'[c].names = {} /\ \A e \in Calls \ {c} : call'[e] = call[e]
    BY <1>1, SetStep DEF Call
  <2> QED
    BY <1>0, <1>1, <2>1 DEF Call
<1>2. ASSUME NEW r \in Subscribes, Listed(r)
      PROVE  call'[s].names \subseteq aes \/ (s \in UnderWay /\ call'[s].names = call[s].names)
  <2>1. call'[r].names \subseteq aes /\ \A e \in Calls \ {r} : call'[e] = call[e]
    BY <1>2, ListedStep DEF Entities, ConstantsAssumption
  <2> QED
    BY <1>0, <1>2, <2>1 DEF Listed
<1>3. ASSUME NEW r \in Subscribes, ListCallback(r) \/ AnswerSubscribe(r)
      PROVE  call'[s].names \subseteq aes \/ (s \in UnderWay /\ call'[s].names = call[s].names)
  <2>1. r \in UnderWay
    BY <1>3 DEF ListCallback, AnswerSubscribe, UnderWay
  <2>2. call'[r].names = call[r].names /\ \A e \in Calls \ {r} : call'[e] = call[e]
    BY <1>3, ListCallbackStep, AnswerStep
  <2>3. \A e \in Subscribes \ {r} : chain'[e] = chain[e]
    BY <1>3, ListCallbackStep DEF AnswerSubscribe
  <2> QED
    BY <1>0, <2>1, <2>2, <2>3
<1>4. ASSUME NEW r \in Subscribes, NEW ae \in AEs, Request(r, ae)
      PROVE  call'[s].names \subseteq aes \/ (s \in UnderWay /\ call'[s].names = call[s].names)
  <2>1. r \in UnderWay
    BY <1>4 DEF Request, UnderWay, GoesOn
  <2>2. UNCHANGED call /\ \A e \in Subscribes \ {r} : chain'[e] = chain[e]
    BY <1>4 DEF Request, TypeOK
  <2> QED
    BY <1>0, <2>1, <2>2
<1>5. ASSUME NEW d \in Deletes, Deleting(d)
      PROVE  call'[s].names \subseteq aes \/ (s \in UnderWay /\ call'[s].names = call[s].names)
  <2>1. \A e \in Calls \ {d} : call'[e] = call[e]
    BY <1>5 DEF Deleting, Deleted, DeleteCallback, Set, TypeOK
  <2>2. d # s /\ UNCHANGED chain
    BY <1>5 DEF Deleting, Deleted, DeleteCallback, ConstantsAssumption
  <2> QED
    BY <1>0, <2>1, <2>2
<1>6. ASSUME NEW ae \in AEs, MeterRegisters(ae) \/ MeterCreatesContainer(ae)
      PROVE  call'[s].names \subseteq aes \/ (s \in UnderWay /\ call'[s].names = call[s].names)
  BY <1>0, <1>6 DEF MeterRegisters, MeterCreatesContainer
<1>7. CASE Kill
  BY <1>7, KillStep
<1> QED
  BY <1>1, <1>2, <1>3, <1>4, <1>5, <1>6, <1>7 DEF Next, Subscribing

\* What is not at the server and in no list under way stays away, once it has
\* registered.
LEMMA EntitiesStep ==
  ASSUME ConstantsAssumption, TypeOK, ServerInv, Next,
         NEW gone \in AEs, gone \in registered, gone \notin aes,
         \A s \in UnderWay \cap Subscribes : gone \notin call[s].names
  PROVE  gone \notin aes'
<1> USE NamesAreCalls
<1>0. ServerType
  BY TypeOfServer
<1>1. ASSUME NEW s \in Subscribes, NEW ae \in AEs, chain[s][ae] \in Steps,
             call[s].phase \in {"subscribing", "refused"},
             Perform(chain[s][ae], ae, ListenerOf[s])
      PROVE  gone \notin aes'
  <2>1. s \in UnderWay
    BY <1>1 DEF UnderWay, GoesOn
  <2>2. ae \in call[s].names
    BY <1>1 DEF ServerInv, Steps
  <2>3. aes' \subseteq aes \cup {ae}
    BY <1>0, <1>1, PerformEntities
  <2> QED
    BY <2>1, <2>2, <2>3
<1>2. ASSUME NEW d \in Deletes, Remove(ResourceOf[d])
      PROVE  gone \notin aes'
  BY <1>2 DEF Remove
<1>3. ASSUME NEW ae \in AEs, MeterRegisters(ae) \/ MeterCreatesContainer(ae)
      PROVE  gone \notin aes'
  BY <1>3 DEF MeterRegisters, MeterCreatesContainer, CreateAe, CreateContainer
<1>4. ASSUME NEW c \in Calls, Call(c)
      PROVE  gone \notin aes'
  BY <1>4 DEF Call, cse
<1>5. ASSUME NEW s \in Subscribes, Subscribing(s)
      PROVE  gone \notin aes'
  <2>1. CASE Listed(s) \/ ListCallback(s) \/ AnswerSubscribe(s)
    BY <2>1 DEF Listed, ListCallback, AnswerSubscribe, cse
  <2>2. ASSUME NEW ae \in AEs, Request(s, ae)
        PROVE  gone \notin aes'
    BY <1>1, <2>2 DEF Request, cse
  <2> QED
    BY <1>5, <2>1, <2>2 DEF Subscribing
<1>6. ASSUME NEW d \in Deletes, Deleting(d)
      PROVE  gone \notin aes'
  BY <1>2, <1>6 DEF Deleting, Deleted, DeleteCallback, cse
<1>7. CASE Kill
  <2>1. ASSUME NEW s \in Subscribes, NEW ae \in AEs,
               call[s].phase \in {"subscribing", "refused"},
               Perform(chain[s][ae], ae, ListenerOf[s])
        PROVE  gone \notin aes'
    <3>1. chain[s][ae] \in Steps
      BY <2>1 DEF Perform, Steps
    <3> QED
      BY <1>1, <2>1, <3>1
  <2> QED
    BY <1>2, <1>7, <2>1 DEF Kill, cse
<1> QED
  BY <1>3, <1>4, <1>5, <1>6, <1>7 DEF Next

\* Only its own request to the server answers a delete.
LEMMA OnlyDeletedAnswers ==
  ASSUME ConstantsAssumption, TypeOK, Next, NEW d \in Deletes,
         call[d].phase \notin {"answered", "deleted"}, call'[d].phase \in {"answered", "deleted"}
  PROVE  Deleted(d)
<1> USE NamesAreCalls
<1>1. ASSUME NEW c \in Calls, Call(c)
      PROVE  Deleted(d)
  BY <1>1, SetStep DEF Call
<1>2. ASSUME NEW s \in Subscribes, Subscribing(s)
      PROVE  call'[d] = call[d]
  <2>1. s # d
    BY DEF ConstantsAssumption
  <2>2. CASE Listed(s) \/ ListCallback(s) \/ AnswerSubscribe(s)
    BY <2>1, <2>2, ListedStep, ListCallbackStep, AnswerStep
  <2> QED
    BY <1>2, <2>2 DEF Subscribing, Request
<1>3. ASSUME NEW e \in Deletes, Deleting(e)
      PROVE  Deleted(d)
  BY <1>3, DeletedStep, DeleteCallbackStep DEF Deleting
<1>4. CASE Kill
  BY <1>4, KillStep
<1> QED
  BY <1>1, <1>2, <1>3, <1>4 DEF Next, MeterRegisters, MeterCreatesContainer

\* The page does not list again what was deleted.
LEMMA PageStep ==
  ASSUME ConstantsAssumption, TypeOK, Next, NEW d \in Deletes,
         call[d].phase \in {"answered", "deleted"},
         call[d].phase = "deleted" => ResourceOf[d] \notin AE_NAMES,
         \A s \in UnderWay \cap Subscribes : ResourceOf[d] \notin call[s].names
  PROVE  call'[d].phase = "deleted" => ResourceOf[d] \notin AE_NAMES'
<1> USE NamesAreCalls
<1>1. ASSUME NEW c \in Calls, Call(c)
      PROVE  call'[d] = call[d] /\ UNCHANGED AE_NAMES
  BY <1>1, SetStep DEF Call
<1>2. ASSUME NEW s \in Subscribes, Subscribing(s)
      PROVE  /\ call'[d] = call[d]
             /\ ResourceOf[d] \in AE_NAMES' => ResourceOf[d] \in AE_NAMES
  <2>1. s # d
    BY DEF ConstantsAssumption
  <2>2. CASE ListCallback(s)
    <3>1. s \in UnderWay
      BY <2>2 DEF ListCallback, UnderWay
    <3> QED
      BY <2>1, <2>2, <3>1, ListCallbackStep
  <2>3. CASE Listed(s) \/ AnswerSubscribe(s)
    BY <2>1, <2>3, ListedStep, AnswerStep DEF Listed, AnswerSubscribe
  <2> QED
    BY <1>2, <2>2, <2>3 DEF Subscribing, Request
<1>3. ASSUME NEW e \in Deletes, Deleted(e)
      PROVE  UNCHANGED AE_NAMES /\ call'[d].phase = call[d].phase
  BY <1>3, DeletedStep DEF Deleted
<1>4. ASSUME NEW e \in Deletes, DeleteCallback(e)
      PROVE  call'[d].phase = "deleted" => ResourceOf[d] \notin AE_NAMES'
  BY <1>4, DeleteCallbackStep
<1>5. CASE Kill
  BY <1>5, KillStep
<1> QED
  BY <1>1, <1>2, <1>3, <1>4, <1>5 DEF Next, Deleting, MeterRegisters, MeterCreatesContainer

LEMMA GoneStays ==
  ASSUME ConstantsAssumption, TypeOK, ServerInv, Alone, GoneInv, [Next]_vars
  PROVE  GoneInv'
<1> USE NamesAreCalls
<1>0. ServerType /\ ServerOrder
  BY TypeOfServer DEF ServerInv, ServerOrder
<1>1. CASE UNCHANGED vars
  BY <1>1 DEF vars, cse, GoneInv, UnderWay, GoesOn
<1>2. CASE Next
  <2> SUFFICES ASSUME ~ overlap', NEW d \in Deletes, call'[d].phase \in {"answered", "deleted"}
               PROVE  /\ ResourceOf[d] \in registered' /\ ResourceOf[d] \notin aes'
                      /\ call'[d].phase = "deleted" => ResourceOf[d] \notin AE_NAMES'
                      /\ \A s \in UnderWay' \cap Subscribes : ResourceOf[d] \notin call'[s].names
    BY DEF GoneInv
  <2>1. ~ overlap /\ ResourceOf[d] \in AEs /\ registered \subseteq registered'
    <3>1. overlap' = overlap \/ overlap' = (overlap \/ UnderWay # {})
      BY <1>2, UnderWayStep
    <3>2. ~ overlap
      BY <3>1, Zenon DEF TypeOK
    <3>3. registered \subseteq registered'
      BY <1>2
      DEF Next, MeterRegisters, MeterCreatesContainer, Call, Subscribing, Listed,
          ListCallback, Request, AnswerSubscribe, Deleting, Deleted, DeleteCallback, Kill
    <3> QED
      BY <3>2, <3>3 DEF ConstantsAssumption
  <2>2. CASE call[d].phase \in {"answered", "deleted"}
    <3>1. /\ ResourceOf[d] \in registered /\ ResourceOf[d] \notin aes
          /\ call[d].phase = "deleted" => ResourceOf[d] \notin AE_NAMES
          /\ \A s \in UnderWay \cap Subscribes : ResourceOf[d] \notin call[s].names
      BY <2>1, <2>2 DEF GoneInv
    <3>2. \A s \in UnderWay' \cap Subscribes : ResourceOf[d] \notin call'[s].names
      BY <1>2, <3>1, NamesStep
    <3>3. ResourceOf[d] \notin aes'
      BY <1>2, <2>1, <3>1, EntitiesStep
    <3>4. call'[d].phase = "deleted" => ResourceOf[d] \notin AE_NAMES'
      BY <1>2, <2>2, <3>1, PageStep
    <3> QED
      BY <2>1, <3>1, <3>2, <3>3, <3>4
  <2>3. CASE call[d].phase \notin {"answered", "deleted"}
    <3>1. Deleted(d)
      BY <1>2, <2>3, OnlyDeletedAnswers
    <3>2. /\ ResourceOf[d] \in aes /\ aes' = aes \ {ResourceOf[d]}
          /\ call'[d].phase = "answered"
      BY <2>1, <3>1, <1>0, DeletedStep, RemoveStep
    <3>3. ResourceOf[d] \in registered
      BY <3>2 DEF ServerInv
    <3>4. \A s \in Subscribes : s \notin UnderWay'
      <4>1. \A s \in Subscribes : s # d /\ s \notin UnderWay
        BY <2>1, <3>1, OnlyOne DEF Deleted, ConstantsAssumption
      <4>2. \A s \in Subscribes : call'[s] = call[s] /\ chain'[s] = chain[s]
        BY <3>1, <4>1, DeletedStep DEF Deleted
      <4> QED
        BY <4>1, <4>2 DEF UnderWay, GoesOn
    <3> QED
      BY <2>1, <3>2, <3>3, <3>4
  <2> QED
    BY <2>2, <2>3
<1> QED
  BY <1>1, <1>2

LEMMA SuccessStays ==
  ASSUME ConstantsAssumption, TypeOK, ServerInv, Alone, SuccessInv, [Next]_vars
  PROVE  SuccessInv'
<1> USE NamesAreCalls
<1> DEFINE NoChain == \A s \in Subscribes : call[s].phase # "subscribing"
           Chains == \A s \in Subscribes : call[s].phase = "subscribing" =>
             AE_NAMES = call[s].names /\ \A ae \in AE_NAMES : Subscribed(s, ae)
           Last == (latest # NoOne /\ NoChain) =>
             \A ae \in AE_NAMES : sub[ae] = ListenerOf[latest] \/ Removed(ae)
<1>0. ServerType /\ ServerOrder
  BY TypeOfServer DEF ServerInv, ServerOrder
<1>a. SuccessInv <=> ((~ overlap /\ errors = 0) => Chains /\ Last)
  BY DEF SuccessInv
<1>b. SuccessInv' <=> ((~ overlap' /\ errors' = 0) => Chains' /\ Last')
  BY DEF SuccessInv
<1>1. CASE UNCHANGED vars
  BY <1>1 DEF vars, cse, SuccessInv, Subscribed, OnItsWay, Removed
<1>2. ASSUME NEW ae \in AEs, MeterRegisters(ae) \/ MeterCreatesContainer(ae)
      PROVE  SuccessInv'
  BY <1>2 DEF MeterRegisters, MeterCreatesContainer, CreateAe, CreateContainer,
              SuccessInv, Subscribed, OnItsWay, Removed
<1>3. ASSUME NEW c \in Calls, Call(c)
      PROVE  SuccessInv'
  <2>1. /\ call'[c].phase = "waiting" /\ call[c].phase = "new"
        /\ \A other \in Calls \ {c} : call'[other] = call[other]
        /\ (~ overlap' => ~ overlap)
        /\ UNCHANGED <<cse, AE_NAMES, chain, latest, errors>>
    BY <1>3, SetStep DEF Call, TypeOK
  <2>2. (NoChain' => NoChain) /\ \A ae : Removed(ae) => Removed(ae)'
    BY <2>1 DEF Removed
  <2>3. Last => Last'
    BY <2>1, <2>2 DEF cse
  <2>4. Chains => Chains'
    BY <2>1 DEF cse, Subscribed, OnItsWay
  <2> QED
    BY <2>1, <2>3, <2>4, <1>a, <1>b
<1>4. ASSUME NEW s \in Subscribes, Listed(s), ~ overlap', errors' = 0
      PROVE  Chains' /\ Last'
  <2>1. /\ UNCHANGED <<errors, cse, AE_NAMES, chain, latest, overlap>>
        /\ s \notin Deletes
    BY <1>4, ErrorsStay DEF Listed, ConstantsAssumption
  <2>2. /\ call[s].phase = "waiting" /\ call'[s].phase \in {"answered", "refused"}
        /\ \A other \in Calls \ {s} : call'[other] = call[other]
    BY <1>4, ListedStep
  <2>3. Chains /\ Last
    BY <1>4, <2>1, <1>a
  <2>4. (NoChain' => NoChain) /\ \A ae : Removed(ae) => Removed(ae)'
    BY <2>1, <2>2 DEF Removed
  <2>5. Last'
    BY <2>1, <2>3, <2>4 DEF cse
  <2>6. Chains'
    BY <2>1, <2>2, <2>3 DEF cse, Subscribed, OnItsWay
  <2> QED
    BY <2>5, <2>6
<1>5. ASSUME NEW s \in Subscribes, ListCallback(s), ~ overlap', errors' = 0
      PROVE  Chains' /\ Last'
  <2>1. ~ overlap /\ ~ Fails /\ call[s].phase = "answered" /\ call[s].names \in SUBSET AEs
    BY <1>5, FailsStep DEF ListCallback, TypeOK
  <2>2. /\ AE_NAMES' = call[s].names
        /\ call'[s].phase = "subscribing" /\ call'[s].names = call[s].names
        /\ \A ae \in call[s].names : chain'[s][ae] = "createAE"
        /\ \A other \in Calls \ {s} : call'[other] = call[other]
    BY <1>5, <2>1, ListCallbackStep
  <2>3. \A r \in Subscribes \ {s} : call[r].phase # "subscribing"
    BY <2>1, OnlyOne
  <2>4. \A ae \in AE_NAMES' : Subscribed(s, ae)'
    BY <2>2 DEF Subscribed, OnItsWay
  <2> QED
    BY <2>2, <2>3, <2>4
<1>6. ASSUME NEW s \in Subscribes, NEW ae \in AEs, Request(s, ae), ~ overlap', errors' = 0
      PROVE  Chains' /\ Last'
  <2>1. UNCHANGED <<errors, AE_NAMES, call, overlap>> /\ ~ Fails
    BY <1>6, ErrorsStay, FailsStep DEF Request
  <2>2. /\ chain[s][ae] \in Steps /\ call[s].phase = "subscribing"
    BY <1>6, <2>1 DEF Request, ServerInv, Steps
  <2>3. /\ Perform(chain[s][ae], ae, ListenerOf[s])
        /\ chain'[s][ae] = After[chain[s][ae]]
        /\ \A r \in Subscribes, other \in AEs :
             (r # s \/ other # ae) => chain'[r][other] = chain[r][other]
    BY <1>6, <2>1, RequestStep
  <2>4. \A r \in Subscribes \ {s} : call[r].phase # "subscribing"
    BY <1>6, <2>1, <2>2, OnlyOne
  <2>5. Chains
    BY <1>6, <2>1, <1>a
  <2>6. aes \subseteq aes' /\ containers \subseteq containers'
    BY <2>3, <1>0, PerformStep
  <2>7. ASSUME NEW a \in AE_NAMES
        PROVE  Subscribed(s, a)'
    <3>1. a \in AEs /\ Subscribed(s, a)
      BY <2>2, <2>5 DEF TypeOK
    <3>2. CASE a # ae
      <4>1. chain'[s][a] = chain[s][a] /\ sub'[a] = sub[a]
        <5>1. \A other \in AEs \ {ae} : sub'[other] = sub[other]
          BY <2>3, <1>0, PerformSub
        <5> QED
          BY <2>3, <3>1, <3>2, <5>1
      <4> QED
        BY <2>6, <3>1, <4>1 DEF Subscribed, OnItsWay
    <3>3. CASE a = ae
      <4>1. OnItsWay(s, ae)
        BY <2>2, <3>1, <3>3 DEF Subscribed, Steps
      <4>2. CASE chain[s][ae] = "createAE"
        <5>1. chain'[s][ae] = "createDataContainer" /\ ae \in aes'
          <6>1. chain'[s][ae] = "createDataContainer"
            BY <2>3, <4>2, AfterType
          <6>2. ae \in aes'
            BY <2>3, <4>2, <1>0, PerformStep
          <6> QED
            BY <6>1, <6>2
        <5> QED
          BY <3>3, <5>1 DEF Subscribed, OnItsWay
      <4>3. CASE chain[s][ae] = "createDataContainer"
        <5>1. chain'[s][ae] = "deleteSubscription" /\ ae \in containers'
          <6>1. chain'[s][ae] = "deleteSubscription"
            BY <2>3, <4>3, AfterType
          <6>2. ae \in containers'
            BY <2>3, <4>1, <4>3, <1>0, PerformStep DEF OnItsWay
          <6> QED
            BY <6>1, <6>2
        <5> QED
          BY <3>3, <5>1 DEF Subscribed, OnItsWay
      <4>4. CASE chain[s][ae] = "deleteSubscription"
        <5>1. chain'[s][ae] = "sendSubscription" /\ ae \in containers' /\ sub'[ae] = NoOne
          <6>1. chain'[s][ae] = "sendSubscription"
            BY <2>3, <4>4, AfterType
          <6>2. sub'[ae] = NoOne
            BY <2>3, <4>4, <1>0, PerformSub
          <6>3. ae \in containers'
            BY <2>6, <4>1, <4>4 DEF OnItsWay
          <6> QED
            BY <6>1, <6>2, <6>3
        <5> QED
          BY <3>3, <5>1 DEF Subscribed, OnItsWay
      <4>5. CASE chain[s][ae] = "sendSubscription"
        <5>1. ae \in containers /\ sub[ae] = NoOne
          BY <3>1, <3>3, <4>5 DEF Subscribed, OnItsWay
        <5>2. chain'[s][ae] = "resolved" /\ sub'[ae] = ListenerOf[s]
          <6>1. chain'[s][ae] = "resolved"
            BY <2>3, <4>5, AfterType
          <6>2. sub'[ae] = ListenerOf[s]
            BY <2>3, <4>5, <5>1, <1>0, PerformSub
          <6> QED
            BY <6>1, <6>2
        <5> QED
          BY <3>3, <5>2 DEF Subscribed
      <4> QED
        BY <2>2, <4>2, <4>3, <4>4, <4>5 DEF Steps
    <3> QED
      BY <3>2, <3>3
  <2>8. Chains'
    BY <2>1, <2>2, <2>4, <2>5, <2>7
  <2> QED
    BY <2>1, <2>2, <2>8
<1>7. ASSUME NEW s \in Subscribes, AnswerSubscribe(s), ~ overlap', errors' = 0
      PROVE  Chains' /\ Last'
  <2>1. /\ UNCHANGED <<errors, cse, AE_NAMES, chain, overlap>> /\ latest' = s
        /\ \A ae \in AEs : chain[s][ae] \notin Steps
    BY <1>7 DEF AnswerSubscribe, Fulfilled, Steps
  <2>2. /\ call[s].phase = "subscribing" /\ call'[s].phase = "success"
        /\ \A other \in Calls \ {s} : call'[other] = call[other]
    BY <1>7, AnswerStep
  <2>3. \A r \in Subscribes : call'[r].phase # "subscribing"
    BY <1>7, <2>1, <2>2, OnlyOne
  <2>4. \A ae \in AE_NAMES : sub[ae] = ListenerOf[s]
    <3>1. Chains
      BY <1>7, <2>1, <1>a
    <3> QED
      BY <2>1, <2>2, <3>1 DEF Subscribed, OnItsWay, Steps, TypeOK
  <2> QED
    BY <2>1, <2>3, <2>4 DEF cse
<1>8. ASSUME NEW d \in Deletes, Deleted(d), ~ overlap', errors' = 0
      PROVE  Chains' /\ Last'
  <2>1. /\ UNCHANGED <<errors, AE_NAMES, chain, latest, overlap>> /\ ~ Fails
        /\ d \notin Subscribes /\ ResourceOf[d] \in AEs
    BY <1>8, ErrorsStay, FailsStep DEF Deleted, ConstantsAssumption
  <2>2. /\ call[d].phase = "waiting"
        /\ \A other \in Calls \ {d} : call'[other] = call[other]
    BY <1>8, DeletedStep
  <2>3. \A s \in Subscribes : call[s].phase # "subscribing" /\ call'[s].phase # "subscribing"
    BY <1>8, <2>1, <2>2, OnlyOne
  <2>4. Last /\ NoChain
    BY <1>8, <2>1, <2>3, <1>a
  <2>5. \A ae : Removed(ae) => Removed(ae)'
    BY <2>2 DEF Removed
  <2>6. CASE UNCHANGED cse
    BY <2>1, <2>3, <2>4, <2>5, <2>6 DEF cse
  <2>7. CASE Remove(ResourceOf[d]) /\ call'[d].phase = "answered"
    <3>1. Removed(ResourceOf[d])'
      BY <2>7 DEF Removed
    <3>2. \A ae \in AE_NAMES \ {ResourceOf[d]} : sub'[ae] = sub[ae]
      BY <2>1, <2>7, <1>0, RemoveStep DEF TypeOK
    <3> QED
      BY <2>1, <2>3, <2>4, <2>5, <3>1, <3>2
  <2> QED
    BY <1>8, <2>1, <2>6, <2>7, DeletedStep
<1>9. ASSUME NEW d \in Deletes, DeleteCallback(d), ~ overlap', errors' = 0
      PROVE  Chains' /\ Last'
  <2>1. /\ UNCHANGED <<errors, cse, chain, latest, overlap>> /\ d \notin Subscribes
    BY <1>9 DEF DeleteCallback, ConstantsAssumption
  <2>2. /\ call[d].phase = "answered"
        /\ AE_NAMES' = AE_NAMES \ {ResourceOf[d]}
        /\ \A other \in Calls \ {d} : call'[other] = call[other]
    BY <1>9, DeleteCallbackStep
  <2>3. \A s \in Subscribes : call[s].phase # "subscribing" /\ call'[s].phase # "subscribing"
    BY <1>9, <2>1, <2>2, OnlyOne
  <2>4. Last /\ NoChain
    BY <1>9, <2>1, <2>3, <1>a
  <2>5. \A ae \in AE_NAMES' : ~ Removed(ae)
    BY <1>9, <2>1, <2>2, OnlyOne DEF Removed
  <2> QED
    BY <2>1, <2>2, <2>3, <2>4, <2>5 DEF cse
<1>10. CASE Kill
  BY <1>10, KillStep DEF SuccessInv
<1> QED
  BY <1>1, <1>2, <1>3, <1>4, <1>5, <1>6, <1>7, <1>8, <1>9, <1>10, <1>b
  DEF Next, Subscribing, Deleting

-----------------------------------------------------------------------------
(***************************************************************************)
(* The theorems.                                                           *)
(***************************************************************************)

LEMMA InvInit == ASSUME ConstantsAssumption, Init PROVE IInv
<1> USE NamesAreCalls
<1>1. TypeOK
  <2>1. call \in [Calls -> [phase : Phases, names : SUBSET AEs]]
    BY DEF Init, At
  <2>2. chain \in [Subscribes -> [AEs -> Progress]]
    BY DEF Init, Progress
  <2>3. errors \in 0..Errors /\ killed \in 0..Kills
    BY DEF ConstantsAssumption, Init
  <2> QED
    BY <2>1, <2>2, <2>3 DEF Init, TypeOK
<1>2. \A c \in Calls : call[c].phase = "new"
  BY DEF Init, At
<1>3. ServerInv
  <2>1. \A s \in Subscribes : call[s].names = {}
    BY DEF Init, At
  <2> QED
    BY <2>1 DEF Init, ServerInv
<1>4. Alone
  BY <1>2 DEF Alone, UnderWay, GoesOn
<1>5. ListedInv /\ SuccessInv
  BY <1>2 DEF Init, ListedInv, SuccessInv
<1>6. GoneInv
  BY <1>2, NamesAreCalls, Zenon DEF GoneInv
<1> QED
  BY <1>1, <1>3, <1>4, <1>5, <1>6 DEF IInv

\* The inductive invariant holds throughout: what the server has, what the
\* lists and chains hold, and what is left to be done belong together.
THEOREM Invariance == Spec => []IInv
<1>1. Init => IInv
  BY InvInit, ConstantsAssumption
<1>2. IInv /\ [Next]_vars => IInv'
  BY TypeStep, ServerStep, AloneStep, ListedStays, GoneStays, SuccessStays,
     ConstantsAssumption DEF IInv
<1> QED
  BY <1>1, <1>2, PTL DEF Spec

\* The web application's variables and the server's keep their types; the
\* list the page shows holds application entities only (postSubscribe.js:28).
THEOREM TypeCorrect == Spec => []TypeOK
<1>1. IInv => TypeOK
  BY DEF IInv
<1> QED
  BY <1>1, Invariance, PTL

\* However subscribes and deletes overlap, somebody is told of the data of
\* whatever the page shows once nothing is under way (app.js:143-150).
THEOREM WhatIsListedIsSubscribed == Spec => []ListedIsSubscribed
<1>1. IInv => ListedIsSubscribed
  <2>1. ASSUME UnderWay = {}
        PROVE  \A c \in Calls : call[c].phase \notin {"answered", "subscribing"}
    BY <2>1 DEF UnderWay
  <2> QED
    BY <2>1, NamesAreCalls DEF IInv, ListedInv, ListedIsSubscribed, Removed
<1> QED
  BY <1>1, Invariance, PTL

\* Calls that do not overlap and meet with no error leave the last browser
\* that was told "success" subscribed (postSubscribe.js:45-49).
THEOREM SuccessIsTrue == Spec => []SuccessIsSubscribed
<1>1. IInv => SuccessIsSubscribed
  <2>1. ASSUME UnderWay = {}
        PROVE  \A c \in Calls : call[c].phase \notin {"answered", "subscribing"}
    BY <2>1 DEF UnderWay
  <2> QED
    BY <2>1, NamesAreCalls DEF IInv, SuccessInv, SuccessIsSubscribed, Removed
<1> QED
  BY <1>1, Invariance, PTL

\* A delete that was reported and did not overlap with another call is final
\* (postDelete.js:22-44).
THEOREM WhatIsDeletedIsGone == Spec => []DeletedIsGone
<1>1. IInv => DeletedIsGone
  BY DEF IInv, GoneInv, DeletedIsGone
<1> QED
  BY <1>1, Invariance, PTL

=============================================================================
