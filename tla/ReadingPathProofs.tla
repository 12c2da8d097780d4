-------------------------- MODULE ReadingPathProofs --------------------------
(***************************************************************************)
(* Proofs about ReadingPath: the composition adds nothing to what its two  *)
(* components do, so what is proved of one of them holds of the whole.     *)
(***************************************************************************)
EXTENDS ReadingPath, WebappStoreProofs

\* What is proved of WebappSubscribe, of the meters.
P == INSTANCE WebappSubscribeProofs WITH AEs <- Meters, Kills <- MaxDeaths, killed <- deaths

\* Storing is done as WebappStore says, whatever subscribing goes on.
THEOREM PathIsStore == PathSpec => Spec
<1>1. PathInit => Init
  BY DEF PathInit
<1>2. [PathNext]_allVars => [Next]_vars
  <2>1. CASE UNCHANGED allVars
    BY <2>1 DEF allVars
  <2>2. CASE Subscription
    BY <2>2 DEF Subscription
  <2>3. ASSUME NEW n \in Notifications, MeterReports(n)
        PROVE  UNCHANGED vars
    BY <2>3 DEF MeterReports
  <2>4. ASSUME NEW n \in Notifications, Arrive(n)
        PROVE  Next
    BY <2>4 DEF Arrive, Next
  <2>5. ASSUME NEW n \in Notifications, Store(n)
        PROVE  Next
    BY <2>5 DEF Store, Next
  <2>6. ASSUME NEW meter \in Meters, Browse(meter)
        PROVE  Next
    BY <2>6 DEF Browse, Next
  <2>7. CASE Operator
    BY <2>7 DEF Operator, Next
  <2> QED
    BY <2>1, <2>2, <2>3, <2>4, <2>5, <2>6, <2>7 DEF PathNext
<1> QED
  BY <1>1, <1>2, PTL DEF PathSpec, Spec

\* Subscribing is done as WebappSubscribe says, whatever is being stored.
THEOREM PathIsSubscribe == PathSpec => S!Spec
<1>1. PathInit => S!Init
  BY DEF PathInit
<1>2. [PathNext]_allVars => [S!Next]_(S!vars)
  <2>1. CASE UNCHANGED allVars
    BY <2>1 DEF allVars, subVars, vars, S!vars, S!cse
  <2>2. CASE Subscription
    BY <2>2 DEF Subscription, S!Next
  <2>3. CASE UNCHANGED subVars
    BY <2>3 DEF subVars, S!vars, S!cse
  <2>4. ASSUME NEW n \in Notifications, MeterReports(n) \/ Arrive(n)
        PROVE  UNCHANGED subVars
    BY <2>4 DEF MeterReports, Arrive
  <2>5. ASSUME Besides PROVE UNCHANGED subVars \/ S!Next
    <3>1. CASE Ended
      BY <2>5, <3>1 DEF Besides, S!Next
    <3>2. CASE ~ Ended
      BY Zenon, <2>5, <3>2 DEF Besides
    <3> QED
      BY <3>1, <3>2
  <2> QED
    BY <2>1, <2>2, <2>3, <2>4, <2>5 DEF PathNext, Store, Browse, Operator
<1> QED
  BY <1>1, <1>2, PTL DEF PathSpec, S!Spec

\* Whatever the meters report and however often somebody subscribes, a data
\* file holds only readings its meter sent, none twice.
THEOREM PathFilesAreSound == PathSpec => []FileIsSound
BY PathIsStore, FilesAreSound, PTL

\* The file is a log of the readings that came along this way, until two of
\* them cross or one is cut off in its write.
THEOREM PathFilesAreLogs == PathSpec => LogSpec
BY PathIsStore, FilesAreLogs, PTL

-----------------------------------------------------------------------------
\* The subscribing that is proved about is the one that is composed here.
LEMMA ProvedIsComposed == S!Spec <=> P!Spec
<1> USE DEF S!Set, P!Set, S!At, P!At, S!cse, P!cse, S!UnderWay, P!UnderWay, S!GoesOn, P!GoesOn,
            S!Calls, P!Calls, S!Fails, P!Fails
<1>0. S!Steps = P!Steps /\ S!After = P!After
  <2>1. S!Steps = P!Steps
    BY DEF S!Steps, P!Steps
  <2> QED
    BY <2>1, Zenon DEF S!After, P!After, S!Steps, P!Steps
<1>1. S!Init <=> P!Init
  BY DEF S!Init, P!Init
<1>2. S!Next <=> P!Next
  <2>1. ASSUME NEW ae \in Meters
        PROVE  /\ S!MeterRegisters(ae) <=> P!MeterRegisters(ae)
               /\ S!MeterCreatesContainer(ae) <=> P!MeterCreatesContainer(ae)
    BY DEF S!MeterRegisters, P!MeterRegisters, S!MeterCreatesContainer, P!MeterCreatesContainer,
           S!CreateAe, P!CreateAe, S!CreateContainer, P!CreateContainer
  <2>2. ASSUME NEW c PROVE S!Call(c) <=> P!Call(c)
    <3>1. S!UnderWay = P!UnderWay
      BY <1>0
    <3> HIDE DEF S!UnderWay, P!UnderWay
    <3> QED
      BY <3>1 DEF S!Call, P!Call, S!Cardinality, P!Cardinality, Cardinality
  <2>3. ASSUME NEW s PROVE S!Subscribing(s) <=> P!Subscribing(s)
    <3>1. S!Listed(s) <=> P!Listed(s)
      BY DEF S!Listed, P!Listed, S!Entities, P!Entities
    <3>2. S!ListCallback(s) <=> P!ListCallback(s)
      BY DEF S!ListCallback, P!ListCallback
    <3>3. S!AnswerSubscribe(s) <=> P!AnswerSubscribe(s)
      BY DEF S!AnswerSubscribe, P!AnswerSubscribe, S!Fulfilled, P!Fulfilled
    <3>4. ASSUME NEW ae PROVE S!Request(s, ae) <=> P!Request(s, ae)
      BY <1>0 DEF S!Request, P!Request, S!Perform, P!Perform, S!CreateAe, P!CreateAe,
             S!CreateContainer, P!CreateContainer, S!Unsubscribe, P!Unsubscribe, S!Subscribe, P!Subscribe
    <3> QED
      BY <3>1, <3>2, <3>3, <3>4 DEF S!Subscribing, P!Subscribing
  <2>4. ASSUME NEW d PROVE S!Deleting(d) <=> P!Deleting(d)
    BY DEF S!Deleting, P!Deleting, S!Deleted, P!Deleted, S!DeleteCallback, P!DeleteCallback,
           S!Without, P!Without, S!Remove, P!Remove
  <2>5. S!Kill <=> P!Kill
    BY <1>0 DEF S!Kill, P!Kill, S!Remove, P!Remove, S!Perform, P!Perform, S!CreateAe, P!CreateAe,
           S!CreateContainer, P!CreateContainer, S!Unsubscribe, P!Unsubscribe, S!Subscribe, P!Subscribe
  <2> QED
    BY <2>1, <2>2, <2>3, <2>4, <2>5 DEF S!Next, P!Next
<1>3. [S!Next]_(S!vars) <=> [P!Next]_(P!vars)
  BY <1>2 DEF S!vars, P!vars
<1> QED
  BY <1>1, <1>3, PTL DEF S!Spec, P!Spec

\* It assumes of its constants what is assumed here.
LEMMA ProvedAssumption == P!ConstantsAssumption
BY PathAssumption DEF S!ConstantsAssumption, P!ConstantsAssumption, S!Calls, P!Calls,
   S!Listeners, P!Listeners, S!IsFiniteSet, P!IsFiniteSet, IsFiniteSet

\* Whatever the page shows is subscribed to while nothing is under way, in the
\* composition as in WebappSubscribe.
THEOREM PathListedIsSubscribed == PathSpec => []S!ListedIsSubscribed
<1>1. P!Spec => []P!ListedIsSubscribed
  BY ProvedAssumption, P!WhatIsListedIsSubscribed DEF P!WhatIsListedIsSubscribed
<1>2. P!ListedIsSubscribed <=> S!ListedIsSubscribed
  BY DEF P!ListedIsSubscribed, S!ListedIsSubscribed, P!UnderWay, S!UnderWay, P!Calls, S!Calls,
     P!GoesOn, S!GoesOn, P!Steps, S!Steps
<1> QED
  BY <1>1, <1>2, PathIsSubscribe, ProvedIsComposed, PTL

\* What was told "deleted" is gone, whatever its meter reports meanwhile.
THEOREM PathDeletedIsGone == PathSpec => []S!DeletedIsGone
<1>1. P!Spec => []P!DeletedIsGone
  BY ProvedAssumption, P!WhatIsDeletedIsGone DEF P!WhatIsDeletedIsGone
<1>2. P!DeletedIsGone <=> S!DeletedIsGone
  BY DEF P!DeletedIsGone, S!DeletedIsGone
<1> QED
  BY <1>1, <1>2, PathIsSubscribe, ProvedIsComposed, PTL

-----------------------------------------------------------------------------
\* The server notifies somebody of whatever it stores while the page shows the
\* meter.
PromisedIsNotified == promised \subseteq notified \cap Notifications

\* Only what was notified is handled, and only what was stored is notified.
InTurn ==
  /\ notified \subseteq stored
  /\ \A n \in Notifications : handler[n].phase # "new" => n \in notified

\* While the web application is down the page shows nothing, nobody is calling
\* it, and whatever it owed is harmed.
Down == ~ running => AE_NAMES = {} /\ S!UnderWay = {} /\ promised \subseteq harmed

\* What is not harmed is neither given up nor forgotten.
NotForgotten(n) ==
  /\ handler[n].phase \notin {"missed", "lost", "cut"}
  /\ handler[n].phase # "new" => n \in saving \cup database
Unharmed == harmed \subseteq promised /\ \A n \in promised \ harmed : NotForgotten(n)

PathInv == PromisedIsNotified /\ InTurn /\ Down /\ Unharmed

\* It holds at the start.
LEMMA PathInvInit == PathInit => PathInv
<1> SUFFICES ASSUME PathInit PROVE PathInv
  OBVIOUS
<1>1. promised = {} /\ harmed = {} /\ notified = {} /\ stored = {} /\ running
  BY DEF PathInit, Init
<1>2. \A n \in Notifications : handler[n].phase = "new"
  BY AtType DEF PathInit, Init
<1> QED
  BY <1>1, <1>2 DEF PathInv, PromisedIsNotified, InTurn, Down, Unharmed

\* While nothing is under way, only meters and new calls go on.
LEMMA DownStep ==
  ASSUME Down, ~ running, Subscription
  PROVE  S!UnderWay' = {} /\ UNCHANGED <<AE_NAMES, running, promised, harmed>>
<1>1. S!UnderWay = {} /\ UNCHANGED <<running, promised, harmed>>
  BY DEF Down, Subscription, vars, pathVars
<1>2. ASSUME NEW meter \in Meters,
             S!MeterRegisters(meter) \/ S!MeterCreatesContainer(meter)
      PROVE  UNCHANGED <<call, chain, AE_NAMES>>
  BY <1>2 DEF S!MeterRegisters, S!MeterCreatesContainer
<1>3. ASSUME NEW s \in Subscribes, S!Subscribing(s)
      PROVE  s \in S!UnderWay
  BY <1>3 DEF S!Subscribing, S!Listed, S!ListCallback, S!AnswerSubscribe, S!Request,
              S!UnderWay, S!GoesOn, S!Calls
<1>4. ASSUME NEW d \in Deletes, S!Deleting(d)
      PROVE  d \in S!UnderWay
  BY <1>4 DEF S!Deleting, S!Deleted, S!DeleteCallback, S!UnderWay, S!Calls
<1>5. UNCHANGED <<call, chain, AE_NAMES>>
  BY <1>1, <1>2, <1>3, <1>4 DEF Subscription
<1>6. S!UnderWay' = S!UnderWay
  BY <1>5 DEF S!UnderWay, S!GoesOn
<1> QED
  BY <1>1, <1>5, <1>6

\* An end leaves nothing under way and nothing on the page.
LEMMA KilledIsDown ==
  ASSUME S!Kill
  PROVE  S!UnderWay' = {} /\ AE_NAMES' = {}
<1>1. /\ AE_NAMES' = {} /\ chain' = chain
      /\ call' = [c \in S!Calls |-> IF c \in S!UnderWay THEN S!At("lost", {}) ELSE call[c]]
  BY DEF S!Kill
<1>2. ASSUME NEW c \in S!Calls
      PROVE  c \notin S!UnderWay'
  <2>1. CASE c \in S!UnderWay
    <3>1. call'[c].phase = "lost"
      BY <1>1, <2>1 DEF S!At
    <3> QED
      BY <3>1 DEF S!UnderWay, S!GoesOn
  <2>2. CASE c \notin S!UnderWay
    <3>1. call'[c] = call[c]
      BY <1>1, <2>2
    <3> QED
      BY <1>1, <2>2, <3>1 DEF S!UnderWay, S!GoesOn
  <2> QED
    BY <2>1, <2>2
<1> QED
  BY <1>1, <1>2 DEF S!UnderWay

\* A step of the web application's storing that ends nothing and at which
\* nothing fails forgets no reading.
LEMMA SoundStoring ==
  ASSUME TypeOK, running, running', ioErrors' = ioErrors,
         NEW k \in Notifications, Handle(k) \/ DatabaseSaved(k),
         NEW n \in Notifications, NotForgotten(n)
  PROVE  NotForgotten(n)'
<1>1. ~ Fails /\ ~ Die
  BY DEF Fails, TypeOK, Die
<1>2. CASE DatabaseSaved(k)
  <2>1. handler' = handler /\ saving' \cup database' = saving \cup database
    BY <1>1, <1>2 DEF DatabaseSaved
  <2> QED
    BY <2>1 DEF NotForgotten
<1>3. CASE Handle(k)
  <2>1. /\ UNCHANGED <<saving, database>> /\ handler[k].phase # "new"
        /\ \/ handler' = [handler EXCEPT ![k] =
                            At("opening", Pushed(file[MeterOf[k]].entries, k))]
           \/ handler' = [handler EXCEPT ![k] = At("writing", handler[k].entries)]
           \/ handler' = [handler EXCEPT ![k] = Done]
    BY <1>1, <1>3 DEF Handle, ReadFile, OpenFile, WriteFile, Set
  <2>2. /\ handler'[k].phase \in {"opening", "writing", "done"}
        /\ \A m \in Notifications \ {k} : handler'[m] = handler[m]
    <3>1. /\ \/ handler'[k] = At("opening", Pushed(file[MeterOf[k]].entries, k))
             \/ handler'[k] = At("writing", handler[k].entries)
             \/ handler'[k] = Done
          /\ \A m \in Notifications \ {k} : handler'[m] = handler[m]
      BY <2>1 DEF TypeOK
    <3> QED
      BY <3>1 DEF At, Done
  <2> QED
    BY <2>1, <2>2 DEF NotForgotten
<1> QED
  BY <1>2, <1>3

\* A notification that is new stays so unless it arrives.
LEMMA NewStays ==
  ASSUME ConstantsAssumption, TypeOK, NEW n \in Notifications, handler[n].phase = "new",
         \/ \E k \in Notifications : Handle(k) \/ DatabaseSaved(k)
         \/ \E meter \in Meters : Download(meter)
         \/ Kill \/ Restart
  PROVE  handler'[n].phase = "new"
<1>1. CASE Die
  BY <1>1, DieType, IsUnderWay
<1>2. CASE UNCHANGED handler
  BY <1>2
<1>3. ASSUME NEW k \in Notifications, handler[k].phase # "new",
             \E state : Set(k, state)
      PROVE  handler'[n].phase = "new"
  BY <1>3 DEF Set, TypeOK
<1> QED
  BY <1>1, <1>2, <1>3 DEF Handle, ReadFile, OpenFile, WriteFile, DatabaseSaved, Download, Kill,
                          Restart

\* Every step keeps it.
LEMMA PathInvStep ==
  ASSUME TypeOK, S!ListedIsSubscribed, PathInv, [PathNext]_allVars
  PROVE  PathInv'
<1>0. PromisedIsNotified /\ InTurn /\ Down /\ Unharmed
  BY DEF PathInv
<1>1. ASSUME NEW n \in Notifications, MeterReports(n)
      PROVE  PathInv'
  <2>1. /\ UNCHANGED <<vars, subVars, harmed>> /\ n \notin stored
        /\ stored' = stored \cup {n}
        /\ notified \subseteq notified' /\ notified' \subseteq notified \cup {n}
        /\ promised \subseteq promised' /\ promised' \subseteq promised \cup {n}
    BY <1>1 DEF MeterReports, Notify
  <2>2. n \in promised' \ promised => Settled(MeterOf[n])
    BY <1>1 DEF MeterReports
  <2>3. PromisedIsNotified'
    <3>1. CASE Settled(MeterOf[n])
      <4>1. sub[MeterOf[n]] # NoOne
        BY <3>1 DEF Settled, S!ListedIsSubscribed
      <4>2. n \in notified'
        BY <1>1, <4>1 DEF MeterReports, Notify
      <4> QED
        BY <1>0, <2>1, <4>2 DEF PromisedIsNotified
    <3>2. CASE ~ Settled(MeterOf[n])
      BY <1>0, <2>1, <2>2, <3>2 DEF PromisedIsNotified
    <3> QED
      BY <3>1, <3>2
  <2>4. InTurn'
    BY <1>0, <2>1 DEF InTurn, vars
  <2>5. Down'
    <3>1. UNCHANGED <<AE_NAMES, call, chain, running, harmed>>
      BY <2>1 DEF subVars, vars
    <3>2. S!UnderWay' = S!UnderWay
      BY <3>1 DEF S!UnderWay, S!GoesOn
    <3> QED
      BY <1>0, <2>1, <2>2, <3>1, <3>2 DEF Down, Settled
  <2>6. Unharmed'
    <3>1. UNCHANGED <<handler, saving, database, harmed>>
      BY <2>1 DEF vars
    <3>2. handler[n].phase = "new"
      BY <1>0, <2>1 DEF InTurn
    <3>3. NotForgotten(n)
      BY <3>2 DEF NotForgotten
    <3>4. \A m \in promised' \ harmed' : NotForgotten(m)
      BY <1>0, <2>1, <3>1, <3>3 DEF Unharmed
    <3>5. \A m \in promised' \ harmed' : NotForgotten(m)'
      BY <3>1, <3>4 DEF NotForgotten
    <3> QED
      BY <1>0, <2>1, <3>1, <3>5 DEF Unharmed
  <2> QED
    BY <2>3, <2>4, <2>5, <2>6 DEF PathInv
<1>2. CASE Subscription
  <2>1. UNCHANGED <<running, handler, saving, database, stored, notified, promised, harmed>>
    BY <1>2 DEF Subscription, vars, pathVars
  <2>2. PromisedIsNotified' /\ InTurn' /\ Unharmed'
    BY <1>0, <2>1 DEF PromisedIsNotified, InTurn, Unharmed, NotForgotten
  <2>3. Down'
    BY <1>0, <1>2, <2>1, DownStep DEF Down
  <2> QED
    BY <2>2, <2>3 DEF PathInv
<1>3. ASSUME NEW n \in Notifications, Arrive(n)
      PROVE  PathInv'
  <2>1. /\ UNCHANGED <<running, database, stored, notified, promised, harmed, AE_NAMES, call, chain>>
        /\ n \in notified
    BY <1>3 DEF Arrive, Monitor, MonitorMissed, subVars, pathVars
  <2>2. \A m \in Notifications \ {n} : handler'[m] = handler[m]
    BY <1>3 DEF Arrive, Monitor, MonitorMissed, Set, TypeOK
  <2>3. S!UnderWay' = S!UnderWay
    BY <2>1 DEF S!UnderWay, S!GoesOn
  <2>4. PromisedIsNotified' /\ InTurn' /\ Down'
    BY <1>0, <2>1, <2>2, <2>3 DEF PromisedIsNotified, InTurn, Down
  <2>5. Unharmed'
    <3>1. CASE ~ running
      BY <1>0, <2>1, <3>1 DEF Down, Unharmed
    <3>2. CASE running
      <4>1. saving' = saving \cup {n} /\ handler'[n] \in {At("opening", <<n>>), Reading}
        BY <1>3, <3>2 DEF Arrive, Monitor, MonitorMissed, Set, TypeOK
      <4>2. handler'[n].phase \in {"opening", "reading"}
        BY <4>1, States
      <4>3. \A m \in promised \ harmed : NotForgotten(m)'
        BY <1>0, <2>1, <2>2, <4>1, <4>2 DEF Unharmed, NotForgotten, PromisedIsNotified
      <4> QED
        BY <1>0, <2>1, <4>3 DEF Unharmed
    <3> QED
      BY <3>1, <3>2
  <2> QED
    BY <2>4, <2>5 DEF PathInv
<1>4. ASSUME Besides,
             \/ \E k \in Notifications : Handle(k) \/ DatabaseSaved(k)
             \/ \E meter \in Meters : Download(meter)
             \/ Kill \/ Restart
      PROVE  PathInv'
  <2>1. /\ UNCHANGED <<stored, notified, promised>>
        /\ harmed' = IF Ended \/ ioErrors' # ioErrors THEN promised ELSE harmed
        /\ Ended => S!Kill
        /\ ~ Ended => UNCHANGED subVars
    <3>1. CASE Ended
      BY <1>4, <3>1 DEF Besides
    <3>2. CASE ~ Ended
      BY Zenon, <1>4, <3>2 DEF Besides
    <3> QED
      BY <3>1, <3>2
  <2>2. PromisedIsNotified'
    BY <1>0, <2>1 DEF PromisedIsNotified
  <2>3. InTurn'
    BY <1>0, <1>4, <2>1, NewStays, ConstantsAssumption DEF InTurn
  <2>4. Down'
    <3>1. CASE Ended
      BY <2>1, <3>1, KilledIsDown DEF Down
    <3>2. CASE ~ Ended /\ ~ running'
      <4>1. ~ running /\ UNCHANGED <<AE_NAMES, call, chain>>
        BY <2>1, <3>2 DEF Ended, subVars
      <4>2. S!UnderWay' = S!UnderWay
        BY <4>1 DEF S!UnderWay, S!GoesOn
      <4> QED
        BY <1>0, <2>1, <4>1, <4>2 DEF Down
    <3> QED
      BY <3>1, <3>2 DEF Down
  <2>5. Unharmed'
    <3>1. CASE harmed' = promised
      BY <2>1, <3>1 DEF Unharmed
    <3>2. CASE /\ running /\ running' /\ ioErrors' = ioErrors /\ harmed' = harmed
      <4>1. ASSUME NEW m \in promised \ harmed
            PROVE  NotForgotten(m)'
        <5>1. NotForgotten(m) /\ m \in Notifications
          BY <1>0 DEF Unharmed, PromisedIsNotified
        <5>2. CASE \E k \in Notifications : Handle(k) \/ DatabaseSaved(k)
          BY <3>2, <5>1, <5>2, SoundStoring
        <5>3. CASE Kill \/ Restart \/ \E meter \in Meters : Download(meter)
          <6>1. UNCHANGED <<handler, saving, database>>
            BY <3>2, <5>3 DEF Kill, Restart, Download, Die
          <6> QED
            BY <5>1, <6>1 DEF NotForgotten
        <5> QED
          BY <1>4, <5>2, <5>3
      <4> QED
        BY <1>0, <2>1, <3>2, <4>1 DEF Unharmed
    <3>3. CASE ~ running
      <4>1. promised = harmed
        BY <1>0, <3>3 DEF Down, Unharmed
      <4> QED
        BY <2>1, <3>1, <4>1
    <3> QED
      BY <2>1, <3>1, <3>2, <3>3 DEF Ended
  <2> QED
    BY <2>2, <2>3, <2>4, <2>5 DEF PathInv
<1>5. CASE UNCHANGED allVars
  <2>1. UNCHANGED <<running, handler, saving, database, stored, notified, promised, harmed,
                    AE_NAMES, call, chain>>
    BY <1>5 DEF allVars, vars, subVars, pathVars
  <2>2. S!UnderWay' = S!UnderWay
    BY <2>1 DEF S!UnderWay, S!GoesOn
  <2> QED
    BY <1>0, <2>1, <2>2 DEF PathInv, PromisedIsNotified, InTurn, Down, Unharmed, NotForgotten
<1>6. CASE PathNext
  BY <1>6, <1>1, <1>2, <1>3, <1>4 DEF PathNext, Store, Browse, Operator
<1> QED
  BY <1>5, <1>6

\* A reading of a meter the page shows is notified, and neither given up nor
\* forgotten unless the web application ends or fails after it, and stays in
\* the file if its handler was alone: for any number of meters, readings,
\* subscribes and deletes, for any overlap, and whatever fails.
THEOREM PromisesAreKept == PathSpec => []PromisedIsKept
<1>1. PathSpec => []PathInv
  <2>1. TypeOK /\ S!ListedIsSubscribed /\ PathInv /\ [PathNext]_allVars => PathInv'
    BY PathInvStep
  <2>2. PathSpec => []TypeOK
    BY PathIsStore, TypeCorrect, PTL
  <2> QED
    BY <2>1, <2>2, PathInvInit, PathListedIsSubscribed, PTL DEF PathSpec
<1>2. PathSpec => []RecordIsKept
  BY PathIsStore, RecordsStay, PTL
<1>3. PathInv /\ RecordIsKept => PromisedIsKept
  BY DEF PathInv, PromisedIsNotified, Unharmed, NotForgotten, RecordIsKept, PromisedIsKept
<1> QED
  BY <1>1, <1>2, <1>3, PTL

=============================================================================
