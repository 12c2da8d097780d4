---------------------------- MODULE CppMeterProofs ----------------------------
(***************************************************************************)
(* Proofs about CppMeter, for every container, runtime, delay and set of   *)
(* increments, and any number of pings, errors and restarts.               *)
(***************************************************************************)
EXTENDS CppMeter, FiniteSetTheorems, TLAPS

Places == {"update", "request", "load", "store", "finished", "aborted", "idle"}

\* What may be in a container: a reading of main, or a reply that is no older
\* than its ping.
Readings == [boot : Nat, report : Nat, kWH : Nat]
FreshReplies == {it \in [boot : Nat, asked : Nat, kWH : Nat] : it.kWH >= it.asked}
Items == Readings \cup FreshReplies

\* The type of what TypeOK leaves out.
Typed ==
  /\ pc \in [Threads -> Places] /\ reports \in Nat
  /\ mine \in [Threads -> Nat] /\ old \in [Threads -> Nat]
  /\ reading \in [Threads -> Items]
  /\ data \in [Containers -> Seq(Items)]

\* A ping that is not answered yet was sent when the meter showed no more.
PingsArePast ==
  pending \in Seq({n \in [verificationRequest : BOOLEAN, asked : Nat] :
                     n.asked <= meterValue})

\* As long as no two assignments to respObj have overlapped, there is at most
\* one thread in the middle of one, the pointer it has loaded is still the one
\* respObj is, and who is not on the way to an assignment has no object.
SoundHeap ==
  ~ raced =>
    /\ heap = "sound" /\ live = Held /\ OneOwner
    /\ \A thread \in Threads :
         /\ pc[thread] = "store" =>
              /\ old[thread] = respObj
              /\ \A other \in Threads \ {thread} : pc[other] # "store"
         /\ pc[thread] \notin {"load", "store"} => mine[thread] = 0

\* The reports that were due before the n-th request.
ReportsBefore(n) == IF n <= 8 THEN 0 ELSE IF n = 9 THEN 1 ELSE n - 9

\* Until the program is started again, the step main is at tells how many
\* reports there have been.
ReportsAreCounted ==
  /\ pc["main"] = "update" => Op(step) = "reading"
  /\ pc["main"] = "finished" => step = LastStep
  /\ (boots = 0 /\ pc["main"] # "aborted") =>
       reports = ReportsBefore(step)
                 + (IF Op(step) = "reading" /\ pc["main"] # "update" THEN 1 ELSE 0)

TypeInv == TypeOK /\ Typed
Inv == TypeInv /\ PingsArePast /\ SoundHeap /\ ReportsAreCounted

-----------------------------------------------------------------------------
LEMMA CountIsNat == countCalc \in Nat /\ LastStep \in Nat /\ LastStep = 9 + countCalc
<1>1. countCalc \in Nat
  BY ConstantsAssumption DEF countCalc
<1>2. Len(Setup) = 9
  BY DEF Setup
<1> QED
  BY <1>1, <1>2 DEF LastStep

\* Which requests are reports.
LEMMA OpIsReading ==
  ASSUME NEW n \in Nat \ {0}
  PROVE  Op(n) = "reading" <=> n = 8 \/ n >= 10
<1>1. Len(Setup) = 9
  BY DEF Setup
<1>2. CASE n >= 10
  BY <1>1, <1>2 DEF Op
<1>3. CASE n < 10
  <2>1. n \in 1..9 /\ Op(n) = Setup[n]
    BY <1>1, <1>3 DEF Op
  <2>2. n = 1 \/ n = 2 \/ n = 3 \/ n = 4 \/ n = 5 \/ n = 6 \/ n = 7 \/ n = 8 \/ n = 9
    BY <2>1
  <2> QED
    BY <2>1, <2>2 DEF Setup
<1> QED
  BY <1>2, <1>3

LEMMA ItemsAre ==
  /\ \A boot, report, kWH \in Nat : Report(boot, report, kWH) \in Readings
  /\ \A boot, asked, kWH \in Nat : kWH >= asked => Reply(boot, asked, kWH) \in FreshReplies
BY DEF Report, Reply, Readings, FreshReplies

LEMMA InitInv == Init => Inv
<1> SUFFICES ASSUME Init PROVE Inv
  OBVIOUS
<1>1. TypeOK
  <2>1. IsFiniteSet(live) /\ live \subseteq Nat \ {0} /\ raced \in BOOLEAN
    BY FS_EmptySet, Zenon DEF Init
  <2> QED
    BY <2>1, CountIsNat, ConstantsAssumption DEF Init, TypeOK, Threads, Op
<1>2. Typed
  <2>1. NoReading \in Items
    BY ItemsAre DEF NoReading, Items
  <2>2. <<>> \in Seq(Items)
    OBVIOUS
  <2> QED
    BY <2>1, <2>2 DEF Init, Typed, Threads, Places
<1>3. PingsArePast
  BY DEF Init, PingsArePast
<1>4. SoundHeap
  BY DEF Init, SoundHeap, Held, OneOwner, Threads
<1>5. ReportsAreCounted
  BY OpIsReading DEF Init, ReportsAreCounted, ReportsBefore, Threads
<1> QED
  BY <1>1, <1>2, <1>3, <1>4, <1>5 DEF Inv, TypeInv

\* A new object is somewhere.
LEMMA AddressesAre ==
  ASSUME TypeInv, NEW a \in NewAddresses
  PROVE  a \in Nat \ {0} /\ (heap = "sound" => a \notin live)
<1>1. Cardinality(live) \in Nat
  BY FS_CardinalityType DEF TypeInv, TypeOK
<1> QED
  BY <1>1 DEF NewAddresses

\* What a request leaves of the types, given what it leaves at the server.
LEMMA RespondType ==
  ASSUME TypeInv, NEW thread \in Threads, NEW performed, Respond(thread, performed)
  PROVE  /\ pc' = [pc EXCEPT ![thread] = "load"] /\ pc' \in [Threads -> Places]
         /\ mine' \in [Threads -> Nat] /\ IsFiniteSet(live') /\ live' \subseteq Nat \ {0}
         /\ UNCHANGED <<respObj, old, heap, raced>>
         /\ errors' \in 0..Errors
<1>1. mine' \in [Threads -> Nat] /\ IsFiniteSet(live') /\ live' \subseteq Nat \ {0}
  <2>0. mine \in [Threads -> Nat] /\ IsFiniteSet(live) /\ live \subseteq Nat \ {0}
    BY DEF TypeInv, TypeOK, Typed
  <2>1. CASE UNCHANGED <<mine, live>>
    BY <2>0, <2>1
  <2>2. ASSUME NEW a \in NewAddresses, mine' = [mine EXCEPT ![thread] = a],
               live' = live \cup {a}
        PROVE  mine' \in [Threads -> Nat] /\ IsFiniteSet(live') /\ live' \subseteq Nat \ {0}
    <3>1. IsFiniteSet(live \cup {a})
      BY <2>0, FS_AddElement
    <3> QED
      BY <2>0, <2>2, <3>1, AddressesAre
  <2> QED
    BY <2>1, <2>2 DEF Respond
<1>2. errors' \in 0..Errors
  BY ConstantsAssumption DEF TypeInv, TypeOK, Respond
<1>3. pc' = [pc EXCEPT ![thread] = "load"] /\ pc' \in [Threads -> Places]
  BY DEF TypeInv, Typed, Respond, Goto, Places
<1> QED
  BY <1>1, <1>2, <1>3 DEF Respond

LEMMA StoreDataType ==
  ASSUME TypeInv, NEW container \in Containers, NEW it \in Items, Store(container, it)
  PROVE  data' \in [Containers -> Seq(Items)]
BY DEF TypeInv, Typed, Store

\* An assignment to respObj ends.
LEMMA StoreAndDeleteType ==
  ASSUME TypeInv, NEW thread \in Threads, StoreAndDelete(thread)
  PROVE  /\ respObj' \in Nat /\ IsFiniteSet(live') /\ live' \subseteq Nat \ {0}
         /\ mine' \in [Threads -> Nat] /\ old' \in [Threads -> Nat]
         /\ heap' \in {"sound", "corrupt"} /\ raced' \in BOOLEAN
<1>1. IsFiniteSet(live \ {old[thread]})
  BY FS_RemoveElement DEF TypeInv, TypeOK
<1> QED
  BY <1>1 DEF TypeInv, TypeOK, Typed, StoreAndDelete, Owned

LEMMA TypeStep == TypeInv /\ PingsArePast /\ [Next]_vars => TypeInv'
<1> SUFFICES ASSUME TypeInv, PingsArePast, [Next]_vars PROVE TypeInv'
  OBVIOUS
<1> USE DEF TypeInv
<1>0. "main" \in Threads /\ "callback" \in Threads /\ "DATA" \in Containers
      /\ contName \in Containers
  BY DEF Threads, Containers
<1>1. CASE MainUpdate
  <2>1. reports' \in Nat /\ meterValue' \in Nat
    BY <1>1, ConstantsAssumption DEF MainUpdate, Update, TypeOK, Typed
  <2>2. Report(boots, reports', meterValue') \in Items
    BY <2>1, <1>1, ItemsAre, ConstantsAssumption DEF MainUpdate, TypeOK, Items
  <2>3. reading' \in [Threads -> Items]
    BY <2>2, <1>1 DEF MainUpdate, Typed
  <2>4. pc' = [pc EXCEPT !["main"] = "request"] /\ pc' \in [Threads -> Places]
    BY <1>1 DEF MainUpdate, Goto, Typed, Places
  <2>5. UNCHANGED <<step, objVars, cseVars, pinged, errors, boots>>
    BY <1>1 DEF MainUpdate
  <2> QED
    BY <1>0, <2>1, <2>3, <2>4, <2>5 DEF TypeOK, Typed, objVars, cseVars
<1>2. CASE MainRequest
  <2>1. PICK performed : Respond("main", performed)
    BY <1>2 DEF MainRequest
  <2>2. data' \in [Containers -> Seq(Items)]
    <3>1. Store(contName, reading["main"]) \/ Create(Op(step)) \/ UNCHANGED cseVars
      BY <1>2 DEF MainRequest, Respond
    <3>2. reading["main"] \in Items
      BY <1>0 DEF Typed
    <3>3. CASE Store(contName, reading["main"])
      BY <1>0, <3>2, <3>3, StoreDataType
    <3> QED
      BY <3>1, <3>3 DEF Create, cseVars, Typed
  <2>3. UNCHANGED <<mainVars, reading, pinged, boots>>
    BY <1>2 DEF MainRequest
  <2> QED
    BY <1>0, <2>1, <2>2, <2>3, RespondType DEF TypeOK, Typed, mainVars
<1>3. ASSUME NEW thread \in Threads, Load(thread) PROVE TypeInv'
  <2>1. pc' = [pc EXCEPT ![thread] = "store"] /\ pc' \in [Threads -> Places]
    BY <1>3 DEF Load, Goto, Typed, Places
  <2>2. old' \in [Threads -> Nat] /\ raced' \in BOOLEAN
    BY <1>3 DEF Load, TypeOK, Typed
  <2>3. UNCHANGED <<mainVars, reading, respObj, mine, live, heap, cseVars,
                    pinged, errors, boots>>
    BY <1>3 DEF Load
  <2> QED
    BY <1>0, <2>1, <2>2, <2>3 DEF TypeOK, Typed, mainVars, cseVars
<1>4. CASE MainStore
  <2>1. StoreAndDelete("main")
    BY <1>4 DEF MainStore
  <2>2. /\ pc' \in [Threads -> Places] /\ pc'["callback"] = pc["callback"]
        /\ pc'["main"] \in {"update", "request", "finished"}
    BY <1>4 DEF MainStore, Goto, Before, Typed, Places, Threads
  <2>3. step' \in 1..LastStep
    BY <1>4, CountIsNat DEF MainStore, More, TypeOK
  <2>4. UNCHANGED <<meterValue, reports, reading, cseVars, pinged, errors, boots>>
    BY <1>4 DEF MainStore
  <2> QED
    BY <1>0, <2>1, <2>2, <2>3, <2>4, StoreAndDeleteType DEF TypeOK, Typed, cseVars
<1>5. CASE CallbackStarts
  <2>1. Head(pending) \in [verificationRequest : BOOLEAN, asked : Nat]
        /\ Head(pending).asked <= meterValue
    BY <1>5 DEF CallbackStarts, PingsArePast
  <2>2. Reply(boots, Head(pending).asked, Answer) \in Items
    <3>1. boots \in Nat /\ Head(pending).asked \in Nat /\ meterValue \in Nat
      BY <2>1, ConstantsAssumption DEF TypeOK
    <3>2. Reply(boots, Head(pending).asked, meterValue) \in FreshReplies
      BY <2>1, <3>1, ItemsAre
    <3> QED
      BY <3>2 DEF Answer, Items
  <2>3. reading' \in [Threads -> Items]
    BY <1>5, <2>2 DEF CallbackStarts, Typed
  <2>4. /\ pc' \in [Threads -> Places] /\ pc'["main"] = pc["main"]
        /\ pc'["callback"] \in {"idle", "request"}
    BY <1>5 DEF CallbackStarts, Goto, Typed, Places, Threads
  <2>5. UNCHANGED <<mainVars, objVars, known, data, pinged, errors, boots>>
    BY <1>5 DEF CallbackStarts
  <2> QED
    BY <1>0, <2>3, <2>4, <2>5 DEF TypeOK, Typed, mainVars, objVars
<1>6. CASE CallbackRequest
  <2>1. PICK performed : Respond("callback", performed)
    BY <1>6 DEF CallbackRequest
  <2>2. data' \in [Containers -> Seq(Items)]
    <3>1. Store("DATA", reading["callback"]) \/ UNCHANGED cseVars
      BY <1>6 DEF CallbackRequest, Respond
    <3>2. reading["callback"] \in Items
      BY <1>0 DEF Typed
    <3> QED
      BY <1>0, <3>1, <3>2, StoreDataType DEF cseVars, Typed
  <2>3. UNCHANGED <<mainVars, reading, pinged, boots>>
    BY <1>6 DEF CallbackRequest
  <2> QED
    BY <1>0, <2>1, <2>2, <2>3, RespondType DEF TypeOK, Typed, mainVars
<1>7. CASE CallbackStore
  <2>1. StoreAndDelete("callback")
    BY <1>7 DEF CallbackStore
  <2>2. /\ pc' \in [Threads -> Places]
        /\ pc'["main"] = pc["main"] /\ pc'["callback"] = "idle"
    BY <1>7 DEF CallbackStore, Goto, Typed, Places, Threads
  <2>3. UNCHANGED <<mainVars, reading, cseVars, pinged, errors, boots>>
    BY <1>7 DEF CallbackStore
  <2> QED
    BY <1>0, <2>1, <2>2, <2>3, StoreAndDeleteType DEF TypeOK, Typed, mainVars, cseVars
<1>8. CASE WebappCreatesData
  BY <1>8 DEF WebappCreatesData, TypeOK, Typed, mainVars, objVars
<1>9. CASE Ping
  BY <1>9, ConstantsAssumption DEF Ping, TypeOK, Typed, mainVars, objVars
<1>10. CASE Restart
  <2>1. pc' = [thread \in Threads |-> IF thread = "main" THEN "request" ELSE "idle"]
    BY <1>10 DEF Restart
  <2>2. reading' \in [Threads -> Items]
    BY <1>10, ItemsAre DEF Restart, NoReading, Items
  <2>3. /\ step' = 1 /\ meterValue' = 0 /\ respObj' = 0 /\ live' = {}
        /\ heap' = "sound" /\ raced' = FALSE
        /\ mine' = [thread \in Threads |-> 0] /\ old' = [thread \in Threads |-> 0]
        /\ boots' \in 0..Boots
    BY <1>10, ConstantsAssumption DEF Restart, TypeOK
  <2>4. UNCHANGED <<reports, data, pinged, errors>>
    BY <1>10 DEF Restart
  <2>5. IsFiniteSet(live') /\ live' \subseteq Nat \ {0} /\ raced' \in BOOLEAN
    BY <2>3, FS_EmptySet, Zenon
  <2> QED
    BY <1>0, <2>1, <2>2, <2>3, <2>4, <2>5, CountIsNat DEF TypeOK, Typed, Places
<1>11. CASE UNCHANGED vars
  BY <1>11 DEF vars, mainVars, objVars, cseVars, TypeOK, Typed
<1>12. CASE Abort
  <2>1. /\ pc' = [pc EXCEPT !["main"] = "aborted"] /\ pc' \in [Threads -> Places]
        /\ UNCHANGED <<mainVars, reading, objVars, cseVars, pinged, errors, boots>>
    BY <1>12 DEF Abort, Goto, Typed, Places
  <2> QED
    BY <1>0, <2>1 DEF TypeOK, Typed, mainVars, objVars, cseVars
<1> QED
  BY <1>0, <1>1, <1>2, <1>3, <1>4, <1>5, <1>6, <1>7, <1>8, <1>9, <1>10, <1>11, <1>12
  DEF Next, Main, Callback

LEMMA PastStep == TypeInv /\ TypeInv' /\ PingsArePast /\ [Next]_vars => PingsArePast'
<1> DEFINE Past(value) == {n \in [verificationRequest : BOOLEAN, asked : Nat] : n.asked <= value}
<1> SUFFICES ASSUME TypeInv, TypeInv', PingsArePast, [Next]_vars PROVE PingsArePast'
  OBVIOUS
<1>1. pending \in Seq(Past(meterValue)) /\ meterValue \in Nat /\ meterValue' \in Nat
  BY DEF PingsArePast, TypeInv, TypeOK
<1>2. SUFFICES pending' \in Seq(Past(meterValue'))
  BY DEF PingsArePast
<1>3. CASE MainUpdate
  <2>1. \E increment \in Increments : meterValue' = meterValue + increment
    BY <1>3 DEF MainUpdate, Update
  <2>2. meterValue <= meterValue' /\ pending' = pending
    BY <2>1, <1>1, <1>3, ConstantsAssumption DEF MainUpdate, cseVars
  <2>3. Past(meterValue) \subseteq Past(meterValue')
    BY <1>1, <2>2
  <2> QED
    BY <1>1, <2>2, <2>3
<1>4. ASSUME UNCHANGED meterValue, NEW n \in Past(meterValue), pending' = Append(pending, n)
      PROVE  pending' \in Seq(Past(meterValue'))
  BY <1>1, <1>4
<1>5. CASE MainRequest
  <2>1. Notification(TRUE, 0) \in Past(meterValue)
    BY <1>1 DEF Notification
  <2>2. UNCHANGED meterValue
    BY <1>5 DEF MainRequest, mainVars
  <2>3. pending' = pending \/ pending' = Append(pending, Notification(TRUE, 0))
    BY <1>5 DEF MainRequest, Respond, Create, Store, cseVars
  <2> QED
    BY <1>1, <1>4, <2>1, <2>2, <2>3
<1>6. CASE Ping
  <2>1. Notification(FALSE, meterValue) \in Past(meterValue)
    BY <1>1 DEF Notification
  <2> QED
    BY <1>4, <1>6, <2>1 DEF Ping, mainVars
<1>7. CASE CallbackStarts
  BY <1>1, <1>7 DEF CallbackStarts, mainVars
<1>8. CASE Restart
  BY <1>8 DEF Restart
<1>9. CASE \/ Load("main") \/ Load("callback") \/ MainStore \/ CallbackRequest
           \/ CallbackStore \/ WebappCreatesData \/ Abort \/ UNCHANGED vars
  <2>1. UNCHANGED <<meterValue, pending>>
    BY <1>9 DEF Load, MainStore, CallbackRequest, Respond, Store, CallbackStore,
                WebappCreatesData, Abort, vars, mainVars, cseVars
  <2> QED
    BY <1>1, <2>1
<1> QED
  BY <1>3, <1>5, <1>6, <1>7, <1>8, <1>9 DEF Next, Main, Callback

\* There are two threads.
LEMMA TheOther ==
  ASSUME NEW thread \in Threads
  PROVE  \E other \in Threads : other # thread /\ Threads = {thread, other}
BY DEF Threads

\* A request that ends brings an object at an address nobody has, or none.
LEMMA RespondHeap ==
  ASSUME TypeInv, SoundHeap, NEW thread \in Threads, NEW performed,
         Respond(thread, performed), pc[thread] = "request"
  PROVE  SoundHeap'
<1> SUFFICES ASSUME ~ raced PROVE SoundHeap'
  BY DEF Respond, SoundHeap
<1>1. /\ heap = "sound" /\ live = Held /\ OneOwner /\ mine[thread] = 0
      /\ UNCHANGED <<respObj, old, heap, raced>>
  BY DEF SoundHeap, Respond
<1>2. PICK other \in Threads : other # thread /\ Threads = {thread, other}
  BY TheOther
<1>3. pc'[thread] = "load" /\ pc'[other] = pc[other]
  BY <1>2 DEF Respond, Goto, TypeInv, Typed
<1>4. \A one \in Threads :
        /\ pc'[one] = "store" =>
             old'[one] = respObj' /\ \A two \in Threads \ {one} : pc'[two] # "store"
        /\ pc'[one] \notin {"load", "store"} => one # thread /\ mine[one] = 0
  BY <1>1, <1>2, <1>3 DEF SoundHeap
<1>5. CASE UNCHANGED <<mine, live>>
  BY <1>1, <1>4, <1>5 DEF SoundHeap, Held, OneOwner
<1>6. ASSUME NEW a \in NewAddresses, mine' = [mine EXCEPT ![thread] = a],
             live' = live \cup {a}
      PROVE  SoundHeap'
  <2>1. a \notin Held /\ a # 0
    BY <1>1, AddressesAre
  <2>2. mine'[thread] = a /\ mine'[other] = mine[other]
    BY <1>2, <1>6 DEF TypeInv, Typed
  <2>3. a # respObj /\ a # mine[other]
    BY <1>2, <2>1 DEF Held
  <2>4. live' = Held'
    BY <1>1, <1>2, <1>6, <2>1, <2>2 DEF Held
  <2>5. OneOwner'
    BY <1>1, <1>2, <2>2, <2>3 DEF OneOwner
  <2> QED
    BY <1>1, <1>2, <1>4, <2>2, <2>4, <2>5 DEF SoundHeap
<1> QED
  BY <1>5, <1>6 DEF Respond

\* An assignment alone deletes the object respObj has owned.
LEMMA StoreAndDeleteHeap ==
  ASSUME TypeInv, SoundHeap, NEW thread \in Threads, StoreAndDelete(thread),
         pc'[thread] \notin {"load", "store"},
         \A other \in Threads \ {thread} : pc'[other] = pc[other]
  PROVE  SoundHeap'
<1> SUFFICES ASSUME ~ raced PROVE SoundHeap'
  BY DEF StoreAndDelete, SoundHeap
<1>1. PICK other \in Threads : other # thread /\ Threads = {thread, other}
  BY TheOther
<1>2. /\ heap = "sound" /\ live = Held /\ OneOwner /\ old[thread] = respObj
      /\ pc[other] # "store"
      /\ pc[other] \notin {"load", "store"} => mine[other] = 0
  BY <1>1 DEF SoundHeap, StoreAndDelete
<1>3. /\ mine'[thread] = 0 /\ mine'[other] = mine[other] /\ respObj' = mine[thread]
      /\ live' = live \ {respObj} /\ raced' = raced
  BY <1>1, <1>2 DEF StoreAndDelete, Owned, TypeInv, Typed
<1>4. heap' = "sound"
  BY <1>2 DEF StoreAndDelete, Held
<1>5. live' = Held'
  <2>1. live' = {mine[thread], mine[other]} \ {0, respObj}
    BY <1>1, <1>2, <1>3 DEF Held
  <2>2. /\ mine[thread] # 0 => mine[thread] # respObj
        /\ mine[other] # 0 => mine[other] # respObj
    BY <1>1, <1>2 DEF OneOwner
  <2>3. Held' = {mine[thread], mine[other]} \ {0}
    BY <1>1, <1>3 DEF Held
  <2> QED
    BY <2>1, <2>2, <2>3
<1>6. OneOwner'
  BY <1>1, <1>2, <1>3 DEF OneOwner
<1> QED
  BY <1>1, <1>2, <1>3, <1>4, <1>5, <1>6 DEF SoundHeap

LEMMA HeapStep == TypeInv /\ SoundHeap /\ [Next]_vars => SoundHeap'
<1> SUFFICES ASSUME TypeInv, SoundHeap, [Next]_vars PROVE SoundHeap'
  OBVIOUS
<1>0. /\ Threads = {"main", "callback"} /\ pc \in [Threads -> Places]
      /\ mine \in [Threads -> Nat] /\ old \in [Threads -> Nat]
  BY DEF Threads, TypeInv, Typed
<1>1. CASE MainRequest
  BY <1>0, <1>1, RespondHeap DEF MainRequest
<1>2. CASE CallbackRequest
  BY <1>0, <1>2, RespondHeap DEF CallbackRequest
<1>3. ASSUME NEW thread \in Threads, Load(thread) PROVE SoundHeap'
  <2>1. PICK other \in Threads : other # thread /\ Threads = {thread, other}
    BY TheOther
  <2>2. /\ raced' = (raced \/ pc[other] = "store") /\ UNCHANGED <<respObj, mine, live, heap>>
        /\ old'[thread] = respObj /\ old'[other] = old[other]
        /\ pc[thread] = "load" /\ pc'[thread] = "store" /\ pc'[other] = pc[other]
    BY <1>0, <1>3, <2>1 DEF Load, Goto
  <2>3. Held' = Held /\ (OneOwner' <=> OneOwner)
    BY <2>2 DEF Held, OneOwner
  <2> QED
    BY <2>1, <2>2, <2>3 DEF SoundHeap
<1>4. CASE MainStore
  <2>1. StoreAndDelete("main")
    BY <1>4 DEF MainStore
  <2>2. pc'["callback"] = pc["callback"] /\ pc'["main"] \in {"update", "request", "finished"}
    BY <1>0, <1>4 DEF MainStore, Goto, Before
  <2> QED
    BY <1>0, <2>1, <2>2, StoreAndDeleteHeap
<1>5. CASE CallbackStore
  <2>1. StoreAndDelete("callback")
    BY <1>5 DEF CallbackStore
  <2>2. pc'["main"] = pc["main"] /\ pc'["callback"] = "idle"
    BY <1>0, <1>5 DEF CallbackStore, Goto
  <2> QED
    BY <1>0, <2>1, <2>2, StoreAndDeleteHeap
<1>6. CASE MainUpdate \/ CallbackStarts
  <2>1. UNCHANGED <<respObj, mine, old, live, heap, raced>>
    BY <1>6 DEF MainUpdate, CallbackStarts, objVars
  <2>2. \A one \in Threads :
          \/ pc'[one] = pc[one]
          \/ pc[one] \in {"update", "idle"} /\ pc'[one] = "request"
    BY <1>0, <1>6 DEF MainUpdate, CallbackStarts, Goto
  <2>3. Held' = Held /\ (OneOwner' <=> OneOwner)
    BY <2>1 DEF Held, OneOwner
  <2> QED
    BY <2>1, <2>2, <2>3 DEF SoundHeap
<1>7. CASE Restart
  BY <1>7 DEF Restart, SoundHeap, Held, OneOwner
<1>8. CASE Abort
  BY <1>8 DEF Abort, SoundHeap, objVars
<1>9. CASE WebappCreatesData \/ Ping \/ UNCHANGED vars
  <2>1. UNCHANGED <<pc, respObj, mine, old, live, heap, raced>>
    BY <1>9 DEF WebappCreatesData, Ping, vars, objVars
  <2> QED
    BY <2>1 DEF SoundHeap, Held, OneOwner
<1> QED
  BY <1>0, <1>1, <1>2, <1>3, <1>4, <1>5, <1>6, <1>7, <1>8, <1>9 DEF Next, Main, Callback

LEMMA CountStep ==
  TypeInv /\ ReportsAreCounted /\ [Next]_vars => ReportsAreCounted'
<1> SUFFICES ASSUME TypeInv, ReportsAreCounted, [Next]_vars PROVE ReportsAreCounted'
  OBVIOUS
<1>0. /\ step \in Nat \ {0} /\ step <= LastStep /\ LastStep \in Nat /\ reports \in Nat
      /\ pc \in [Threads -> Places] /\ "main" \in Threads /\ boots \in Nat
  BY CountIsNat, ConstantsAssumption DEF TypeInv, TypeOK, Typed, Threads
<1>1. CASE MainUpdate
  <2>1. /\ pc["main"] = "update" /\ pc'["main"] = "request" /\ reports' = reports + 1
        /\ UNCHANGED <<step, boots>>
    BY <1>0, <1>1 DEF MainUpdate, Goto
  <2>2. ReportsBefore(step) \in Nat
    BY <1>0 DEF ReportsBefore
  <2> QED
    BY <1>0, <2>1, <2>2 DEF ReportsAreCounted, Op
<1>2. CASE MainStore
  <2>1. pc["main"] = "store" /\ UNCHANGED <<reports, boots>>
    BY <1>2 DEF MainStore, StoreAndDelete
  <2>2. CASE More(step) /\ step' = step + 1 /\ Goto("main", Before(step + 1))
    <3>1. pc'["main"] = Before(step + 1)
      BY <1>0, <2>2 DEF Goto
    <3>2. Before(step + 1) = IF Op(step + 1) = "reading" THEN "update" ELSE "request"
      BY DEF Before
    <3>3. /\ Op(step) = "reading" <=> step = 8 \/ step >= 10
          /\ Op(step + 1) = "reading" <=> step + 1 = 8 \/ step + 1 >= 10
      BY <1>0, OpIsReading
    <3>4. Op(step)' = Op(step + 1) /\ step' = step + 1
      BY <2>2 DEF Op
    <3> QED
      BY <1>0, <2>1, <3>1, <3>2, <3>3, <3>4 DEF ReportsAreCounted, ReportsBefore
  <2>3. CASE UNCHANGED step /\ ~ More(step) /\ Goto("main", "finished")
    <3>1. pc'["main"] = "finished" /\ ~ More(step)
      BY <1>0, <2>3 DEF Goto
    <3>2. ~ More(step) => step = LastStep
      BY <1>0 DEF More
    <3>3. UNCHANGED LastStep
      OBVIOUS
    <3> QED
      BY <1>0, <2>1, <2>3, <3>1, <3>2, <3>3 DEF ReportsAreCounted, ReportsBefore, Op
  <2> QED
    BY <1>2, <2>2, <2>3 DEF MainStore
<1>3. CASE MainRequest \/ Load("main")
  <2>1. /\ pc["main"] \in {"request", "load"} /\ pc'["main"] \in {"load", "store"}
        /\ UNCHANGED <<step, reports, boots>>
    BY <1>0, <1>3 DEF MainRequest, Respond, Load, Goto, mainVars
  <2> QED
    BY <2>1 DEF ReportsAreCounted, ReportsBefore, Op
<1>4. CASE Callback
  <2>1. UNCHANGED <<step, reports, boots>>
    BY <1>4 DEF Callback, CallbackStarts, CallbackRequest, Load, CallbackStore, mainVars
  <2>2. pc'["main"] = pc["main"]
    <3>1. CASE CallbackStarts
      BY <1>0, <3>1 DEF CallbackStarts, Goto
    <3>2. CASE CallbackRequest
      BY <1>0, <3>2 DEF CallbackRequest, Respond, Goto
    <3>3. CASE Load("callback")
      BY <1>0, <3>3 DEF Load, Goto
    <3>4. CASE CallbackStore
      BY <1>0, <3>4 DEF CallbackStore, Goto
    <3> QED
      BY <1>4, <3>1, <3>2, <3>3, <3>4 DEF Callback
  <2> QED
    BY <2>1, <2>2 DEF ReportsAreCounted, ReportsBefore, Op
<1>5. CASE Restart
  <2>1. boots' # 0 /\ pc'["main"] = "request"
    BY <1>0, <1>5 DEF Restart
  <2> QED
    BY <2>1 DEF ReportsAreCounted
<1>6. CASE WebappCreatesData \/ Ping \/ UNCHANGED vars
  <2>1. UNCHANGED <<pc, step, reports, boots>>
    BY <1>6 DEF WebappCreatesData, Ping, vars, mainVars
  <2> QED
    BY <2>1 DEF ReportsAreCounted, ReportsBefore, Op
<1>7. CASE Abort
  <2>1. pc'["main"] = "aborted"
    BY <1>0, <1>7 DEF Abort, Goto
  <2> QED
    BY <2>1 DEF ReportsAreCounted
<1> QED
  BY <1>1, <1>2, <1>3, <1>4, <1>5, <1>6, <1>7 DEF Next, Main

THEOREM Invariance == Spec => []Inv
<1>1. Inv /\ [Next]_vars => Inv'
  BY TypeStep, PastStep, HeapStep, CountStep DEF Inv
<1> QED
  BY InitInv, <1>1, PTL DEF Spec

\* Every variable keeps its type, for any number of pings, errors and restarts.
THEOREM TypeCorrect == Spec => []TypeOK
<1>1. Inv => TypeOK
  BY DEF Inv, TypeInv
<1> QED
  BY Invariance, <1>1, PTL

\* As long as no two assignments to respObj have overlapped, no object is
\* deleted twice or used after, and none is lost, though the two threads take
\* turns with no lock, addresses are used again and requests end in errors.
THEOREM OnlyRacesBreakIt == Spec => []OnlyRacesBreakTheHeap
<1>1. Inv => OnlyRacesBreakTheHeap
  BY DEF Inv, SoundHeap, OnlyRacesBreakTheHeap
<1> QED
  BY Invariance, <1>1, PTL

\* A reply is no older than its ping, for any number of pings.
THEOREM RepliesAreFresh == Spec => []ReplyIsFresh
<1>1. Inv => ReplyIsFresh
  <2> SUFFICES ASSUME Inv, NEW container \in Containers, NEW i \in DOMAIN data[container],
                      IsReply(data[container][i])
               PROVE  data[container][i].kWH >= data[container][i].asked
    BY DEF ReplyIsFresh
  <2>1. data[container] \in Seq(Items)
    BY DEF Inv, TypeInv, Typed
  <2>2. data[container][i] \in Items
    BY <2>1
  <2>3. ~ (data[container][i] \in Readings)
    BY DEF IsReply, Readings
  <2> QED
    BY <2>2, <2>3 DEF Items, FreshReplies
<1> QED
  BY Invariance, <1>1, PTL

\* The number of reports is the one the time to run and the delay ask for,
\* when the one divides the other too.
THEOREM RuntimeIsCovered == Spec => []ReportsCoverRuntime
<1>1. Inv => ReportsCoverRuntime
  <2> SUFFICES ASSUME Inv, pc["main"] = "finished", boots = 0
               PROVE  /\ (reports - 1) * secondsToDelay > 60 * runtime
                      /\ (reports - 2) * secondsToDelay <= 60 * runtime
    BY DEF ReportsCoverRuntime, Inv, TypeInv, Typed
  <2>1. step = 9 + countCalc /\ countCalc \in Nat
    BY CountIsNat DEF Inv, ReportsAreCounted
  <2>2. DEFINE whole == (60 * runtime) \div secondsToDelay
  <2>3. whole \in Nat /\ countCalc = whole + 1
    BY ConstantsAssumption DEF countCalc
  <2>4. Op(step) = "reading"
    BY <2>1, <2>3, OpIsReading
  <2>5. reports = whole + 2
    BY <2>1, <2>3, <2>4 DEF Inv, ReportsAreCounted, ReportsBefore
  <2>6. (whole + 1) * secondsToDelay > 60 * runtime /\ whole * secondsToDelay <= 60 * runtime
    BY ConstantsAssumption
  <2> QED
    BY <2>3, <2>5, <2>6
<1> QED
  BY Invariance, <1>1, PTL

-----------------------------------------------------------------------------
(***************************************************************************)
(* The meter implements MeterFeed.                                         *)
(***************************************************************************)

\* A reading main is about to post is the meter's, and newer than all that were
\* stored: the callback posts other things.
PostsAreNew ==
  /\ pc["main"] = "request" /\ Op(step) = "reading" =>
       reading["main"] = Report(boots, reports, meterValue)
  /\ \A i \in DOMAIN data[contName] : data[contName][i] \in Readings =>
       /\ data[contName][i].report <= reports
       /\ pc["main"] = "request" /\ Op(step) = "reading" =>
            data[contName][i].report < reports
  /\ pc["callback"] = "request" => reading["callback"] \in FreshReplies

LEMMA RepliesAreNoReadings == FreshReplies \cap Readings = {}
BY DEF FreshReplies, Readings

\* What the container of the readings holds after one more item.
LEMMA StoreAppends ==
  ASSUME TypeInv, NEW container \in Containers, NEW it \in Items, Store(container, it)
  PROVE  \/ UNCHANGED data
         \/ container # contName /\ data'[contName] = data[contName]
         \/ container = contName /\ data'[contName] = Append(data[contName], it)
BY DEF TypeInv, Typed, Store, Containers

LEMMA PostsStep ==
  Inv /\ Inv' /\ PostsAreNew /\ [Next]_vars => PostsAreNew'
<1> SUFFICES ASSUME Inv, Inv', PostsAreNew, [Next]_vars PROVE PostsAreNew'
  OBVIOUS
<1> DEFINE stored == data[contName]
           posting == pc["main"] = "request" /\ Op(step) = "reading"
<1>0. /\ Threads = {"main", "callback"} /\ pc \in [Threads -> Places] /\ reports \in Nat
      /\ reading \in [Threads -> Items] /\ contName \in Containers /\ "DATA" \in Containers
      /\ stored \in Seq(Items) /\ stored' \in Seq(Items) /\ TypeInv
  BY DEF Inv, TypeInv, Typed, Threads, Containers
<1>1. /\ posting => reading["main"] = Report(boots, reports, meterValue)
      /\ \A i \in DOMAIN stored : stored[i] \in Readings =>
           stored[i].report <= reports /\ (posting => stored[i].report < reports)
      /\ pc["callback"] = "request" => reading["callback"] \in FreshReplies
  BY DEF PostsAreNew
<1>2. SUFFICES
        /\ posting' => reading'["main"] = Report(boots', reports', meterValue')
        /\ \A i \in DOMAIN stored' : stored'[i] \in Readings =>
             stored'[i].report <= reports' /\ (posting' => stored'[i].report < reports')
        /\ pc'["callback"] = "request" => reading'["callback"] \in FreshReplies
  BY DEF PostsAreNew
<1>3. ASSUME NEW it \in Items, stored' = Append(stored, it)
      PROVE  \A i \in DOMAIN stored' : stored'[i] = it \/ (i \in DOMAIN stored /\ stored'[i] = stored[i])
  BY <1>0, <1>3
<1>4. CASE MainUpdate
  <2>1. /\ reading' = [reading EXCEPT !["main"] = Report(boots, reports', meterValue')]
        /\ reports' = reports + 1 /\ boots' = boots /\ stored' = stored
        /\ pc'["callback"] = pc["callback"]
    BY <1>0, <1>4 DEF MainUpdate, Goto, cseVars
  <2>2. \A i \in DOMAIN stored : stored[i] \in Readings =>
          stored[i].report <= reports' /\ stored[i].report < reports'
    <3>1. ASSUME NEW i \in DOMAIN stored, stored[i] \in Readings PROVE stored[i].report \in Nat
      BY <3>1 DEF Readings
    <3> QED
      BY <1>0, <1>1, <2>1, <3>1
  <2>3. /\ reading'["main"] = Report(boots', reports', meterValue')
        /\ reading'["callback"] = reading["callback"]
    BY <1>0, <2>1
  <2> HIDE DEF stored, posting
  <2> QED
    BY <1>0, <1>1, <2>1, <2>2, <2>3
<1>5. CASE MainRequest
  <2>1. /\ ~ posting' /\ pc'["callback"] = pc["callback"] /\ pc["main"] = "request"
        /\ UNCHANGED <<mainVars, reading, boots>>
    BY <1>0, <1>5 DEF MainRequest, Respond, Goto
  <2>2. \/ stored' = stored
        \/ posting /\ stored' = Append(stored, reading["main"])
    <3>1. CASE Op(step) = "reading"
      <4>1. Store(contName, reading["main"]) \/ UNCHANGED cseVars
        BY <1>5, <3>1 DEF MainRequest, Respond
      <4> QED
        BY <1>0, <2>1, <3>1, <4>1, StoreAppends DEF cseVars
    <3>2. CASE Op(step) # "reading"
      BY <1>5, <3>2 DEF MainRequest, Respond, Create, cseVars
    <3> QED
      BY <3>1, <3>2
  <2>3. CASE stored' = stored
    <3> HIDE DEF stored, posting
    <3> QED
      BY <1>1, <2>1, <2>3 DEF mainVars
  <2>4. CASE posting /\ stored' = Append(stored, reading["main"])
    <3>1. reading["main"] = Report(boots, reports, meterValue) /\ reading["main"] \in Items
      BY <1>0, <1>1, <2>4
    <3>2. reading["main"].report = reports
      BY <3>1 DEF Report
    <3>3. reports <= reports
      BY <1>0
    <3>4. \A i \in DOMAIN stored' : stored'[i] = reading["main"]
                                    \/ (i \in DOMAIN stored /\ stored'[i] = stored[i])
      BY <1>3, <2>4, <3>1
    <3> HIDE DEF stored, posting
    <3> QED
      BY <1>1, <2>1, <3>2, <3>3, <3>4 DEF mainVars
  <2> QED
    BY <2>2, <2>3, <2>4
<1>6. CASE CallbackRequest
  <2>1. /\ pc'["callback"] = "load" /\ pc'["main"] = pc["main"] /\ pc["callback"] = "request"
        /\ UNCHANGED <<mainVars, reading, boots>>
    BY <1>0, <1>6 DEF CallbackRequest, Respond, Goto
  <2>2. posting' <=> posting
    BY <2>1 DEF mainVars, Op
  <2>3. stored' = stored \/ stored' = Append(stored, reading["callback"])
    <3>1. Store("DATA", reading["callback"]) \/ UNCHANGED cseVars
      BY <1>6 DEF CallbackRequest, Respond
    <3> QED
      BY <1>0, <3>1, StoreAppends DEF cseVars
  <2>4. reading["callback"] \in Items /\ reading["callback"] \notin Readings
    BY <1>0, <1>1, <2>1, RepliesAreNoReadings
  <2>5. \A i \in DOMAIN stored' : stored'[i] \in Readings =>
          i \in DOMAIN stored /\ stored'[i] = stored[i]
    BY <1>3, <2>3, <2>4
  <2> HIDE DEF stored, posting
  <2> QED
    BY <1>1, <2>1, <2>2, <2>5 DEF mainVars
<1>7. CASE CallbackStarts
  <2>1. /\ pc'["main"] = pc["main"] /\ reading'["main"] = reading["main"] /\ stored' = stored
        /\ UNCHANGED <<mainVars, boots>>
    BY <1>0, <1>7 DEF CallbackStarts, Goto
  <2>2. pc'["callback"] = "request" => reading'["callback"] \in FreshReplies
    <3>1. CASE UNCHANGED <<pc, reading>>
      BY <1>1, <3>1
    <3>2. CASE reading' = [reading EXCEPT !["callback"] =
                             Reply(boots, Head(pending).asked, Answer)]
      <4>1. Head(pending).asked \in Nat /\ Head(pending).asked <= meterValue
        BY <1>7 DEF CallbackStarts, Inv, PingsArePast
      <4>2. boots \in Nat /\ meterValue \in Nat
        BY ConstantsAssumption DEF Inv, TypeInv, TypeOK
      <4> QED
        BY <1>0, <3>2, <4>1, <4>2, ItemsAre DEF Answer
    <3> QED
      BY <1>7, <3>1, <3>2 DEF CallbackStarts
  <2>3. posting' <=> posting
    BY <2>1 DEF mainVars, Op
  <2> HIDE DEF stored, posting
  <2> QED
    BY <1>1, <2>1, <2>2, <2>3 DEF mainVars
<1>8. ASSUME UNCHANGED <<reading, data, reports, boots, meterValue>>,
             posting' => posting, pc'["callback"] \in {pc["callback"], "idle", "load", "store"}
      PROVE  PostsAreNew'
  BY <1>1, <1>8 DEF PostsAreNew
<1>9. CASE Load("main") \/ Load("callback")
  <2>1. /\ pc'["main"] \in {pc["main"], "store"}
        /\ pc'["callback"] \in {pc["callback"], "store"}
    BY <1>0, <1>9 DEF Load, Goto
  <2>2. UNCHANGED <<mainVars, reading, data, boots>>
    BY <1>9 DEF Load, cseVars
  <2>3. posting' => posting
    BY <2>1, <2>2 DEF mainVars, Op
  <2> QED
    BY <1>8, <2>1, <2>2, <2>3 DEF mainVars, PostsAreNew
<1>10. CASE MainStore
  <2>1. UNCHANGED <<meterValue, reports, reading, data, boots>>
    BY <1>10 DEF MainStore, cseVars
  <2>2. pc'["callback"] = pc["callback"]
    BY <1>0, <1>10 DEF MainStore, Goto
  <2>3. ~ posting'
    <3>1. CASE step' = step + 1 /\ Goto("main", Before(step + 1))
      BY <1>0, <3>1 DEF Goto, Before, Op
    <3>2. CASE Goto("main", "finished")
      BY <1>0, <3>2 DEF Goto
    <3> QED
      BY <1>10, <3>1, <3>2 DEF MainStore
  <2> QED
    BY <1>8, <2>1, <2>2, <2>3 DEF PostsAreNew
<1>11. CASE CallbackStore
  <2>1. UNCHANGED <<mainVars, reading, data, boots>>
    BY <1>11 DEF CallbackStore, cseVars
  <2>2. pc'["main"] = pc["main"] /\ pc'["callback"] = "idle"
    BY <1>0, <1>11 DEF CallbackStore, Goto
  <2>3. posting' => posting
    BY <2>1, <2>2 DEF mainVars, Op
  <2> QED
    BY <1>8, <2>1, <2>2, <2>3 DEF mainVars, PostsAreNew
<1>12. CASE WebappCreatesData \/ Ping \/ UNCHANGED vars
  <2>1. UNCHANGED <<pc, step, reading, data, reports, boots, meterValue>>
    BY <1>12 DEF WebappCreatesData, Ping, vars, mainVars, cseVars
  <2>2. posting' => posting
    BY <2>1 DEF Op
  <2> QED
    BY <1>8, <2>1, <2>2 DEF PostsAreNew
<1>13. CASE Restart
  <2>1. /\ pc'["main"] = "request" /\ pc'["callback"] = "idle" /\ step' = 1
        /\ UNCHANGED <<reports, data>>
    BY <1>0, <1>13 DEF Restart
  <2>2. ~ posting'
    BY <2>1, OpIsReading DEF Op
  <2> HIDE DEF posting
  <2> QED
    BY <1>1, <2>1, <2>2
<1>14. CASE Abort
  <2>1. /\ pc'["main"] = "aborted" /\ pc'["callback"] = pc["callback"]
        /\ UNCHANGED <<mainVars, reading, data, boots>>
    BY <1>0, <1>14 DEF Abort, Goto, cseVars
  <2>2. ~ posting'
    BY <2>1
  <2> QED
    BY <1>8, <2>1, <2>2 DEF mainVars, PostsAreNew
<1> QED
  BY <1>4, <1>5, <1>6, <1>7, <1>9, <1>10, <1>11, <1>12, <1>13, <1>14 DEF Next, Main, Callback

\* Every step is a step of the abstract feed or leaves it alone: the request
\* of main is its Store, the one of the callback puts a stranger into DATA.
LEMMA FeedStep ==
  ASSUME Inv, PostsAreNew, [Next]_vars
  PROVE  Feed!Next \/ UNCHANGED Feed!feedVars
<1> DEFINE latest == Report(boots, reports, meterValue)
           stored == data[contName]
<1>0. /\ Threads = {"main", "callback"} /\ reports \in Nat /\ boots \in Nat /\ meterValue \in Nat
      /\ reading \in [Threads -> Items] /\ contName \in Containers /\ "DATA" \in Containers
      /\ stored \in Seq(Items) /\ TypeInv
  BY ConstantsAssumption DEF Inv, TypeInv, TypeOK, Typed, Threads, Containers
<1>1. UNCHANGED <<boots, reports, meterValue, data>> => UNCHANGED Feed!feedVars
  BY DEF Feed!feedVars, Report
<1>2. CASE MainUpdate
  <2>1. PICK increment \in Increments : meterValue' = meterValue + increment
    BY <1>2 DEF MainUpdate, Update
  <2>2. meterValue' \in Nat /\ meterValue' >= meterValue
    BY <1>0, <2>1, ConstantsAssumption
  <2>3. reports' = reports + 1 /\ boots' = boots /\ data' = data
    BY <1>2 DEF MainUpdate, cseVars
  <2> QED
    BY <2>2, <2>3 DEF Feed!Next, Feed!Take, Report
<1>3. CASE MainRequest
  <2>1. UNCHANGED <<boots, reports, meterValue>>
    BY <1>3 DEF MainRequest, mainVars
  <2>2. CASE Op(step) = "reading"
    <3>1. pc["main"] = "request"
      BY <1>3 DEF MainRequest
    <3>2. /\ reading["main"] = latest /\ latest \in Items
          /\ \A i \in DOMAIN stored : stored[i] \in Readings => stored[i].report < reports
      BY <1>0, <2>2, <3>1 DEF PostsAreNew
    <3>3. {i \in DOMAIN stored : stored[i] = latest} = {}
      <4>1. latest \in Readings /\ latest.report = reports /\ ~ (reports < reports)
        BY <1>0, ItemsAre DEF Report
      <4> HIDE DEF latest, stored
      <4> QED
        BY <3>2, <4>1
    <3>4. Feed!CopiesOf(latest) < 1
      <4>1. Feed!CopiesOf(latest) = Cardinality({i \in DOMAIN stored : stored[i] = latest})
        BY DEF Feed!CopiesOf, Feed!Cardinality, Cardinality
      <4> QED
        BY <3>3, <4>1, FS_EmptySet
    <3>5. Store(contName, reading["main"]) \/ UNCHANGED cseVars
      BY <1>3, <2>2 DEF MainRequest, Respond
    <3>6. UNCHANGED data \/ stored' = Append(stored, latest)
      BY <1>0, <3>2, <3>5, StoreAppends DEF cseVars
    <3>7. CASE stored' = Append(stored, latest)
      BY <2>1, <3>4, <3>7 DEF Feed!Next, Feed!Store, Report
    <3> QED
      BY <1>1, <2>1, <3>6, <3>7
  <2>3. CASE Op(step) # "reading"
    <3>1. UNCHANGED data
      BY <1>3, <2>3 DEF MainRequest, Respond, Create, cseVars
    <3> QED
      BY <1>1, <2>1, <3>1
  <2> QED
    BY <2>2, <2>3
<1>4. CASE CallbackRequest
  <2>1. UNCHANGED <<boots, reports, meterValue>>
    BY <1>4 DEF CallbackRequest, mainVars
  <2>2. reading["callback"] \in FreshReplies /\ reading["callback"] \in Items
    BY <1>0, <1>4 DEF CallbackRequest, PostsAreNew
  <2>3. Store("DATA", reading["callback"]) \/ UNCHANGED cseVars
    BY <1>4 DEF CallbackRequest, Respond
  <2>4. \/ stored' = stored
        \/ "DATA" = contName /\ stored' = Append(stored, reading["callback"])
    BY <1>0, <2>2, <2>3, StoreAppends DEF cseVars
  <2>5. CASE stored' = stored
    BY <2>1, <2>5 DEF Feed!feedVars, Report
  <2>6. CASE "DATA" = contName /\ stored' = Append(stored, reading["callback"])
    <3>1. stored' # <<>> /\ stored'[Len(stored')] = reading["callback"]
      BY <1>0, <2>2, <2>6
    <3>2. reading["callback"] \in [boot : Nat, asked : Nat, kWH : Nat]
      BY <2>2 DEF FreshReplies
    <3>3. latest' = latest
      BY <2>1 DEF Report
    <3> QED
      BY <2>6, <3>1, <3>2, <3>3 DEF Feed!Next, Feed!Intrude
  <2> QED
    BY <2>4, <2>5, <2>6
<1>5. CASE Restart
  BY <1>5 DEF Restart, Feed!Next, Feed!Restart, Report
<1>6. CASE \/ Load("main") \/ Load("callback") \/ MainStore \/ CallbackStarts \/ CallbackStore
           \/ WebappCreatesData \/ Ping \/ Abort \/ UNCHANGED vars
  <2>1. UNCHANGED <<boots, reports, meterValue, data>>
    BY <1>6 DEF Load, MainStore, CallbackStarts, CallbackStore, WebappCreatesData, Ping, Abort,
                vars, mainVars, cseVars
  <2> QED
    BY <1>1, <2>1
<1> QED
  BY <1>2, <1>3, <1>4, <1>5, <1>6 DEF Next, Main, Callback

\* The meter's container is the feed MeterFeed promises, each reading in it
\* once at most, for every container, any number of pings, errors and restarts
\* and whatever the callback thread posts meanwhile.
THEOREM ImplementsFeed == Spec => FeedSpec
<1>1. Init => Feed!Init
  BY DEF Init, Feed!Init, Report, Containers
<1>2. Init => PostsAreNew
  <2> SUFFICES ASSUME Init PROVE PostsAreNew
    OBVIOUS
  <2>1. pc["main"] = "request" /\ pc["callback"] = "idle" /\ step = 1 /\ data[contName] = <<>>
    BY DEF Init, Threads, Containers
  <2>2. Op(step) # "reading"
    BY <2>1, OpIsReading
  <2> QED
    BY <2>1, <2>2 DEF PostsAreNew
<1>3. Inv /\ PostsAreNew /\ [Next]_vars => [Feed!Next]_(Feed!feedVars)
  BY FeedStep
<1> QED
  BY <1>1, <1>2, <1>3, PostsStep, Invariance, PTL DEF Spec, FeedSpec, Feed!Spec

=============================================================================
