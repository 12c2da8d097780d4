-------------------------- MODULE WebappStoreProofs --------------------------
(***************************************************************************)
(* Proofs about WebappStore: what the data files hold, for any number of   *)
(* meters, notifications, overlapping handlers, kills and errors.          *)
(***************************************************************************)
EXTENDS WebappStore, FiniteSetTheorems, SequenceTheorems, TLAPS

\* A handler's state that is set is a handler's state.
LEMMA AtType ==
  /\ \A phase \in Phases, entries \in Seq(Notifications) :
       At(phase, entries) \in Handler /\ At(phase, entries).phase = phase
                                      /\ At(phase, entries).entries = entries
  /\ New \in Handler /\ Reading \in Handler /\ Done \in Handler /\ Missed \in Handler
  /\ \A phase \in Phases : GivenUp(phase) \in Handler
                            /\ GivenUp(phase).phase = IF phase = "writing" THEN "cut" ELSE "lost"
  /\ New.phase = "new" /\ Reading.phase = "reading" /\ Done.phase = "done"
  /\ Missed.phase = "missed"
BY EmptySeq DEF At, Handler, Phases, New, Reading, Done, Missed, GivenUp

\* An array of one reading.
LEMMA SingleType == \A n \in Notifications : <<n>> \in Seq(Notifications)
OBVIOUS

\* What is put into a file is a file's contents.
LEMMA FileType ==
  /\ NoFile \in File
  /\ \A entries \in Seq(Notifications) : Text(entries) \in File
  /\ \A size \in Nat : Garbled(size) \in File
BY EmptySeq, LenProperties DEF NoFile, Text, Garbled, File

\* A pushed reading comes after the old ones.
LEMMA PushedType ==
  ASSUME NEW entries \in Seq(Notifications), NEW n \in Notifications
  PROVE  /\ Pushed(entries, n) \in Seq(Notifications)
         /\ Len(Pushed(entries, n)) = Len(entries) + 1
         /\ \A i \in 1..Len(entries) : Pushed(entries, n)[i] = entries[i]
         /\ Pushed(entries, n)[Len(entries) + 1] = n
BY AppendProperties DEF Pushed

\* The end of the process loses what is under way and leaves the rest.
LEMMA DieType ==
  ASSUME ConstantsAssumption, TypeOK, Die
  PROVE  /\ handler' \in [Notifications -> Handler]
         /\ \A n \in Notifications :
              \/ handler'[n] = handler[n]
              \/ n \in UnderWay(MeterOf[n]) /\ handler'[n] = GivenUp(handler[n].phase)
         /\ \A n \in Notifications :
              handler'[n] # handler[n] => handler'[n].phase \in {"lost", "cut"}
<1>1. \A n \in Notifications : GivenUp(handler[n].phase) \in Handler
        /\ GivenUp(handler[n].phase).phase \in {"lost", "cut"}
  BY AtType DEF TypeOK, Handler
<1> QED
  BY <1>1 DEF TypeOK, Die

\* Who is given up is lost or cut.
LEMMA GivenUpType ==
  ASSUME TypeOK
  PROVE  \A n \in Notifications : GivenUp(handler[n].phase).phase \in {"lost", "cut"}
BY AtType DEF TypeOK, Handler

\* The initial state has its type.
LEMMA TypeInit == ASSUME ConstantsAssumption, Init PROVE TypeOK
BY AtType, FileType DEF ConstantsAssumption, Init, TypeOK

\* Every step keeps it.
LEMMA TypeStep ==
  ASSUME ConstantsAssumption, TypeOK, [Next]_vars
  PROVE  TypeOK'
<1> USE DEF ConstantsAssumption
<1>1. CASE UNCHANGED vars
  BY <1>1 DEF vars, TypeOK
<1>2. ASSUME NEW n \in Notifications, Monitor(n)
      PROVE  TypeOK'
  <2>1. At("opening", <<n>>) \in Handler
    BY AtType, SingleType DEF Phases
  <2> QED
    <3>1. handler' \in [Notifications -> Handler]
      BY <1>2, <2>1, AtType DEF Monitor, Set, TypeOK
    <3>2. crossed' \subseteq Notifications /\ saving' \subseteq Notifications
      BY <1>2 DEF Monitor, UnderWay, TypeOK
    <3> QED
      BY <1>2, <3>1, <3>2 DEF Monitor, TypeOK
<1>3. ASSUME NEW n \in Notifications, MonitorMissed(n)
      PROVE  TypeOK'
  BY <1>3, AtType DEF MonitorMissed, Set, TypeOK
<1>4. ASSUME NEW n \in Notifications, DatabaseSaved(n)
      PROVE  TypeOK'
  BY <1>4 DEF DatabaseSaved, Fails, TypeOK
<1>5. ASSUME NEW n \in Notifications, ReadFile(n)
      PROVE  TypeOK'
  <2> DEFINE read == file[MeterOf[n]]
  <2>1. read.entries \in Seq(Notifications)
    BY DEF TypeOK, File
  <2>2. At("opening", Pushed(read.entries, n)) \in Handler
    BY <2>1, PushedType, AtType DEF Phases
  <2>3. CASE Set(n, At("opening", Pushed(read.entries, n))) /\ UNCHANGED <<running, saving, ioErrors>>
    BY <1>5, <2>2, <2>3 DEF ReadFile, Set, TypeOK
  <2>4. CASE Die /\ (UNCHANGED ioErrors \/ Fails)
    <3>1. handler' \in [Notifications -> Handler]
      BY <2>4, DieType
    <3>2. running' \in BOOLEAN /\ saving' = {}
      BY <2>4 DEF Die
    <3> QED
      BY <1>5, <2>4, <3>1, <3>2 DEF ReadFile, Fails, TypeOK
  <2> QED
    BY <1>5, <2>3, <2>4 DEF ReadFile
<1>g. \A n \in Notifications : GivenUp(handler[n].phase) \in Handler
  BY AtType DEF TypeOK, Handler
<1>6. ASSUME NEW n \in Notifications, OpenFile(n)
      PROVE  TypeOK'
  <2>1. handler[n].entries \in Seq(Notifications) /\ Garbled(0) \in File
    BY FileType DEF TypeOK, Handler
  <2>2. At("writing", handler[n].entries) \in Handler
    BY <2>1, AtType DEF Phases
  <2> QED
    <3>1. handler' \in [Notifications -> Handler]
      BY <1>6, <1>g, <2>2 DEF OpenFile, Set, TypeOK
    <3>2. file' \in [Meters -> File] /\ ioErrors' \in 0..IoErrors
      BY <1>6, <2>1 DEF OpenFile, Fails, TypeOK
    <3> QED
      BY <1>6, <3>1, <3>2 DEF OpenFile, TypeOK
<1>7. ASSUME NEW n \in Notifications, WriteFile(n)
      PROVE  TypeOK'
  <2>1. handler[n].entries \in Seq(Notifications) /\ file[MeterOf[n]].size \in Nat
    BY DEF TypeOK, Handler, File
  <2>2. Text(handler[n].entries) \in File /\ Garbled(file[MeterOf[n]].size) \in File
    BY <2>1, FileType
  <2> QED
    BY <1>7, <1>g, <2>2, AtType DEF WriteFile, Fails, Set, TypeOK
<1>8. CASE Kill
  <2>1. handler' \in [Notifications -> Handler]
    BY <1>8, DieType DEF Kill
  <2>2. running' \in BOOLEAN /\ saving' = {}
    BY <1>8 DEF Kill, Die
  <2> QED
    BY <1>8, <2>1, <2>2 DEF Kill, TypeOK
<1>9. CASE Restart
  BY <1>9 DEF Restart, TypeOK
<1>10. ASSUME NEW meter \in Meters, Download(meter)
       PROVE  TypeOK'
  <2>1. CASE UNCHANGED <<running, handler, saving, ioErrors>>
    BY <1>10, <2>1 DEF Download, TypeOK
  <2>2. CASE Die /\ (UNCHANGED ioErrors \/ Fails)
    <3>1. handler' \in [Notifications -> Handler]
      BY <2>2, DieType
    <3>2. running' \in BOOLEAN /\ saving' = {}
      BY <2>2 DEF Die
    <3> QED
      BY <1>10, <2>2, <3>1, <3>2 DEF Download, Fails, TypeOK
  <2> QED
    BY <1>10, <2>1, <2>2 DEF Download
<1> QED
  BY <1>1, <1>2, <1>3, <1>4, <1>5, <1>6, <1>7, <1>8, <1>9, <1>10 DEF Next, Handle

\* A notification that has got as far as an array stays that far.
LEMMA RecordedKept ==
  ASSUME ConstantsAssumption, TypeOK, Next, NEW k \in Notifications, Recorded(k)
  PROVE  Recorded(k)'
<1> USE AtType DEF ConstantsAssumption, Recorded
<1>1. CASE \E n \in Notifications : Monitor(n) \/ MonitorMissed(n)
  BY <1>1 DEF Monitor, MonitorMissed, Set, TypeOK
<1>2. CASE \E n \in Notifications : DatabaseSaved(n)
  BY <1>2 DEF DatabaseSaved
<1>3. CASE Kill \/ Restart \/ \E meter \in Meters : Download(meter)
  BY <1>3, DieType DEF Kill, Restart, Download
<1>4. ASSUME NEW n \in Notifications, ReadFile(n)
      PROVE  Recorded(k)'
  <2>1. CASE Die
    BY <2>1, DieType
  <2>2. CASE Set(n, At("opening", Pushed(file[MeterOf[n]].entries, n)))
    <3>1. n # k
      BY <1>4 DEF ReadFile
    <3> QED
      BY <2>2, <3>1 DEF Set, TypeOK
  <2> QED
    BY <1>4, <2>1, <2>2 DEF ReadFile
<1>5. ASSUME NEW n \in Notifications, OpenFile(n) \/ WriteFile(n)
      PROVE  Recorded(k)'
  <2>1. At("writing", handler[n].entries).phase = "writing"
        /\ GivenUp(handler[n].phase).phase \in {"lost", "cut"}
    <3>1. At("writing", handler[n].entries).phase = "writing"
      BY DEF TypeOK, Handler, Phases
    <3> QED
      BY <3>1, GivenUpType
  <2> QED
    BY <1>5, <2>1 DEF OpenFile, WriteFile, Set, TypeOK
<1> QED
  BY <1>1, <1>2, <1>3, <1>4, <1>5 DEF Next, Handle

\* A sound sequence of readings stays sound.
LEMMA SoundKept ==
  ASSUME ConstantsAssumption, TypeOK, Next
  PROVE  \A entries \in Seq(Notifications), meter \in Meters :
           Sound(entries, meter) => Sound(entries, meter)'
<1> SUFFICES ASSUME NEW entries \in Seq(Notifications), NEW meter \in Meters,
                    Sound(entries, meter)
             PROVE  Sound(entries, meter)'
  OBVIOUS
<1>1. \A i \in DOMAIN entries : entries[i] \in Notifications
  BY ElementOfSeq, LenProperties
<1>2. \A i \in DOMAIN entries : Recorded(entries[i])'
  BY <1>1, RecordedKept DEF Sound
<1> QED
  BY <1>2 DEF Sound

\* A reading that was not there, pushed to a sound sequence of its meter.
LEMMA PushedSound ==
  ASSUME ConstantsAssumption, NEW old \in Seq(Notifications), NEW n \in Notifications,
         Sound(old, MeterOf[n])', Recorded(n)', \A i \in DOMAIN old : old[i] # n
  PROVE  Sound(Pushed(old, n), MeterOf[n])'
<1>1. /\ DOMAIN Pushed(old, n) = 1..(Len(old) + 1) /\ DOMAIN old = 1..Len(old)
      /\ Len(old) \in Nat
  BY PushedType, LenProperties
<1>2. \A i \in 1..(Len(old) + 1) : i \in 1..Len(old) \/ i = Len(old) + 1
  BY <1>1
<1>3. /\ \A i \in 1..Len(old) : Pushed(old, n)[i] = old[i]
      /\ Pushed(old, n)[Len(old) + 1] = n
  BY PushedType
<1>4. \A i \in DOMAIN Pushed(old, n) :
        MeterOf[Pushed(old, n)[i]] = MeterOf[n] /\ Recorded(Pushed(old, n)[i])'
  BY <1>1, <1>2, <1>3 DEF Sound, Recorded
<1>5. \A i, j \in DOMAIN Pushed(old, n) : Pushed(old, n)[i] = Pushed(old, n)[j] => i = j
  BY <1>1, <1>2, <1>3 DEF Sound
<1> QED
  BY <1>4, <1>5 DEF Sound

\* Every step keeps the inductive invariant.
LEMMA SoundStep ==
  ASSUME ConstantsAssumption, IInv, [Next]_vars
  PROVE  IInv'
<1> USE DEF ConstantsAssumption
<1>t. TypeOK /\ TypeOK'
  BY TypeStep DEF IInv
<1>1. CASE UNCHANGED vars
  BY <1>1, <1>t DEF vars, IInv, Sound, Recorded
<1>2. ASSUME Next
      PROVE  IInv'
  <2>k. \A entries \in Seq(Notifications), meter \in Meters :
          Sound(entries, meter) => Sound(entries, meter)'
    BY <1>2, <1>t, SoundKept
  <2>f. \A meter \in Meters : file[meter].entries \in Seq(Notifications)
    BY <1>t DEF TypeOK, File
  <2>h. \A n \in Notifications : handler[n].entries \in Seq(Notifications)
    BY <1>t DEF TypeOK, Handler
  \* No step puts anything new into a file but a sound array, or nothing.
  <2> DEFINE FromWriter == \A meter \in Meters :
          \/ file'[meter].entries = file[meter].entries
          \/ file'[meter].entries = <<>>
          \/ \E n \in Notifications : /\ handler[n].phase = "writing" /\ MeterOf[n] = meter
                                      /\ file'[meter].entries = handler[n].entries
  <2>1. FromWriter
    <3>1. CASE UNCHANGED file
      BY <3>1
    <3>2. ASSUME NEW n \in Notifications, OpenFile(n)
          PROVE  FromWriter
      BY <3>2, <1>t DEF OpenFile, Garbled, TypeOK
    <3>3. ASSUME NEW n \in Notifications, WriteFile(n)
          PROVE  FromWriter
      BY <3>3, <1>t DEF WriteFile, Garbled, Text, TypeOK
    <3> QED
      BY <1>2, <3>1, <3>2, <3>3 DEF Next, Handle, Monitor, MonitorMissed, DatabaseSaved,
                                    ReadFile, Download, Kill, Restart
  <2>2. ASSUME NEW meter \in Meters
        PROVE  Sound(file[meter].entries, meter)'
    <3>1. \A entries \in Seq(Notifications) :
            file'[meter].entries = entries /\ Sound(entries, meter)
              => Sound(file[meter].entries, meter)'
      <4> SUFFICES ASSUME NEW entries \in Seq(Notifications),
                          file'[meter].entries = entries, Sound(entries, meter)'
                   PROVE  Sound(file[meter].entries, meter)'
        BY <2>k
      <4> QED
        BY DEF Sound, Recorded
    <3>2. CASE file'[meter].entries = file[meter].entries
      BY <3>1, <3>2, <2>f DEF IInv
    <3>3. CASE file'[meter].entries = <<>>
      BY <3>1, <3>3, EmptySeq DEF Sound
    <3>4. ASSUME NEW n \in Notifications, handler[n].phase = "writing", MeterOf[n] = meter,
                 file'[meter].entries = handler[n].entries
          PROVE  Sound(file[meter].entries, meter)'
      BY <3>1, <3>4, <2>h DEF IInv
    <3> QED
      BY <2>1, <3>2, <3>3, <3>4
  \* An array to write is an old one, the file with one more reading, or the
  \* only reading there is.
  <2>3. ASSUME NEW n \in Notifications, handler'[n].phase \in {"opening", "writing"}
        PROVE  Sound(handler[n].entries, MeterOf[n])'
    <3> DEFINE Source ==
          \/ handler'[n].entries = handler[n].entries /\ handler[n].phase \in {"opening", "writing"}
          \/ handler'[n].entries = <<n>>
          \/ /\ handler[n].phase = "reading"
             /\ handler'[n].entries = Pushed(file[MeterOf[n]].entries, n)
    <3>1. Source
      <4> USE AtType
      <4>1. CASE UNCHANGED handler
        BY <4>1, <2>3
      <4>2. CASE Die
        BY <4>2, <1>t, DieType, <2>3
      <4>3. ASSUME NEW k \in Notifications, Monitor(k)
            PROVE  Source
        <5>1. At("opening", <<k>>).entries = <<k>>
          BY SingleType DEF Phases
        <5> QED
          BY <4>3, <5>1, <1>t, <2>3 DEF Monitor, Set, TypeOK
      <4>4. ASSUME NEW k \in Notifications, MonitorMissed(k)
            PROVE  Source
        BY <4>4, <1>t, <2>3 DEF MonitorMissed, Set, TypeOK
      <4>5. ASSUME NEW k \in Notifications, ReadFile(k),
                   Set(k, At("opening", Pushed(file[MeterOf[k]].entries, k)))
            PROVE  Source
        <5>1. At("opening", Pushed(file[MeterOf[k]].entries, k)).entries
                = Pushed(file[MeterOf[k]].entries, k)
          BY <2>f, PushedType DEF Phases
        <5> QED
          BY <4>5, <5>1, <1>t, <2>3 DEF ReadFile, Set, TypeOK
      <4>6. ASSUME NEW k \in Notifications, OpenFile(k) \/ WriteFile(k)
            PROVE  Source
        <5>1. /\ At("writing", handler[k].entries).entries = handler[k].entries
              /\ At("writing", handler[k].entries).phase = "writing"
              /\ GivenUp(handler[k].phase).phase \in {"lost", "cut"}
          <6>1. /\ At("writing", handler[k].entries).entries = handler[k].entries
                /\ At("writing", handler[k].entries).phase = "writing"
            BY <2>h DEF Phases
          <6> QED
            BY <6>1, <1>t, GivenUpType
        <5> QED
          BY <4>6, <5>1, <1>t, <2>3 DEF OpenFile, WriteFile, Set, TypeOK
      <4> QED
        BY <1>2, <4>1, <4>2, <4>3, <4>4, <4>5, <4>6
           DEF Next, Handle, DatabaseSaved, ReadFile, Download, Kill, Restart
    <3>2. Recorded(n)'
      BY <2>3 DEF Recorded
    <3>e. \A entries \in Seq(Notifications) :
            handler'[n].entries = entries /\ Sound(entries, MeterOf[n])'
              => Sound(handler[n].entries, MeterOf[n])'
      BY DEF Sound, Recorded
    <3>3. CASE handler'[n].entries = handler[n].entries /\ handler[n].phase \in {"opening", "writing"}
      BY <3>3, <3>e, <2>k, <2>h DEF IInv
    <3>4. CASE handler'[n].entries = <<n>>
      <4>1. Sound(<<n>>, MeterOf[n])'
        BY <3>2 DEF Sound
      <4> QED
        BY <3>4, <3>e, <4>1, SingleType
    <3>5. CASE /\ handler[n].phase = "reading"
               /\ handler'[n].entries = Pushed(file[MeterOf[n]].entries, n)
      <4>1. PICK old \in Seq(Notifications) : old = file[MeterOf[n]].entries
        BY <2>f
      <4>2. Sound(old, MeterOf[n]) /\ Sound(old, MeterOf[n])'
        BY <4>1, <2>k DEF IInv
      <4>3. \A i \in DOMAIN old : old[i] # n
        BY <3>5, <4>2 DEF Sound, Recorded
      <4>4. Sound(Pushed(old, n), MeterOf[n])'
        BY <3>2, <4>2, <4>3, PushedSound
      <4>5. Pushed(old, n) \in Seq(Notifications)
        BY PushedType
      <4> QED
        BY <3>5, <3>e, <4>1, <4>4, <4>5
    <3> QED
      BY <3>1, <3>3, <3>4, <3>5
  <2> QED
    BY <1>t, <2>2, <2>3 DEF IInv
<1> QED
  BY <1>1, <1>2

\* It holds at the start, when there is nothing yet.
LEMMA SoundInit == ASSUME ConstantsAssumption, Init PROVE IInv
<1>1. \A n \in Notifications : handler[n].phase = "new"
  BY AtType DEF Init
<1>2. \A meter \in Meters : file[meter].entries = <<>>
  BY DEF Init, NoFile
<1> QED
  BY <1>1, <1>2, TypeInit DEF IInv, Sound

\* The inductive invariant holds throughout.
THEOREM Invariance == Spec => []IInv
<1>1. Init => IInv
  BY SoundInit, ConstantsAssumption
<1>2. IInv /\ [Next]_vars => IInv'
  BY SoundStep, ConstantsAssumption
<1> QED
  BY <1>1, <1>2, PTL DEF Spec

\* Every variable keeps its type.
THEOREM TypeCorrect == Spec => []TypeOK
<1>1. IInv => TypeOK
  BY DEF IInv
<1> QED
  BY <1>1, Invariance, PTL

\* A data file never holds a reading of another meter, nor one twice, nor one
\* nobody sent, for any overlap of handlers, any kill and any I/O error.
THEOREM FilesAreSound == Spec => []FileIsSound
<1>1. IInv => FileIsSound
  BY DEF IInv, FileIsSound, Sound, Recorded
<1> QED
  BY <1>1, Invariance, PTL

-----------------------------------------------------------------------------
(***************************************************************************)
(* What a step does to one meter.                                          *)
(***************************************************************************)

\* Nothing at all.
Unmoved(meter) ==
  /\ file'[meter] = file[meter]
  /\ \A n \in Notifications : MeterOf[n] = meter =>
       handler'[n] = handler[n] /\ (n \in crossed' <=> n \in crossed)

\* Some of its handlers are given up, or a notification is missed.
Rests(meter) ==
  /\ file'[meter] = file[meter]
  /\ \A n \in Notifications : MeterOf[n] = meter =>
       /\ n \in crossed' <=> n \in crossed
       /\ \/ handler'[n] = handler[n]
          \/ handler[n].phase = "new" /\ handler'[n] = Missed
          \/ n \in UnderWay(meter) /\ handler'[n] = GivenUp(handler[n].phase)

\* One of its handlers goes on, and the others stay.
Alone(n) ==
  \A m \in Notifications : (MeterOf[m] = MeterOf[n] /\ m # n) => handler'[m] = handler[m]
SameCrossed(meter) ==
  \A m \in Notifications : MeterOf[m] = meter => (m \in crossed' <=> m \in crossed)

TakesUp(n) ==
  /\ handler[n].phase = "new" /\ Alone(n)
  /\ handler'[n] = IF file[MeterOf[n]].kind = "absent" THEN At("opening", <<n>>) ELSE Reading
  /\ file'[MeterOf[n]] = file[MeterOf[n]]
  /\ crossed' = IF UnderWay(MeterOf[n]) = {} THEN crossed
                ELSE crossed \cup {n} \cup UnderWay(MeterOf[n])

Pushes(n) ==
  /\ handler[n].phase = "reading" /\ Alone(n) /\ SameCrossed(MeterOf[n])
  /\ file[MeterOf[n]].kind = "json"
  /\ handler'[n] = At("opening", Append(file[MeterOf[n]].entries, n))
  /\ file'[MeterOf[n]] = file[MeterOf[n]]

Opens(n) ==
  /\ handler[n].phase = "opening" /\ Alone(n) /\ SameCrossed(MeterOf[n])
  /\ handler'[n] = At("writing", handler[n].entries)
  /\ file'[MeterOf[n]] = Garbled(0)

Writes(n) ==
  /\ handler[n].phase = "writing" /\ Alone(n) /\ SameCrossed(MeterOf[n])
  /\ handler'[n] = Done
  /\ \/ file'[MeterOf[n]] = Text(handler[n].entries)
     \/ file[MeterOf[n]].size > 0 /\ file'[MeterOf[n]] = Garbled(file[MeterOf[n]].size)

Acts(n) == TakesUp(n) \/ Pushes(n) \/ Opens(n) \/ Writes(n)

\* A step is that of one handler, which leaves the other meters alone, or lets
\* all files be.
LEMMA StepKinds ==
  ASSUME ConstantsAssumption, TypeOK, [Next]_vars
  PROVE  \/ \A meter \in Meters : Rests(meter)
         \/ \E n \in Notifications :
              Acts(n) /\ \A meter \in Meters \ {MeterOf[n]} : Unmoved(meter)
<1> USE DEF ConstantsAssumption
<1> DEFINE Goal == \/ \A meter \in Meters : Rests(meter)
                   \/ \E n \in Notifications :
                        Acts(n) /\ \A meter \in Meters \ {MeterOf[n]} : Unmoved(meter)
<1>1. CASE UNCHANGED <<handler, file, crossed>>
  BY <1>1 DEF Rests
<1>2. CASE Die /\ UNCHANGED <<file, crossed>>
  BY <1>2, DieType DEF Rests
<1>3. ASSUME NEW n \in Notifications, UNCHANGED <<file, crossed>>,
             \A m \in Notifications \ {n} : handler'[m] = handler[m],
             \/ handler[n].phase = "new" /\ handler'[n] = Missed
             \/ n \in UnderWay(MeterOf[n]) /\ handler'[n] = GivenUp(handler[n].phase)
      PROVE  Goal
  BY <1>3 DEF Rests
<1>4. ASSUME NEW n \in Notifications, Acts(n), UNCHANGED crossed \/ TakesUp(n),
             \A m \in Notifications \ {n} : handler'[m] = handler[m],
             \A meter \in Meters \ {MeterOf[n]} : file'[meter] = file[meter]
      PROVE  Goal
  <2>1. ASSUME NEW meter \in Meters, meter # MeterOf[n], NEW m \in Notifications, MeterOf[m] = meter
        PROVE  m \in crossed' <=> m \in crossed
    BY <1>4, <2>1 DEF TakesUp, UnderWay
  <2> QED
    BY <1>4, <2>1 DEF Unmoved
<1>5. ASSUME NEW n \in Notifications, Monitor(n)
      PROVE  Goal
  <2>1. /\ \A m \in Notifications \ {n} : handler'[m] = handler[m]
        /\ handler'[n] = IF file[MeterOf[n]].kind = "absent" THEN At("opening", <<n>>) ELSE Reading
        /\ UNCHANGED file
    BY <1>5 DEF Monitor, Set, TypeOK
  <2>2. TakesUp(n)
    BY <1>5, <2>1 DEF Monitor, TakesUp, Alone
  <2> QED
    BY <1>4, <2>1, <2>2 DEF Acts
<1>6. ASSUME NEW n \in Notifications, MonitorMissed(n)
      PROVE  Goal
  BY <1>3, <1>6 DEF MonitorMissed, Set, TypeOK
<1>7. ASSUME NEW n \in Notifications, ReadFile(n)
      PROVE  Goal
  <2>1. CASE Die
    BY <1>2, <1>7, <2>1 DEF ReadFile
  <2>2. CASE file[MeterOf[n]].kind = "json"
             /\ Set(n, At("opening", Pushed(file[MeterOf[n]].entries, n)))
    <3>1. /\ \A m \in Notifications \ {n} : handler'[m] = handler[m]
          /\ handler'[n] = At("opening", Append(file[MeterOf[n]].entries, n))
          /\ UNCHANGED <<file, crossed>> /\ handler[n].phase = "reading"
      BY <1>7, <2>2 DEF ReadFile, Set, Pushed, TypeOK
    <3>2. Pushes(n)
      BY <2>2, <3>1 DEF Pushes, Alone, SameCrossed
    <3> QED
      BY <1>4, <3>1, <3>2 DEF Acts
  <2> QED
    BY <1>7, <2>1, <2>2 DEF ReadFile
<1>8. ASSUME NEW n \in Notifications, OpenFile(n)
      PROVE  Goal
  <2>0. MeterOf[n] \in Meters /\ UNCHANGED crossed /\ handler[n].phase = "opening"
    BY <1>8 DEF OpenFile
  <2>1. CASE /\ Set(n, At("writing", handler[n].entries))
             /\ file' = [file EXCEPT ![MeterOf[n]] = Garbled(0)]
    <3>1. /\ \A m \in Notifications \ {n} : handler'[m] = handler[m]
          /\ handler'[n] = At("writing", handler[n].entries)
          /\ file'[MeterOf[n]] = Garbled(0)
          /\ \A meter \in Meters \ {MeterOf[n]} : file'[meter] = file[meter]
      BY <2>0, <2>1 DEF Set, TypeOK
    <3>2. Opens(n)
      BY <2>0, <3>1 DEF Opens, Alone, SameCrossed
    <3> QED
      BY <1>4, <2>0, <3>1, <3>2 DEF Acts
  <2>2. CASE Set(n, GivenUp(handler[n].phase)) /\ UNCHANGED file
    BY <1>3, <2>0, <2>2 DEF Set, TypeOK, UnderWay
  <2> QED
    BY <1>8, <2>1, <2>2 DEF OpenFile
<1>9. ASSUME NEW n \in Notifications, WriteFile(n)
      PROVE  Goal
  <2>0. MeterOf[n] \in Meters /\ UNCHANGED crossed /\ handler[n].phase = "writing"
    BY <1>9 DEF WriteFile
  <2>1. CASE /\ Set(n, Done)
             /\ \/ file' = [file EXCEPT ![MeterOf[n]] = Text(handler[n].entries)]
                \/ /\ file[MeterOf[n]].size > 0
                   /\ file' = [file EXCEPT ![MeterOf[n]] = Garbled(file[MeterOf[n]].size)]
    <3>1. /\ \A m \in Notifications \ {n} : handler'[m] = handler[m]
          /\ handler'[n] = Done
          /\ \/ file'[MeterOf[n]] = Text(handler[n].entries)
             \/ file[MeterOf[n]].size > 0 /\ file'[MeterOf[n]] = Garbled(file[MeterOf[n]].size)
          /\ \A meter \in Meters \ {MeterOf[n]} : file'[meter] = file[meter]
      BY <2>0, <2>1 DEF Set, TypeOK
    <3>2. Writes(n)
      BY <2>0, <3>1 DEF Writes, Alone, SameCrossed
    <3> QED
      BY <1>4, <2>0, <3>1, <3>2 DEF Acts
  <2>2. CASE Set(n, GivenUp(handler[n].phase)) /\ UNCHANGED file
    BY <1>3, <2>0, <2>2 DEF Set, TypeOK, UnderWay
  <2> QED
    BY <1>9, <2>1, <2>2 DEF WriteFile
<1>10. ASSUME NEW meter \in Meters, Download(meter)
       PROVE  Goal
  BY <1>1, <1>2, <1>10 DEF Download
<1>11. CASE Kill \/ Restart \/ \E n \in Notifications : DatabaseSaved(n)
  BY <1>1, <1>2, <1>11 DEF Kill, Restart, DatabaseSaved
<1>12. CASE UNCHANGED vars
  BY <1>1, <1>12 DEF vars
<1>13. CASE Next
  BY <1>13, <1>5, <1>6, <1>7, <1>8, <1>9, <1>10, <1>11 DEF Next, Handle
<1> QED
  BY <1>12, <1>13

-----------------------------------------------------------------------------
(***************************************************************************)
(* A data file while the notifications of its meter come one by one.       *)
(***************************************************************************)

\* The states of handlers and files.
LEMMA States ==
  /\ \A phase, entries : At(phase, entries).phase = phase /\ At(phase, entries).entries = entries
  /\ \A entries : Text(entries).kind = "json" /\ Text(entries).entries = entries
  /\ \A size : Garbled(size).kind = "garbled" /\ Garbled(size).size = size
  /\ \A phase : GivenUp(phase).phase = IF phase = "writing" THEN "cut" ELSE "lost"
  /\ Reading.phase = "reading" /\ Done.phase = "done" /\ Missed.phase = "missed"
BY DEF At, Text, Garbled, GivenUp, Reading, Done, Missed

\* What a file and an array hold.
LEMMA Contents ==
  ASSUME ConstantsAssumption, TypeOK, NEW n \in Notifications
  PROVE  /\ MeterOf[n] \in Meters
         /\ handler[n].phase \in Phases
         /\ handler[n].entries \in Seq(Notifications)
         /\ file[MeterOf[n]].entries \in Seq(Notifications)
         /\ file[MeterOf[n]].kind \in {"absent", "json", "garbled"}
BY DEF ConstantsAssumption, TypeOK, Handler, File

\* Who is under way.
LEMMA IsUnderWay ==
  /\ \A meter, n :
       n \in UnderWay(meter) <=>
         n \in Notifications /\ MeterOf[n] = meter
                             /\ handler[n].phase \in {"reading", "opening", "writing"}
  /\ \A meter, n :
       n \in UnderWay(meter)' <=>
         n \in Notifications /\ MeterOf[n] = meter
                             /\ handler'[n].phase \in {"reading", "opening", "writing"}
BY DEF UnderWay

\* While files are let be, nobody new gets under way.
LEMMA RestsUnderWay ==
  ASSUME NEW meter, Rests(meter), NEW n \in UnderWay(meter)'
  PROVE  n \in UnderWay(meter) /\ handler'[n] = handler[n]
<1>1. n \in Notifications /\ MeterOf[n] = meter
      /\ handler'[n].phase \in {"reading", "opening", "writing"}
  BY IsUnderWay
<1>2. handler'[n] # Missed /\ handler'[n] # GivenUp(handler[n].phase)
  BY <1>1, States
<1>3. handler'[n] = handler[n]
  BY <1>1, <1>2 DEF Rests
<1> QED
  BY <1>1, <1>3, IsUnderWay

\* A handler's step adds at most itself to those under way.
LEMMA ActsUnderWay ==
  ASSUME NEW n \in Notifications, Acts(n), NEW m \in UnderWay(MeterOf[n])', m # n
  PROVE  m \in UnderWay(MeterOf[n]) /\ handler'[m] = handler[m]
<1>1. m \in Notifications /\ MeterOf[m] = MeterOf[n]
      /\ handler'[m].phase \in {"reading", "opening", "writing"}
  BY IsUnderWay
<1>2. handler'[m] = handler[m]
  BY <1>1 DEF Acts, TakesUp, Pushes, Opens, Writes, Alone
<1> QED
  BY <1>1, <1>2, IsUnderWay

\* Who has crossed has crossed for good.
LEMMA CrossedStays ==
  ASSUME ConstantsAssumption, TypeOK, [Next]_vars, NEW n \in Notifications, n \notin crossed'
  PROVE  n \notin crossed
BY DEF Next, Handle, Monitor, MonitorMissed, DatabaseSaved, ReadFile, OpenFile, WriteFile,
       Download, Kill, Restart, vars

\* Every step keeps the handlers that have not crossed apart.
LEMMA ApartStep ==
  ASSUME ConstantsAssumption, TypeOK, Apart, [Next]_vars
  PROVE  Apart'
<1> SUFFICES ASSUME NEW m \in Notifications, NEW n \in Notifications, MeterOf[m] = MeterOf[n],
                    n \notin crossed', m \in UnderWay(MeterOf[n])', n \in UnderWay(MeterOf[n])',
                    m # n
             PROVE  FALSE
  BY DEF Apart
<1>1. n \notin crossed /\ MeterOf[n] \in Meters
  BY CrossedStays DEF ConstantsAssumption
<1>a. ~ (m \in UnderWay(MeterOf[n]) /\ n \in UnderWay(MeterOf[n]))
  BY <1>1 DEF Apart
<1>2. CASE Rests(MeterOf[n])
  BY <1>2, <1>a, RestsUnderWay
<1>3. ASSUME NEW k \in Notifications, Acts(k), MeterOf[k] = MeterOf[n]
      PROVE  FALSE
  <2>1. CASE ~ TakesUp(k)
    <3>1. k \in UnderWay(MeterOf[n])
      BY <1>3, <2>1, IsUnderWay DEF Acts, Pushes, Opens, Writes
    <3> QED
      BY <1>3, <1>a, <3>1, ActsUnderWay
  <2>2. CASE TakesUp(k)
    <3>1. m \in UnderWay(MeterOf[n]) \/ n \in UnderWay(MeterOf[n])
      BY <1>3, ActsUnderWay
    <3>2. crossed' = crossed \cup {k} \cup UnderWay(MeterOf[n])
      BY <1>3, <2>2, <3>1 DEF TakesUp
    <3>3. n # k /\ n \notin UnderWay(MeterOf[n])
      BY <3>2
    <3> QED
      BY <1>3, <3>3, ActsUnderWay
  <2> QED
    BY <2>1, <2>2
<1>4. CASE \E k \in Notifications :
             Acts(k) /\ \A meter \in Meters \ {MeterOf[k]} : Unmoved(meter)
  <2>1. PICK k \in Notifications :
          Acts(k) /\ \A meter \in Meters \ {MeterOf[k]} : Unmoved(meter)
    BY <1>4
  <2>2. MeterOf[k] # MeterOf[n]
    BY <1>3, <2>1
  <2>3. Unmoved(MeterOf[n])
    BY <1>1, <2>1, <2>2
  <2> QED
    BY <1>2, <2>3 DEF Unmoved, Rests
<1> QED
  BY <1>1, <1>2, <1>4, StepKinds

\* A meter that is intact after a step was intact before.
LEMMA IntactBefore ==
  ASSUME ConstantsAssumption, TypeOK, [Next]_vars, NEW meter \in Meters, Intact(meter)'
  PROVE  Intact(meter)
<1> SUFFICES ASSUME NEW n \in Notifications, MeterOf[n] = meter, handler[n].phase = "cut"
             PROVE  FALSE
  BY CrossedStays DEF Intact
<1>1. handler'[n].phase # "cut"
  BY DEF Intact
<1>2. n \notin UnderWay(meter)
  BY IsUnderWay
<1>3. CASE Rests(meter)
  BY <1>1, <1>2, <1>3 DEF Rests
<1>4. ASSUME NEW k \in Notifications, Acts(k), MeterOf[k] = meter
      PROVE  FALSE
  <2>1. k # n
    BY <1>4 DEF Acts, TakesUp, Pushes, Opens, Writes
  <2>2. handler'[n] = handler[n]
    BY <1>4, <2>1 DEF Acts, TakesUp, Pushes, Opens, Writes, Alone
  <2> QED
    BY <1>1, <2>2
<1> QED
  BY <1>3, <1>4, StepKinds DEF Unmoved, Rests

\* In an intact meter nobody is under way but the handler that acts.
LEMMA IntactAlone ==
  ASSUME ConstantsAssumption, Apart, NEW meter \in Meters, Intact(meter),
         NEW m \in UnderWay(meter), NEW n \in UnderWay(meter)
  PROVE  m = n
BY IsUnderWay DEF Apart, Intact

\* Every step keeps the files of intact meters in order.
LEMMA InOrderStep ==
  ASSUME ConstantsAssumption, TypeOK, Apart, InOrder, [Next]_vars
  PROVE  InOrder'
<1> SUFFICES ASSUME NEW meter \in Meters, Intact(meter)'
             PROVE  FileInOrder(meter)' /\ \A n \in UnderWay(meter)' : InStep(n)'
  BY DEF InOrder
<1>1. Intact(meter)
  BY IntactBefore
<1>2. FileInOrder(meter) /\ \A n \in UnderWay(meter) : InStep(n)
  BY <1>1 DEF InOrder
<1>3. CASE Rests(meter)
  <2>1. file'[meter] = file[meter]
    BY <1>3 DEF Rests
  <2>2. \A n \in UnderWay(meter)' : InStep(n)'
    <3> SUFFICES ASSUME NEW n \in UnderWay(meter)' PROVE InStep(n)'
      OBVIOUS
    <3>1. n \in UnderWay(meter) /\ handler'[n] = handler[n] /\ MeterOf[n] = meter
      BY <1>3, RestsUnderWay, IsUnderWay
    <3>2. InStep(n) /\ file'[MeterOf[n]] = file[MeterOf[n]]
      BY <1>2, <2>1, <3>1
    <3> QED
      BY <3>1, <3>2, Zenon DEF InStep
  <2>3. ASSUME NEW n \in UnderWay(meter), handler[n].phase = "writing"
        PROVE  n \in UnderWay(meter)' /\ handler'[n].phase = "writing"
    <3>1. n \in Notifications /\ MeterOf[n] = meter
      BY IsUnderWay
    <3>2. handler'[n].phase # "cut"
      BY <3>1 DEF Intact
    <3>3. handler'[n] = handler[n]
      BY <1>3, <2>3, <3>1, <3>2, States DEF Rests
    <3> QED
      BY <2>3, <3>1, <3>3, IsUnderWay
  <2> QED
    BY <1>2, <2>1, <2>2, <2>3 DEF FileInOrder
<1>4. ASSUME NEW n \in Notifications, MeterOf[n] = meter, Acts(n)
      PROVE  FileInOrder(meter)' /\ \A m \in UnderWay(meter)' : InStep(m)'
  \* Nobody else is under way afterwards.
  <2>1. \A m \in UnderWay(meter)' : m = n
    <3>1. CASE TakesUp(n)
      <4>1. n \notin crossed'
        BY <1>4 DEF Intact
      <4>2. UnderWay(meter) = {}
        BY <1>4, <3>1, <4>1 DEF TakesUp
      <4> QED
        BY <1>4, <4>2, ActsUnderWay
    <3>2. CASE ~ TakesUp(n)
      <4>1. n \in UnderWay(meter)
        BY <1>4, <3>2, IsUnderWay DEF Acts, Pushes, Opens, Writes
      <4> QED
        BY <1>1, <1>4, <4>1, ActsUnderWay, IntactAlone
    <3> QED
      BY <3>1, <3>2
  <2>2. ASSUME FileInOrder(meter)', InStep(n)'
        PROVE  FileInOrder(meter)' /\ \A m \in UnderWay(meter)' : InStep(m)'
    BY <2>1, <2>2
  <2>3. CASE TakesUp(n)
    <3>1. UnderWay(meter) = {} /\ file'[meter] = file[meter]
      BY <1>4, <2>3 DEF TakesUp, Intact
    <3>2. file[meter].kind # "garbled"
      BY <1>2, <3>1 DEF FileInOrder
    <3>3. FileInOrder(meter)'
      BY <1>2, <3>1, <3>2 DEF FileInOrder
    <3>4. CASE file[meter].kind = "absent"
      <4>1. handler'[n].phase = "opening" /\ handler'[n].entries = <<n>>
        BY <1>4, <2>3, <3>4, States DEF TakesUp
      <4>2. Append(file[meter].entries, n) = <<n>>
        <5>1. file[meter].entries = <<>>
          BY <1>2, <3>4 DEF FileInOrder
        <5> QED
          BY <5>1
      <4>3. InStep(n)'
        BY <1>4, <3>1, <3>2, <4>1, <4>2 DEF InStep
      <4> QED
        BY <2>2, <3>3, <4>3
    <3>5. CASE file[meter].kind # "absent"
      <4>1. handler'[n].phase = "reading"
        BY <1>4, <2>3, <3>5, States DEF TakesUp
      <4>2. file[meter].kind = "json"
        BY <1>4, <3>2, <3>5, Contents
      <4>3. InStep(n)'
        BY <1>4, <3>1, <4>1, <4>2 DEF InStep
      <4> QED
        BY <2>2, <3>3, <4>3
    <3> QED
      BY <3>4, <3>5
  <2>4. CASE Pushes(n)
    <3>1. /\ file'[meter] = file[meter] /\ file[meter].kind = "json"
          /\ handler'[n].phase = "opening"
          /\ handler'[n].entries = Append(file[meter].entries, n)
      <4>1. /\ file'[meter] = file[meter] /\ file[meter].kind = "json"
            /\ handler'[n] = At("opening", Append(file[meter].entries, n))
        BY <1>4, <2>4 DEF Pushes
      <4> QED
        BY <4>1 DEF At
    <3>2. InStep(n)' /\ FileInOrder(meter)'
      BY <1>4, <3>1 DEF InStep, FileInOrder
    <3> QED
      BY <2>2, <3>2
  <2>5. CASE Opens(n)
    <3>1. /\ file'[meter] = Garbled(0) /\ handler'[n].phase = "writing"
          /\ handler'[n].entries = handler[n].entries
      BY <1>4, <2>5, States DEF Opens
    <3>2. n \in UnderWay(meter)
      BY <1>4, <2>5, IsUnderWay DEF Opens
    <3> DEFINE old == file[meter].entries
    <3>3. handler[n].entries = Append(old, n)
      BY <1>2, <1>4, <2>5, <3>2 DEF InStep, Opens
    <3>4. Append(old, n) # <<>> /\ Append(old, n)[Len(Append(old, n))] = n
      <4>1. old \in Seq(Notifications)
        BY <1>4, Contents
      <4> HIDE DEF old
      <4> QED
        BY <4>1, AppendProperties, LenProperties
    <3>5. InStep(n)'
      BY <1>4, <3>1, <3>3, <3>4 DEF InStep
    <3>6. n \in UnderWay(meter)'
      BY <1>4, <3>1, IsUnderWay
    <3>7. FileInOrder(meter)'
      BY <3>1, <3>6, States DEF FileInOrder
    <3> QED
      BY <2>2, <3>5, <3>7
  <2>6. CASE Writes(n)
    <3>1. n \in UnderWay(meter)
      BY <1>4, <2>6, IsUnderWay DEF Writes
    <3>2. file[meter].size = 0
      BY <1>2, <1>4, <2>6, <3>1, States DEF InStep, Writes
    <3>3. file'[meter] = Text(handler[n].entries) /\ handler'[n].phase = "done"
      BY <1>4, <2>6, <3>2, States DEF Writes
    <3>4. InStep(n)' /\ FileInOrder(meter)'
      BY <3>3, States DEF InStep, FileInOrder
    <3> QED
      BY <2>2, <3>4
  <2> QED
    BY <1>4, <2>3, <2>4, <2>5, <2>6 DEF Acts
<1> QED
  BY <1>3, <1>4, StepKinds DEF Unmoved, Rests

\* Pushing keeps what is held, and adds to it.
LEMMA PushedHolds ==
  ASSUME NEW entries \in Seq(Notifications), NEW m \in Notifications
  PROVE  /\ Holds(Append(entries, m), m)
         /\ \A n : Holds(entries, n) => Holds(Append(entries, m), n)
<1>1. /\ DOMAIN Append(entries, m) = DOMAIN entries \cup {Len(entries) + 1}
      /\ Append(entries, m)[Len(entries) + 1] = m
      /\ \A i \in DOMAIN entries : Append(entries, m)[i] = entries[i]
  BY AppendProperties, LenProperties
<1> QED
  BY <1>1 DEF Holds

\* Every step keeps what has been written alone.
LEMMA KeptStep ==
  ASSUME ConstantsAssumption, TypeOK, Apart, KeptInv, [Next]_vars
  PROVE  KeptInv'
<1> SUFFICES ASSUME NEW n \in Notifications, n \notin crossed'
             PROVE  /\ handler'[n].phase = "done" => Kept(n)'
                    /\ handler'[n].phase \in {"opening", "writing"} =>
                         Holds(handler'[n].entries, n)
  BY DEF KeptInv, Holds
<1> DEFINE meter == MeterOf[n]
<1>1. n \notin crossed /\ meter \in Meters
  BY CrossedStays DEF ConstantsAssumption
<1>2. /\ handler[n].phase = "done" => Kept(n)
      /\ handler[n].phase \in {"opening", "writing"} => Holds(handler[n].entries, n)
  BY <1>1 DEF KeptInv
<1>3. CASE Rests(meter)
  <2>1. file'[meter] = file[meter]
    BY <1>3 DEF Rests
  <2>2. ASSUME handler'[n].phase = "done"
        PROVE  Kept(n)'
    <3>1. Kept(n)
      BY <1>2, <1>3, <2>2, States DEF Rests
    <3>2. \A m \in UnderWay(meter)' : m \in UnderWay(meter) /\ handler'[m] = handler[m]
      BY <1>3, RestsUnderWay
    <3> QED
      BY <2>1, <3>1, <3>2 DEF Kept, Holds
  <2>3. ASSUME handler'[n].phase \in {"opening", "writing"}
        PROVE  Holds(handler'[n].entries, n)
    <3>1. n \in UnderWay(meter)'
      BY <2>3, IsUnderWay
    <3> QED
      BY <1>2, <1>3, <2>3, <3>1, RestsUnderWay
  <2> QED
    BY <2>2, <2>3
\* Its own step.
<1>4. CASE Acts(n)
  <2>1. CASE TakesUp(n)
    <3>1. handler'[n] = At("opening", <<n>>) \/ handler'[n] = Reading
      BY <2>1 DEF TakesUp
    <3>2. Holds(<<n>>, n)
      BY DEF Holds
    <3> QED
      BY <3>1, <3>2, States
  <2>2. CASE Pushes(n)
    <3>1. handler'[n].phase = "opening"
          /\ handler'[n].entries = Append(file[meter].entries, n)
      <4>1. handler'[n] = At("opening", Append(file[meter].entries, n))
        BY <2>2 DEF Pushes
      <4> QED
        BY <4>1 DEF At
    <3> QED
      BY <3>1, Contents, PushedHolds
  <2>3. CASE Opens(n)
    <3>1. handler'[n].phase = "writing" /\ handler'[n].entries = handler[n].entries
      BY <2>3, States DEF Opens
    <3> QED
      BY <1>2, <2>3, <3>1 DEF Opens
  <2>4. CASE Writes(n)
    <3>1. handler'[n].phase = "done" /\ Holds(handler[n].entries, n)
      BY <1>2, <2>4, States DEF Writes
    <3>2. UnderWay(meter)' = {}
      <4>1. n \in UnderWay(meter)
        BY <2>4, IsUnderWay DEF Writes
      <4>2. n \notin UnderWay(meter)'
        BY <3>1, IsUnderWay
      <4>3. \A m \in UnderWay(meter) : m = n
        BY <1>1, <4>1, IsUnderWay DEF Apart
      <4> QED
        BY <1>4, <4>2, <4>3, ActsUnderWay
    <3>3. \/ file'[meter] = Text(handler[n].entries)
          \/ file'[meter] = Garbled(file[meter].size)
      BY <2>4 DEF Writes
    <3>4. /\ file'[meter].kind # "absent"
          /\ file'[meter].kind = "json" => file'[meter].entries = handler[n].entries
      BY <3>3, States
    <3>5. Kept(n)'
      BY <3>1, <3>2, <3>4 DEF Kept, Holds
    <3> QED
      BY <3>1, <3>5
  <2> QED
    BY <1>4, <2>1, <2>2, <2>3, <2>4 DEF Acts
\* A step of another handler of its meter.
<1>5. ASSUME NEW m \in Notifications, m # n, MeterOf[m] = meter, Acts(m)
      PROVE  /\ handler'[n].phase = "done" => Kept(n)'
             /\ handler'[n].phase \in {"opening", "writing"} => Holds(handler'[n].entries, n)
  <2>1. handler'[n] = handler[n]
    BY <1>5 DEF Acts, TakesUp, Pushes, Opens, Writes, Alone
  <2>2. SUFFICES ASSUME handler[n].phase = "done" PROVE Kept(n)'
    BY <1>2, <2>1
  <2>3. /\ file[meter].kind = "json" => Holds(file[meter].entries, n)
        /\ file[meter].kind # "absent"
        /\ \A k \in UnderWay(meter) :
             handler[k].phase \in {"opening", "writing"} => Holds(handler[k].entries, n)
    BY <1>2, <2>2 DEF Kept
  <2>4. ASSUME NEW k \in UnderWay(meter)', k # m,
               handler'[k].phase \in {"opening", "writing"}
        PROVE  Holds(handler'[k].entries, n)
    BY <1>5, <2>3, <2>4, ActsUnderWay
  <2>5. ASSUME file'[meter].kind = "json" => Holds(file'[meter].entries, n),
               file'[meter].kind # "absent",
               handler'[m].phase \in {"opening", "writing"} => Holds(handler'[m].entries, n)
        PROVE  Kept(n)'
    BY <2>4, <2>5 DEF Kept, Holds
  <2>6. CASE TakesUp(m)
    <3>1. handler'[m] = Reading /\ file'[meter] = file[meter]
      BY <1>5, <2>3, <2>6 DEF TakesUp
    <3> QED
      BY <2>3, <2>5, <3>1, States
  <2>7. CASE Pushes(m)
    <3>1. /\ handler'[m] = At("opening", Append(file[meter].entries, m))
          /\ file'[meter] = file[meter] /\ file[meter].kind = "json"
      BY <1>5, <2>7 DEF Pushes
    <3>2. Holds(Append(file[meter].entries, m), n)
      BY <2>3, <3>1, Contents, PushedHolds
    <3> QED
      BY <2>3, <2>5, <3>1, <3>2, States
  <2>8. CASE Opens(m)
    <3>1. /\ handler'[m] = At("writing", handler[m].entries) /\ handler[m].phase = "opening"
          /\ file'[meter] = Garbled(0)
      BY <1>5, <2>8 DEF Opens
    <3>2. Holds(handler[m].entries, n)
      BY <1>5, <2>3, <3>1, IsUnderWay
    <3> QED
      BY <2>5, <3>1, <3>2, States
  <2>9. CASE Writes(m)
    <3>1. /\ handler'[m] = Done /\ handler[m].phase = "writing"
          /\ \/ file'[meter] = Text(handler[m].entries)
             \/ file'[meter] = Garbled(file[meter].size)
      BY <1>5, <2>9 DEF Writes
    <3>2. Holds(handler[m].entries, n)
      BY <1>5, <2>3, <3>1, IsUnderWay
    <3> QED
      BY <2>5, <3>1, <3>2, States
  <2> QED
    BY <1>5, <2>6, <2>7, <2>8, <2>9 DEF Acts
<1> QED
  <2>1. CASE \A any \in Meters : Rests(any)
    BY <1>1, <1>3, <2>1
  <2>2. CASE \E m \in Notifications :
               Acts(m) /\ \A any \in Meters \ {MeterOf[m]} : Unmoved(any)
    <3>1. PICK m \in Notifications :
            Acts(m) /\ \A any \in Meters \ {MeterOf[m]} : Unmoved(any)
      BY <2>2
    <3>2. CASE MeterOf[m] # meter
      BY <1>1, <1>3, <3>1, <3>2 DEF Unmoved, Rests
    <3>3. CASE MeterOf[m] = meter
      BY <1>4, <1>5, <3>1, <3>3
    <3> QED
      BY <3>2, <3>3
  <2> QED
    BY <2>1, <2>2, StepKinds

\* They hold at the start.
Order == Apart /\ InOrder /\ KeptInv

LEMMA OrderInit == ASSUME ConstantsAssumption, Init PROVE Order
<1>1. \A n \in Notifications : handler[n].phase = "new"
  BY AtType DEF Init
<1>2. \A meter \in Meters : /\ UnderWay(meter) = {}
                            /\ file[meter].kind = "absent" /\ file[meter].entries = <<>>
  BY <1>1 DEF Init, NoFile, UnderWay
<1>3. Apart /\ KeptInv
  BY <1>1 DEF Apart, UnderWay, KeptInv
<1>4. InOrder
  BY <1>2 DEF InOrder, FileInOrder
<1> QED
  BY <1>3, <1>4 DEF Order

\* The handlers of intact meters find the file as the last one left it, and
\* what was written alone stays, whatever else happens.
LEMMA OrderHolds == Spec => [](IInv /\ Order)
<1>1. Init => Order
  BY OrderInit, ConstantsAssumption
<1>2. TypeOK /\ Order /\ [Next]_vars => Order'
  BY ApartStep, InOrderStep, KeptStep, ConstantsAssumption DEF Order
<1> QED
  BY <1>1, <1>2, Invariance, TypeCorrect, PTL DEF Spec

\* Only notifications of one meter that cross, or an end or an error in the
\* midst of a write, leave a data file unreadable.
THEOREM FilesStayReadable == Spec => []FileStaysReadable
<1>1. Order => FileStaysReadable
  BY DEF Order, InOrder, FileInOrder, FileStaysReadable, Idle
<1> QED
  BY <1>1, OrderHolds, PTL

\* What was written while nobody else was under way stays in the file as long
\* as that can be read, through later crossings, kills and errors.
THEOREM RecordsStay == Spec => []RecordIsKept
<1>1. Order => RecordIsKept
  BY DEF Order, KeptInv, Kept, RecordIsKept, InFile
<1> QED
  BY <1>1, OrderHolds, PTL

-----------------------------------------------------------------------------
(***************************************************************************)
(* The file of an intact meter is a log.                                   *)
(***************************************************************************)

\* An array without its last reading.
Earlier(entries) == SubSeq(entries, 1, Len(entries) - 1)

\* What is logged of a meter with one writer, and of one without, before a step
\* and after.
LEMMA LoggedIs ==
  /\ \A meter, n : (n \in UnderWay(meter) /\ handler[n].phase = "writing"
                      /\ \A m \in UnderWay(meter) : m = n)
       => Logged(meter) = Earlier(handler[n].entries)
  /\ \A meter : (\A n \in UnderWay(meter) : handler[n].phase # "writing")
       => Logged(meter) = file[meter].entries
  /\ \A meter, n : (n \in UnderWay(meter)' /\ handler'[n].phase = "writing"
                      /\ \A m \in UnderWay(meter)' : m = n)
       => Logged(meter)' = Earlier(handler'[n].entries)
  /\ \A meter : (\A n \in UnderWay(meter)' : handler'[n].phase # "writing")
       => Logged(meter)' = file'[meter].entries
<1>1. ASSUME NEW meter, NEW n \in UnderWay(meter), handler[n].phase = "writing",
             \A m \in UnderWay(meter) : m = n
      PROVE  Logged(meter) = Earlier(handler[n].entries)
  <2>1. (CHOOSE m \in UnderWay(meter) : handler[m].phase = "writing") = n
    BY <1>1
  <2> QED
    BY <1>1, <2>1 DEF Logged, Earlier
<1>2. ASSUME NEW meter, NEW n \in UnderWay(meter)', handler'[n].phase = "writing",
             \A m \in UnderWay(meter)' : m = n
      PROVE  Logged(meter)' = Earlier(handler'[n].entries)
  <2>1. (CHOOSE m \in UnderWay(meter)' : handler'[m].phase = "writing") = n
    BY <1>2
  <2> QED
    BY <1>2, <2>1 DEF Logged, Earlier
<1>3. \A meter :
        /\ (\A n \in UnderWay(meter) : handler[n].phase # "writing")
             => Logged(meter) = file[meter].entries
        /\ (\A n \in UnderWay(meter)' : handler'[n].phase # "writing")
             => Logged(meter)' = file'[meter].entries
  BY DEF Logged
<1> QED
  BY <1>1, <1>2, <1>3

\* The log of an intact meter stays while its file is let be.
LEMMA RestsLogged ==
  ASSUME ConstantsAssumption, TypeOK, Apart, Apart', NEW meter \in Meters, Rests(meter),
         Intact(meter), Intact(meter)'
  PROVE  Logged(meter)' = Logged(meter)
<1>1. file'[meter] = file[meter]
  BY DEF Rests
<1>2. ASSUME NEW n \in UnderWay(meter), handler[n].phase = "writing"
      PROVE  Logged(meter)' = Logged(meter)
  <2>1. n \in Notifications /\ MeterOf[n] = meter
    BY IsUnderWay
  <2>2. handler'[n].phase # "cut"
    BY <2>1 DEF Intact
  <2>3. handler'[n] = handler[n]
    BY <1>2, <2>1, <2>2, States DEF Rests
  <2>4. n \in UnderWay(meter)'
    BY <1>2, <2>1, <2>3, IsUnderWay
  <2>5. \A m \in UnderWay(meter) : m = n
    BY IntactAlone
  <2>6. \A m \in UnderWay(meter)' : m = n
    BY <2>5, RestsUnderWay
  <2> QED
    BY <1>2, <2>3, <2>4, <2>5, <2>6, LoggedIs
<1>3. ASSUME \A n \in UnderWay(meter) : handler[n].phase # "writing"
      PROVE  Logged(meter)' = Logged(meter)
  <2>1. \A n \in UnderWay(meter)' : handler'[n].phase # "writing"
    BY <1>3, RestsUnderWay
  <2> QED
    BY <1>1, <1>3, <2>1, LoggedIs
<1> QED
  BY <1>2, <1>3

\* So it does while one of its handlers takes up a notification, pushes its
\* reading or opens the file.
LEMMA PreparesLogged ==
  ASSUME ConstantsAssumption, TypeOK, Apart, InOrder, NEW n \in Notifications,
         Acts(n), ~ Writes(n), Intact(MeterOf[n]), Intact(MeterOf[n])'
  PROVE  Logged(MeterOf[n])' = Logged(MeterOf[n])
<1> DEFINE meter == MeterOf[n]
<1>m. meter \in Meters /\ FileInOrder(meter) /\ \A m \in UnderWay(meter) : InStep(m)
  BY Contents DEF InOrder
<1>1. CASE TakesUp(n)
  <2>1. UnderWay(meter) = {} /\ file'[meter] = file[meter]
    BY <1>1 DEF TakesUp, Intact
  <2>2. \A m \in UnderWay(meter)' : m = n
    BY <2>1, ActsUnderWay
  <2>3. handler'[n].phase # "writing"
    BY <1>1, States DEF TakesUp
  <2>4. \A m \in UnderWay(meter)' : handler'[m].phase # "writing"
    BY <2>2, <2>3
  <2> QED
    BY <2>1, <2>4, LoggedIs
<1>2. CASE Pushes(n) \/ Opens(n)
  <2>1. n \in UnderWay(meter) /\ handler[n].phase # "writing"
    BY <1>2, IsUnderWay DEF Pushes, Opens
  <2>2. \A m \in UnderWay(meter) : m = n
    BY <1>m, <2>1, IntactAlone
  <2>3. \A m \in UnderWay(meter)' : m = n
    BY <2>2, ActsUnderWay
  <2>4. Logged(meter) = file[meter].entries
    BY <2>1, <2>2, LoggedIs
  <2>5. CASE Pushes(n)
    <3>1. file'[meter] = file[meter] /\ handler'[n].phase # "writing"
      BY <2>5, States DEF Pushes
    <3> QED
      BY <2>3, <2>4, <3>1, LoggedIs
  <2>6. CASE Opens(n)
    <3>1. handler'[n].phase = "writing" /\ handler'[n].entries = handler[n].entries
      BY <2>6, States DEF Opens
    <3>2. n \in UnderWay(meter)'
      BY <3>1, IsUnderWay
    <3>3. Logged(meter)' = Earlier(handler'[n].entries)
      BY <2>3, <3>1, <3>2, LoggedIs
    <3> DEFINE old == file[meter].entries
    <3>4. handler'[n].entries = Append(old, n)
      BY <1>m, <2>1, <2>6, <3>1 DEF InStep, Opens
    <3>5. Earlier(Append(old, n)) = old
      <4>1. old \in Seq(Notifications)
        BY Contents
      <4> HIDE DEF old
      <4>2. Len(Append(old, n)) - 1 = Len(old) /\ Len(old) \in Nat
        BY <4>1, AppendProperties, LenProperties
      <4> QED
        BY <4>1, <4>2 DEF Earlier
    <3> QED
      BY <2>4, <3>3, <3>4, <3>5
  <2> QED
    BY <1>2, <2>5, <2>6
<1> QED
  BY <1>1, <1>2 DEF Acts

\* When a writer is through its reading is logged, at the end.
LEMMA WriteLogs ==
  ASSUME ConstantsAssumption, IInv, Apart, InOrder, NEW n \in Notifications, Writes(n),
         Intact(MeterOf[n])
  PROVE  /\ \A i \in DOMAIN Logged(MeterOf[n]) : Logged(MeterOf[n])[i] # n
         /\ Logged(MeterOf[n])' = Append(Logged(MeterOf[n]), n)
<1> DEFINE meter == MeterOf[n]
           all   == handler[n].entries
<1>t. TypeOK
  BY DEF IInv
<1>0. handler[n].phase = "writing" /\ n \in UnderWay(meter) /\ meter \in Meters
  BY <1>t, Contents, IsUnderWay DEF Writes
<1>1. InStep(n) /\ \A m \in UnderWay(meter) : m = n
  BY <1>0, IntactAlone DEF InOrder
<1>2. file[meter].size = 0 /\ all # <<>> /\ all[Len(all)] = n /\ all \in Seq(Notifications)
  BY <1>t, <1>0, <1>1, States, Contents DEF InStep
<1>3. file'[meter].entries = all /\ handler'[n].phase = "done"
  BY <1>2, States DEF Writes
<1>4. Logged(meter) = Earlier(all)
  BY <1>0, <1>1, LoggedIs
<1>5. Logged(meter)' = all
  <2>1. n \notin UnderWay(meter)'
    BY <1>3, IsUnderWay
  <2>2. UnderWay(meter)' = {}
    BY <1>1, <2>1, ActsUnderWay DEF Acts
  <2> QED
    BY <1>3, <2>2, LoggedIs
<1>6. /\ Len(all) \in Nat \ {0}
      /\ \A i, j \in 1..Len(all) : all[i] = all[j] => i = j
  <2>1. Sound(all, meter)
    BY <1>0 DEF IInv
  <2>2. Len(all) \in Nat /\ DOMAIN all = 1..Len(all) /\ Len(all) # 0
    BY <1>2, LenProperties, EmptySeq
  <2> QED
    BY <2>1, <2>2 DEF Sound
<1>7. /\ all = Append(Earlier(all), n)
      /\ \A i \in DOMAIN Earlier(all) : Earlier(all)[i] # n
  <2> HIDE DEF all
  <2>1. /\ Earlier(all) \in Seq(Notifications) /\ Len(Earlier(all)) = Len(all) - 1
        /\ \A i \in 1..(Len(all) - 1) : Earlier(all)[i] = all[i]
    <3>1. \A i \in 1..(Len(all) - 1) : all[i] \in Notifications
      BY <1>2, <1>6
    <3>2. PICK last \in Nat : last = Len(all) - 1
      BY <1>6
    <3>3. SubSeq(all, 1, last) \in Seq(Notifications)
      BY <3>1, <3>2, SubSeqProperties
    <3>4. Len(SubSeq(all, 1, last)) = last
      BY <3>2, <1>2, <1>6
    <3>5. \A i \in 1..last : SubSeq(all, 1, last)[i] = all[i]
      BY <3>2, <1>2, <1>6
    <3> QED
      BY <3>2, <3>3, <3>4, <3>5 DEF Earlier
  <2>2. DOMAIN Earlier(all) = 1..(Len(all) - 1)
    BY <2>1, LenProperties
  <2>3. \A i \in DOMAIN Earlier(all) : Earlier(all)[i] # n
    BY <1>2, <1>6, <2>1, <2>2
  <2>4. all = Append(Earlier(all), n)
    BY <1>2, <1>6, <2>1
  <2> QED
    BY <2>3, <2>4
<1> QED
  BY <1>4, <1>5, <1>7

\* A meter that a step does not touch is as intact as before, and has its log.
LEMMA UnmovedLogged ==
  ASSUME ConstantsAssumption, TypeOK, Apart, Apart', NEW meter \in Meters, Unmoved(meter)
  PROVE  /\ Intact(meter)' <=> Intact(meter)
         /\ Intact(meter) => Logged(meter)' = Logged(meter)
<1>1. Intact(meter)' <=> Intact(meter)
  BY DEF Unmoved, Intact
<1> QED
  BY <1>1, RestsLogged DEF Unmoved, Rests

\* Every step logs one reading of one intact meter at the end, or spoils some
\* meters.
LEMMA LogStep ==
  ASSUME ConstantsAssumption, IInv, Order, Order', [Next]_vars
  PROVE  \/ \A meter \in Meters : Intact(meter)' => Logged(meter)' = Logged(meter)
         \/ \E n \in Notifications :
              /\ \A meter \in Meters : Intact(meter)' <=> Intact(meter)
              /\ Intact(MeterOf[n])
              /\ \A i \in DOMAIN Logged(MeterOf[n]) : Logged(MeterOf[n])[i] # n
              /\ Logged(MeterOf[n])' = Append(Logged(MeterOf[n]), n)
              /\ \A meter \in Meters \ {MeterOf[n]} :
                   Intact(meter) => Logged(meter)' = Logged(meter)
<1>t. TypeOK /\ Apart /\ Apart' /\ InOrder
  BY DEF IInv, Order
<1>b. \A meter \in Meters : Intact(meter)' => Intact(meter)
  BY <1>t, IntactBefore
<1>1. CASE \A meter \in Meters : Rests(meter)
  BY <1>1, <1>t, <1>b, RestsLogged
<1>2. ASSUME NEW n \in Notifications, Acts(n),
             \A meter \in Meters \ {MeterOf[n]} : Unmoved(meter)
      PROVE  \/ \A meter \in Meters : Intact(meter)' => Logged(meter)' = Logged(meter)
             \/ /\ \A meter \in Meters : Intact(meter)' <=> Intact(meter)
                /\ Intact(MeterOf[n])
                /\ \A i \in DOMAIN Logged(MeterOf[n]) : Logged(MeterOf[n])[i] # n
                /\ Logged(MeterOf[n])' = Append(Logged(MeterOf[n]), n)
                /\ \A meter \in Meters \ {MeterOf[n]} :
                     Intact(meter) => Logged(meter)' = Logged(meter)
  <2>1. \A meter \in Meters \ {MeterOf[n]} :
          /\ Intact(meter)' <=> Intact(meter)
          /\ Intact(meter) => Logged(meter)' = Logged(meter)
    BY <1>2, <1>t, UnmovedLogged
  <2>m. MeterOf[n] \in Meters
    BY <1>t, Contents
  <2>2. CASE Intact(MeterOf[n])' /\ Writes(n)
    <3>1. Intact(MeterOf[n])
      BY <1>b, <2>2, <2>m
    <3>2. /\ \A i \in DOMAIN Logged(MeterOf[n]) : Logged(MeterOf[n])[i] # n
          /\ Logged(MeterOf[n])' = Append(Logged(MeterOf[n]), n)
      BY <1>t, <2>2, <3>1, WriteLogs
    <3>3. \A meter \in Meters : Intact(meter)' <=> Intact(meter)
      BY <2>1, <2>2, <3>1
    <3> QED
      BY <2>1, <3>1, <3>2, <3>3
  <2>3. CASE Intact(MeterOf[n])' /\ ~ Writes(n)
    <3>1. Logged(MeterOf[n])' = Logged(MeterOf[n])
      BY <1>2, <1>t, <1>b, <2>3, <2>m, PreparesLogged
    <3> QED
      BY <2>1, <3>1
  <2>4. CASE ~ Intact(MeterOf[n])'
    BY <2>1, <2>4
  <2> QED
    BY <2>2, <2>3, <2>4
<1> QED
  BY <1>1, <1>2, <1>t, StepKinds

\* ... and is a log that nothing is lost from until it is spoilt: the detailed
\* specification implements ReadingLog.
THEOREM FilesAreLogs == Spec => LogSpec
<1> DEFINE log == [meter \in {m \in Meters : Intact(m)} |-> Logged(meter)]
<1>1. ASSUME Init
      PROVE  Log!Init
  <2>1. \A n \in Notifications : handler[n].phase = "new"
    BY <1>1, AtType DEF Init
  <2>2. \A meter \in Meters : Logged(meter) = <<>>
    BY <1>1, <2>1 DEF Init, NoFile, Logged, UnderWay
  <2> QED
    BY <2>2 DEF Log!Init
<1>2. ASSUME IInv, Order, Order', [Next]_vars
      PROVE  [Log!Next]_log
  <2>1. CASE \A meter \in Meters : Intact(meter)' => Logged(meter)' = Logged(meter)
    <3> DEFINE left == {m \in Meters : Intact(m)'}
    <3>1. left \in SUBSET DOMAIN log
      BY <1>2, IntactBefore, ConstantsAssumption DEF IInv
    <3>2. log' = [meter \in left |-> log[meter]]
      <4>1. \A meter \in left : Logged(meter)' = log[meter]
        BY <2>1, <3>1
      <4> QED
        BY <4>1
    <3> HIDE DEF left
    <3>3. Log!Spoil
      BY <3>1, <3>2 DEF Log!Spoil
    <3> QED
      BY <3>3 DEF Log!Next
  <2>2. ASSUME NEW n \in Notifications,
               \A meter \in Meters : Intact(meter)' <=> Intact(meter),
               Intact(MeterOf[n]),
               \A i \in DOMAIN Logged(MeterOf[n]) : Logged(MeterOf[n])[i] # n,
               Logged(MeterOf[n])' = Append(Logged(MeterOf[n]), n),
               \A meter \in Meters \ {MeterOf[n]} :
                 Intact(meter) => Logged(meter)' = Logged(meter)
        PROVE  Log!Next
    <3> DEFINE D == {m \in Meters : Intact(m)}
    <3>1. MeterOf[n] \in D
      BY <2>2, ConstantsAssumption DEF ConstantsAssumption
    <3>2. D' = D
      BY <2>2
    <3>3. log' = [meter \in D |-> Logged(meter)']
      BY <3>2
    <3>4. log' = [log EXCEPT ![MeterOf[n]] = Append(log[MeterOf[n]], n)]
      BY <2>2, <3>1, <3>3
    <3>5. Log!LogOne(MeterOf[n], n)
      BY <2>2, <3>1, <3>4 DEF Log!LogOne
    <3> QED
      BY <3>1, <3>5 DEF Log!Next
  <2> QED
    BY <1>2, <2>1, <2>2, LogStep, ConstantsAssumption
<1>3. [](IInv /\ Order) /\ [][Next]_vars => [][Log!Next]_log
  BY <1>2, PTL
<1> QED
  BY <1>1, <1>3, OrderHolds, PTL DEF Spec, LogSpec, Log!Spec

-----------------------------------------------------------------------------
(***************************************************************************)
(* A file that cannot be read.                                             *)
(***************************************************************************)

\* A data file that is unreadable, with nobody about to write it.
Poisoned(meter) ==
  /\ file[meter].kind = "garbled"
  /\ \A n \in UnderWay(meter) : handler[n].phase = "reading"

\* Nothing but a writer changes a file, and a handler becomes a writer only of
\* a file that is readable or is not there.
LEMMA PoisonStep ==
  ASSUME ConstantsAssumption, TypeOK, [Next]_vars, NEW meter \in Meters, Poisoned(meter)
  PROVE  Poisoned(meter)'
<1>1. CASE Rests(meter)
  BY <1>1, RestsUnderWay DEF Rests, Poisoned
<1>2. ASSUME NEW n \in Notifications, Acts(n), MeterOf[n] = meter
      PROVE  Poisoned(meter)'
  <2>1. TakesUp(n)
    BY <1>2, IsUnderWay DEF Acts, Pushes, Opens, Writes, Poisoned
  <2>2. file'[meter] = file[meter] /\ handler'[n].phase = "reading"
    BY <1>2, <2>1, States DEF TakesUp, Poisoned
  <2>3. \A m \in UnderWay(meter)' : handler'[m].phase = "reading"
    BY <1>2, <2>2, ActsUnderWay DEF Poisoned
  <2> QED
    BY <2>2, <2>3 DEF Poisoned
<1> QED
  BY <1>1, <1>2, StepKinds DEF Unmoved, Rests

\* Nothing mends a data file: once an interrupted write has left it unreadable
\* it stays so, through every later notification and restart.
THEOREM PoisonedForGood ==
  ASSUME NEW meter \in Meters
  PROVE  Spec => [][Poisoned(meter) => Poisoned(meter)']_vars
<1>1. TypeOK /\ [Next]_vars => [Poisoned(meter) => Poisoned(meter)']_vars
  BY PoisonStep, ConstantsAssumption
<1> QED
  BY <1>1, TypeCorrect, PTL DEF Spec

=============================================================================
