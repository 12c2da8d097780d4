------------------------------ MODULE WebappStore ------------------------------
(***************************************************************************)
(* How the web application keeps readings: the handler of /monitor         *)
(* (webapp/routes/api/monitor.js) and saveDataToJSON (webapp/app.js),      *)
(* which rewrites the data.json of the meter for every notification.       *)
(*                                                                         *)
(* Node runs one callback at a time, but readFile and writeFile are done   *)
(* by other threads between two callbacks, and several notifications can   *)
(* be under way.  writeFile empties the file before it writes.  A callback *)
(* that throws ends the process; somebody may start it again.              *)
(***************************************************************************)
EXTENDS Integers, Sequences, FiniteSets

CONSTANTS
  Meters,         \* the meters that are subscribed to
  Notifications,  \* bound: the notifications of one behaviour
  MeterOf,        \* the meter of each
  Downloads,      \* bound: how often somebody downloads a meter's data
  Kills,          \* bound: how often the process is killed
  IoErrors        \* bound: how often reading or writing fails

ASSUME ConstantsAssumption ==
  /\ IsFiniteSet(Notifications) /\ MeterOf \in [Notifications -> Meters]
  /\ Downloads \in Nat /\ Kills \in Nat /\ IoErrors \in Nat

VARIABLES
  running,   \* is the process up?
  handler,   \* how far the handling of each notification is
  file,      \* the data.json of each meter
  database,  \* the notifications the database holds
  saving,    \* the notifications being saved to the database
  crossed,   \* history: those that were under way together with another of
             \* their meter
  downloads, killed, ioErrors   \* how often so far

vars == <<running, handler, file, database, saving, crossed, downloads, killed, ioErrors>>

\* new      not sent          reading  waits for readFile
\* opening  waits for writeFile, whose array is entries; writing: the same,
\*          and the file has been emptied
\* done     written           missed   sent while nobody listened
\* lost     given up          cut      given up when the file had been emptied
Phases == {"new", "reading", "opening", "writing", "done", "missed", "lost", "cut"}
At(phase, entries) == [phase |-> phase, entries |-> entries]
New     == At("new", <<>>)
Reading == At("reading", <<>>)
Done    == At("done", <<>>)
Missed  == At("missed", <<>>)
GivenUp(phase) == At(IF phase = "writing" THEN "cut" ELSE "lost", <<>>)

\* A file is absent, or holds size entries' worth of text, which parses (to
\* entries) or does not.  An empty file does not.
NoFile         == [kind |-> "absent", entries |-> <<>>, size |-> 0]
\* Mutated: the entries one after the other, not in an array.
Text_Bare(entries) ==
  [kind |-> IF Len(entries) = 1 THEN "json" ELSE "garbled",
   entries |-> IF Len(entries) = 1 THEN entries ELSE <<>>, size |-> Len(entries)]
Text(entries)  == [kind |-> "json", entries |-> entries, size |-> Len(entries)]
Garbled(size)  == [kind |-> "garbled", entries |-> <<>>, size |-> size]

UnderWay(meter) ==
  {n \in Notifications : MeterOf[n] = meter /\ handler[n].phase \in {"reading", "opening", "writing"}}

Set(n, state) == handler' = [handler EXCEPT ![n] = state]

\* The process ends: whatever is under way is lost.  What writeFile has
\* emptied stays empty.
Die ==
  /\ running' = FALSE /\ saving' = {}
  /\ handler' = [n \in Notifications |->
                   IF n \in UnderWay(MeterOf[n]) THEN GivenUp(handler[n].phase)
                   ELSE handler[n]]

Fails == ioErrors < IoErrors /\ ioErrors' = ioErrors + 1

-----------------------------------------------------------------------------
Init ==
  /\ running = TRUE
  /\ handler = [n \in Notifications |-> New]
  /\ file = [meter \in Meters |-> NoFile]
  /\ database = {} /\ saving = {} /\ crossed = {}
  /\ downloads = 0 /\ killed = 0 /\ ioErrors = 0

\* The server posts a notification: saveDataToJSON up to its first
\* asynchronous call, and the answer 200.  The database save is started and
\* forgotten.  Nothing waits for the notifications before.
Monitor(n) ==
  /\ handler[n].phase = "new" /\ running
  /\ Set(n, IF file[MeterOf[n]].kind = "absent" THEN At("opening", <<n>>) ELSE Reading)
  /\ saving' = saving \cup {n}
  /\ crossed' = IF UnderWay(MeterOf[n]) = {} THEN crossed
                ELSE crossed \cup {n} \cup UnderWay(MeterOf[n])
  /\ UNCHANGED <<running, file, database, downloads, killed, ioErrors>>

\* Nobody listens: the notification is lost.
MonitorMissed(n) ==
  /\ handler[n].phase = "new" /\ ~ running
  /\ Set(n, Missed)
  /\ UNCHANGED <<running, file, database, saving, crossed, downloads, killed, ioErrors>>

DatabaseSaved(n) ==
  /\ n \in saving
  /\ saving' = saving \ {n}
  /\ \/ database' = database \cup {n} /\ UNCHANGED ioErrors
     \/ Fails /\ UNCHANGED database
  /\ UNCHANGED <<running, handler, file, crossed, downloads, killed>>

\* Mutated: the array starts anew.
Pushed_Alone(entries, n) == <<n>>
\* Mutated: the reading is pushed twice.
Pushed_Twice(entries, n) == entries \o <<n, n>>
Pushed(entries, n) == Append(entries, n)

\* readFile has read the file; its callback parses it, pushes the reading and
\* starts to write.  JSON.parse throws on an unreadable file, and on the
\* undefined data of a failed read too.
ReadFile(n) ==
  /\ handler[n].phase = "reading"
  /\ LET read == file[MeterOf[n]] IN
       \/ /\ read.kind = "json"
          /\ Set(n, At("opening", Pushed(read.entries, n)))
          /\ UNCHANGED <<running, saving, ioErrors>>
       \/ read.kind # "json" /\ Die /\ UNCHANGED ioErrors
       \/ read.kind = "json" /\ Fails /\ Die
  /\ UNCHANGED <<file, database, crossed, downloads, killed>>

\* writeFile opens the file, which empties it.
OpenFile(n) ==
  /\ handler[n].phase = "opening"
  /\ \/ /\ Set(n, At("writing", handler[n].entries))
        /\ file' = [file EXCEPT ![MeterOf[n]] = Garbled(0)]
        /\ UNCHANGED ioErrors
     \/ Fails /\ Set(n, GivenUp(handler[n].phase)) /\ UNCHANGED file
  /\ UNCHANGED <<running, database, saving, crossed, downloads, killed>>

\* writeFile writes from the beginning of the file.  What another writer has
\* put there meanwhile is covered, but for a longer text's tail.
WriteFile(n) ==
  /\ handler[n].phase = "writing"
  /\ LET entries == handler[n].entries
         there   == file[MeterOf[n]].size IN
       \/ /\ Len(entries) >= there
          /\ file' = [file EXCEPT ![MeterOf[n]] = Text(entries)]
          /\ Set(n, Done)
          /\ UNCHANGED ioErrors
       \/ /\ there > 0 /\ Len(entries) <= there
          /\ file' = [file EXCEPT ![MeterOf[n]] = Garbled(there)]
          /\ Set(n, Done)
          /\ UNCHANGED ioErrors
       \/ Fails /\ Set(n, GivenUp(handler[n].phase)) /\ UNCHANGED file
  /\ UNCHANGED <<running, database, saving, crossed, downloads, killed>>

\* The first notification of a meter makes its folder, and it stays.
HasFolder(meter) ==
  \E n \in Notifications : MeterOf[n] = meter /\ handler[n].phase \notin {"new", "missed"}

\* A browser downloads a meter's data (routes/api/downloadResource.js).  That
\* the meter has a folder is checked, not that it has a file; then the file
\* is read and parsed as above.  The sheet made of it goes into another file.
Download(meter) ==
  /\ running /\ downloads < Downloads /\ downloads' = downloads + 1
  /\ HasFolder(meter)
  /\ \/ file[meter].kind = "json" /\ UNCHANGED <<running, handler, saving, ioErrors>>
     \/ file[meter].kind # "json" /\ Die /\ UNCHANGED ioErrors
     \/ file[meter].kind = "json" /\ Fails /\ Die
  /\ UNCHANGED <<file, database, crossed, killed>>

Kill ==
  /\ running /\ killed < Kills /\ killed' = killed + 1
  /\ Die
  /\ UNCHANGED <<file, database, crossed, downloads, ioErrors>>

\* The operator starts the web application again.
Restart ==
  /\ ~ running /\ running' = TRUE
  /\ UNCHANGED <<handler, file, database, saving, crossed, downloads, killed, ioErrors>>

Handle(n) == ReadFile(n) \/ OpenFile(n) \/ WriteFile(n)

Next == \/ \E n \in Notifications :
             Monitor(n) \/ MonitorMissed(n) \/ DatabaseSaved(n) \/ Handle(n)
        \/ \E meter \in Meters : Download(meter)
        \/ Kill \/ Restart

Spec == Init /\ [][Next]_vars

-----------------------------------------------------------------------------
(***************************************************************************)
(* Properties.                                                             *)
(***************************************************************************)
File == [kind : {"absent", "json", "garbled"}, entries : Seq(Notifications), size : Nat]
Handler == [phase : Phases, entries : Seq(Notifications)]

TypeOK ==
  /\ running \in BOOLEAN
  /\ handler \in [Notifications -> Handler]
  /\ file \in [Meters -> File]
  /\ database \subseteq Notifications /\ saving \subseteq Notifications
  /\ crossed \subseteq Notifications
  /\ downloads \in 0..Downloads /\ killed \in 0..Kills /\ ioErrors \in 0..IoErrors

Idle(meter) == UnderWay(meter) = {}
Holds(entries, n) == \E i \in DOMAIN entries : entries[i] = n
InFile(n) == Holds(file[MeterOf[n]].entries, n)

\* A data file never holds a reading of another meter, nor one twice, nor one
\* nobody sent, however the handlers overlap and whenever the process ends.
FileIsSound ==
  \A meter \in Meters :
    LET entries == file[meter].entries IN
      /\ \A i \in DOMAIN entries :
           MeterOf[entries[i]] = meter /\ handler[entries[i]].phase # "new"
      /\ \A i, j \in DOMAIN entries : entries[i] = entries[j] => i = j

\* The handlers of a meter's notifications have come one after the other, and
\* none has been given up between emptying the file and writing it.
Intact(meter) ==
  \A n \in Notifications :
    MeterOf[n] = meter => n \notin crossed /\ handler[n].phase # "cut"

\* Only two notifications of one meter that cross, or an end of the process or
\* an error in the midst of a write, leave a meter's data file unreadable -
\* not other meters' notifications, nor an end or an error at any other time.
FileStaysReadable ==
  \A meter \in Meters : Intact(meter) /\ Idle(meter) => file[meter].kind # "garbled"

\* What is in the file, or will be when the writer under way is through.
Logged(meter) ==
  IF \E n \in UnderWay(meter) : handler[n].phase = "writing"
  THEN LET n == CHOOSE n \in UnderWay(meter) : handler[n].phase = "writing"
       IN  SubSeq(handler[n].entries, 1, Len(handler[n].entries) - 1)
  ELSE file[meter].entries

\* Until then the file is a log: nothing that was recorded is lost or moved.
Log == INSTANCE ReadingLog WITH
         Readings <- Notifications,
         log <- [meter \in {m \in Meters : Intact(m)} |-> Logged(meter)]
LogSpec == Log!Spec

\* A reading whose handler wrote the file while no other of its meter was under
\* way is in the file as long as that can be read, however later notifications
\* cross, and whatever fails or ends then: they may lose each other's readings,
\* not this one.
RecordIsKept ==
  \A n \in Notifications :
    (handler[n].phase = "done" /\ n \notin crossed /\ file[MeterOf[n]].kind = "json") =>
      InFile(n)

\* The web application "records the data" (docs/webapp.md:5) and appends to
\* the file (app.js:81): while it stays up, a reading it has answered and
\* finished with is in the data file.
RecordedStays ==
  \A n \in Notifications :
    (running /\ handler[n].phase = "done" /\ Idle(MeterOf[n])) => InFile(n)

-----------------------------------------------------------------------------
(***************************************************************************)
(* What the proofs need besides.                                           *)
(***************************************************************************)

\* A notification that has got as far as an array to write.
Recorded(n) == handler[n].phase \in {"opening", "writing", "done", "lost", "cut"}

\* Readings of one meter that have got that far, each once.
Sound(entries, meter) ==
  /\ \A i \in DOMAIN entries : MeterOf[entries[i]] = meter /\ Recorded(entries[i])
  /\ \A i, j \in DOMAIN entries : entries[i] = entries[j] => i = j

\* What is in a file, or on its way there, is sound.
IInv ==
  /\ TypeOK
  /\ \A meter \in Meters : Sound(file[meter].entries, meter)
  /\ \A n \in Notifications :
       handler[n].phase \in {"opening", "writing"} => Sound(handler[n].entries, MeterOf[n])

\* Notifications of a meter that have not crossed are not under way together.
Apart ==
  \A m, n \in Notifications :
    (MeterOf[m] = MeterOf[n] /\ n \notin crossed /\ {m, n} \subseteq UnderWay(MeterOf[n])) =>
      m = n

\* One notification of a meter at a time: the array it is going to write is
\* the file with one more reading.
InStep(n) ==
  /\ handler[n].phase = "reading" => file[MeterOf[n]].kind = "json"
  /\ handler[n].phase = "opening" =>
       /\ file[MeterOf[n]].kind # "garbled"
       /\ handler[n].entries = Append(file[MeterOf[n]].entries, n)
  /\ handler[n].phase = "writing" =>
       /\ file[MeterOf[n]] = Garbled(0)
       /\ handler[n].entries # <<>> /\ handler[n].entries[Len(handler[n].entries)] = n

FileInOrder(meter) ==
  /\ file[meter].kind = "garbled" => \E n \in UnderWay(meter) : handler[n].phase = "writing"
  /\ file[meter].kind = "absent" => file[meter].entries = <<>>

InOrder ==
  \A meter \in Meters : Intact(meter) =>
    FileInOrder(meter) /\ \A n \in UnderWay(meter) : InStep(n)

\* What has been written alone is in whatever may be in the file from now on.
Kept(n) ==
  /\ file[MeterOf[n]].kind = "json" => Holds(file[MeterOf[n]].entries, n)
  /\ file[MeterOf[n]].kind # "absent"
  /\ \A m \in UnderWay(MeterOf[n]) :
       handler[m].phase \in {"opening", "writing"} => Holds(handler[m].entries, n)

KeptInv ==
  \A n \in Notifications :
    n \notin crossed =>
      /\ handler[n].phase = "done" => Kept(n)
      /\ handler[n].phase \in {"opening", "writing"} => Holds(handler[n].entries, n)

=============================================================================
