------------------------------ MODULE ReadingPath ------------------------------
(***************************************************************************)
(* The way of a reading from a meter into the web application's records:   *)
(* meters, the server's DATA containers, the subscription that the web     *)
(* application keeps replacing, and its handler of notifications.          *)
(*                                                                         *)
(* It composes WebappSubscribe, with the meters as its application         *)
(* entities, and WebappStore, whose notifications are the readings that    *)
(* the server stored while there was a subscription.  The two are one      *)
(* process: when a handler throws, or somebody kills it, both end.         *)
(***************************************************************************)
EXTENDS WebappStore

CONSTANTS
  Policies, Subscribes, Deletes, ListenerOf, ResourceOf, NoOne, AtOnce, Errors

\* The first ten are those of WebappSubscribe; deaths is its killed.
VARIABLES
  aes, containers, sub, registered, AE_NAMES, call, chain, latest, overlap, errors,
  deaths,    \* how often the web application has ended
  stored,    \* the readings the server has stored so far
  notified,  \* those it has notified somebody of
  promised,  \* those it stored while the page listed their meter, nothing was
             \* under way and no request had failed
  harmed     \* history: those of them after which the web application has ended
             \* or a file or its database has failed

\* Enough for every end there can be: a notification's handler throws once.
MaxDeaths == Cardinality(Notifications) + Kills + Downloads

S == INSTANCE WebappSubscribe WITH AEs <- Meters, Kills <- MaxDeaths, killed <- deaths

ASSUME PathAssumption == S!ConstantsAssumption

subVars  == <<aes, containers, sub, registered, AE_NAMES, call, chain, latest, overlap,
              errors, deaths>>
pathVars == <<stored, notified, promised, harmed>>

\* Does the page show the meter, with no subscribing or deleting under way?
Settled(meter) == meter \in AE_NAMES /\ S!UnderWay = {} /\ errors = 0

-----------------------------------------------------------------------------
PathInit ==
  /\ Init /\ S!Init
  /\ stored = {} /\ notified = {} /\ promised = {} /\ harmed = {}

\* The server stores a reading that a meter posts to its container DATA, and
\* notifies whoever is subscribed: one request, to the address of the
\* subscription, which is the web application's.
Notify(n) == IF sub[MeterOf[n]] = NoOne THEN notified ELSE notified \cup {n}

MeterReports(n) ==
  /\ n \notin stored /\ MeterOf[n] \in containers
  /\ stored' = stored \cup {n}
  /\ notified' = Notify(n)
  /\ promised' = IF Settled(MeterOf[n]) THEN promised \cup {n} ELSE promised
  /\ UNCHANGED <<vars, subVars, harmed>>

\* The meters and the server, and the web application's calls to it.  Nothing is
\* under way while it is down, and no browser reaches it.
Subscription ==
  /\ \/ \E meter \in Meters : S!MeterRegisters(meter) \/ S!MeterCreatesContainer(meter)
     \/ \E c \in S!Calls : running /\ S!Call(c)
     \/ \E s \in Subscribes : S!Subscribing(s)
     \/ \E d \in Deletes : S!Deleting(d)
  /\ UNCHANGED <<vars, pathVars>>

\* When the process ends the list is forgotten, and the calls with it.
Ended == running /\ ~ running'
Besides ==
  /\ IF Ended THEN S!Kill ELSE UNCHANGED subVars
  /\ harmed' = IF Ended \/ ioErrors' # ioErrors THEN promised ELSE harmed
  /\ UNCHANGED <<stored, notified, promised>>

\* A notification arrives at /monitor, in no particular order and at any time.
Arrive(n) ==
  /\ n \in notified
  /\ Monitor(n) \/ MonitorMissed(n)
  /\ UNCHANGED <<subVars, pathVars>>

Store(n) ==
  /\ Handle(n) \/ DatabaseSaved(n)
  /\ Besides

\* Only meters on the list can be downloaded.
Browse(meter) ==
  /\ meter \in AE_NAMES /\ Download(meter)
  /\ Besides

Operator == (Kill \/ Restart) /\ Besides

PathNext == \/ Subscription
            \/ \E n \in Notifications : MeterReports(n) \/ Arrive(n) \/ Store(n)
            \/ \E meter \in Meters : Browse(meter)
            \/ Operator

allVars == <<vars, subVars, pathVars>>

PathSpec == PathInit /\ [][PathNext]_allVars

\* The server delivers its notifications and Node's loop gets round to what is
\* under way.  Nobody has to subscribe.
PathFairSpec ==
  /\ PathSpec
  /\ \A n \in Notifications : WF_allVars(Arrive(n)) /\ WF_allVars(Store(n))

-----------------------------------------------------------------------------
(***************************************************************************)
(* Properties.                                                             *)
(***************************************************************************)

\* A reading the web application owes its records has been notified, whatever
\* subscribing goes on.  Unless the process has ended or something has failed
\* since it was stored, its handler does not give up, and the database has it or
\* is being given it; what ended or failed before does not matter.  When its
\* handler is through, and no other of the meter was under way meanwhile, it is
\* in the file, as long as that can be read.
PromisedIsKept ==
  \A n \in promised :
    /\ n \in notified
    /\ handler[n].phase \in {"missed", "lost", "cut"} => n \in harmed
    /\ handler[n].phase # "new" => n \in saving \cup database \cup harmed
    /\ (handler[n].phase = "done" /\ n \notin crossed /\ file[MeterOf[n]].kind = "json") =>
         InFile(n)

\* The web application "records the data" (docs/webapp.md:5): a reading of a
\* meter the page shows is recorded, in its file and in the database, whatever
\* subscribing went on before and goes on after - unless a subscribe is under
\* way at the time, whose chain leaves the meter without a subscription
\* between deleteSubscription and sendSubscription; unless the process ends or
\* something fails before that; and unless notifications of the meter cross, or
\* one has been cut off while it wrote the file.  When the process has been
\* started again and has subscribed, readings are recorded as before.
ShownIsRecorded ==
  \A n \in Notifications :
    n \in promised ~>
      \/ InFile(n) /\ n \in database
      \/ n \in harmed \/ ~ Intact(MeterOf[n])

=============================================================================
