------------------------------ MODULE MeterFeed ------------------------------
(***************************************************************************)
(* What a meter promises to whoever reads its DATA container: the          *)
(* container is a feed of readings.  A reading is taken, and from then on  *)
(* stored any number of times up to Copies, until the next one is taken;   *)
(* the kWh only grow while the meter is not restarted.  A reading may be   *)
(* missing from the feed.  Somebody may wipe the feed, and Strangers may   *)
(* be put into the container between the readings.                         *)
(*                                                                         *)
(* How the meter gets there (connections, attempts, provisioning, faults)  *)
(* is no part of this; Bg96Client and CppMeter implement it.               *)
(***************************************************************************)
EXTENDS Integers, Sequences, FiniteSets

CONSTANTS
  Copies,     \* how often one reading may be stored
  Strangers   \* what others may put into the container

VARIABLES latest,  \* the reading that was taken last
          feed     \* the stored readings, oldest first

feedVars == <<latest, feed>>

CopiesOf(reading) == Cardinality({i \in DOMAIN feed : feed[i] = reading})

Init == latest = [boot |-> 0, report |-> 0, kWH |-> 0] /\ feed = <<>>

\* The next reading.
Take ==
  /\ latest' = [boot |-> latest.boot, report |-> latest.report + 1, kWH |-> latest'.kWH]
  /\ latest'.kWH \in Nat /\ latest'.kWH >= latest.kWH
  /\ UNCHANGED feed

\* The reading, or another copy of it, reaches the container.
Store ==
  /\ CopiesOf(latest) < Copies
  /\ feed' = Append(feed, latest)
  /\ UNCHANGED latest

\* The meter starts again from zero.
Restart ==
  /\ latest' = [boot |-> latest.boot + 1, report |-> latest.report, kWH |-> 0]
  /\ UNCHANGED feed

Wipe == feed' = <<>> /\ UNCHANGED latest

\* Something that is no reading of the feed reaches the container.
Intrude ==
  /\ feed' # <<>> /\ feed'[Len(feed')] \in Strangers
  /\ feed' = Append(feed, feed'[Len(feed')])
  /\ UNCHANGED latest

Next == Take \/ Store \/ Restart \/ Wipe \/ Intrude

Spec == Init /\ [][Next]_feedVars

=============================================================================
