------------------------------ MODULE ReadingLog ------------------------------
(***************************************************************************)
(* What the web application's data file of a meter promises: a log.  A     *)
(* reading that has been logged stays, at its place, and none is logged    *)
(* twice.  A log that is spoilt promises nothing any more.                 *)
(***************************************************************************)
EXTENDS Sequences

CONSTANT Readings

VARIABLE log   \* for each meter whose log is not spoilt, the readings logged so far

Init == \A meter \in DOMAIN log : log[meter] = <<>>

\* A reading that is not there yet is added at the end of one meter's log.
LogOne(meter, reading) ==
  /\ \A i \in DOMAIN log[meter] : log[meter][i] # reading
  /\ log' = [log EXCEPT ![meter] = Append(log[meter], reading)]

\* Some logs are spoilt; the others stay as they are.
Spoil == \E meters \in SUBSET DOMAIN log : log' = [meter \in meters |-> log[meter]]

Next == \/ \E meter \in DOMAIN log, reading \in Readings : LogOne(meter, reading)
        \/ Spoil

Spec == Init /\ [][Next]_log

=============================================================================
