---------------------------- MODULE MCWebappStore ----------------------------
\* Instances of WebappStore for TLC.
EXTENDS WebappStore, TLC

CONSTANT
  ofOther  \* the reading that is of another meter than the rest

ReadingsOf == [n \in Notifications |-> IF n = ofOther THEN "m2" ELSE "m1"]

\* The readings of one meter differ in nothing but their names.
Alike == Permutations(Notifications \ {ofOther})

=============================================================================
