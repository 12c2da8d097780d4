----------------------------- MODULE MCOnboarding -----------------------------
\* An instance of Onboarding for TLC.
EXTENDS Onboarding

\* Two faults of the flash and the store, freed memory overwritten once, and
\* power lost twice.
FaultyBudget == [f \in Faults |-> IF f = "freed" THEN 1 ELSE 2]

=============================================================================
