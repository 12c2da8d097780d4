---------------------------- MODULE MCBg96Client ----------------------------
\* Instances of Bg96Client for TLC: how often each fault may strike in a run.
EXTENDS Bg96Client

With(faults) == [f \in Faults |-> IF f \in DOMAIN faults THEN faults[f] ELSE 0]

\* What can go wrong once the call is up: the call is dropped, requests and
\* answers are lost, the CSE fails, the AE is deleted, the device restarts.
TransportBudget ==
  With([start |-> 1, drop |-> 1, lost |-> 2, server |-> 1, delete |-> 1, reboot |-> 1])

\* Faults of the first data call and of requests; no loss of a call.  The AE
\* may be deleted and the device restarted.
SetupBudget ==
  With([start |-> 1, dns |-> 1, connect |-> 2, lost |-> 1, delete |-> 1, reboot |-> 1])

\* A call is lost, and setting it up again fails.
LossBudget == With([start |-> 2, drop |-> 1])

=============================================================================
