--------------------------- MODULE MCWebappSubscribe ---------------------------
\* Instances of WebappSubscribe for TLC.
EXTENDS WebappSubscribe

\* Each subscribe comes from a browser of its own address.
OwnListener == [s \in Subscribes |-> s]

\* Deletes name the application entities in turn.
FirstAe == [d \in Deletes |-> CHOOSE ae \in AEs : TRUE]

=============================================================================
