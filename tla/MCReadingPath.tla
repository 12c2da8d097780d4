----------------------------- MODULE MCReadingPath -----------------------------
\* An instance of ReadingPath for TLC.
EXTENDS ReadingPath

\* All readings are of one meter.
OneMeter == [n \in Notifications |-> "m1"]

\* Every subscribe asks for notifications to the web application's address.
OneListener == [s \in Subscribes |-> "webapp"]

\* Every delete is of that meter.
DeletesIt == [d \in Deletes |-> "m1"]

=============================================================================
