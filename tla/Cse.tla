-------------------------------- MODULE Cse ---------------------------------
(***************************************************************************)
(* The oneM2M server (OM2M CSE) as the BG96 meter uses it: an application  *)
(* entity AE holding the containers DATA and DESCRIPTOR, and content       *)
(* instances in them.  The server itself is not part of the repository     *)
(* source: this is what http_request_using_state (MeterMain.c) asks of it  *)
(* and what http_client_cb makes of its answers.                           *)
(*                                                                         *)
(* A create names one of the five values of op_state_enum; "known" below   *)
(* is the set of resources that exist at the server.                       *)
(***************************************************************************)
EXTENDS Integers

\* enum op_state_enum: what the meter asks the server to create next.
create_ae           == 0
create_container    == 1
create_descriptor   == 2
populate_descriptor == 3
reporting           == 4
OpStates            == 0..4

\* The resources a meter owns.  "DESCRIPTION" stands for the content
\* instances of the DESCRIPTOR container: it is there once there is one.
Resources == {"AE", "DATA", "DESCRIPTOR", "DESCRIPTION"}

\* oneM2M response status codes (0: the HTTP answer carried none).
NO_RSC       == 0
CREATED      == 2001
NOT_FOUND    == 4004
CONFLICT     == 4105
SERVER_ERROR == 5000
Rscs         == {NO_RSC, CREATED, NOT_FOUND, CONFLICT, SERVER_ERROR}

\* The resource below which a create puts the new one; creating the AE
\* needs nothing but the CSE base.
Parents(op) ==
  CASE op = create_ae                             -> {}
    [] op \in {create_container, create_descriptor} -> {"AE"}
    [] op = populate_descriptor                   -> {"DESCRIPTOR"}
    [] op = reporting                             -> {"DATA"}

\* What a successful create leaves behind; a report is a nameless instance
\* and is kept with the readings, not here.
Made(op) ==
  CASE op = create_ae           -> {"AE"}
    [] op = create_container    -> {"DATA"}
    [] op = create_descriptor   -> {"DESCRIPTOR"}
    [] op = populate_descriptor -> {"DESCRIPTION"}
    [] op = reporting           -> {}

\* Only named resources (the AE and the two containers) can conflict.
Named(op) == op \in {create_ae, create_container, create_descriptor}

\* The status code the server gives a create when it processes it normally.
Answer(known, op) ==
  IF ~ (Parents(op) \subseteq known) THEN NOT_FOUND
  ELSE IF Named(op) /\ Made(op) \subseteq known THEN CONFLICT
  ELSE CREATED

=============================================================================
