------------------------------ MODULE Onboarding ------------------------------
(***************************************************************************)
(* Onboarding of security credentials and reading of the configuration by  *)
(* the BG96 meter: onboard_security and the head of run_ae in              *)
(* src/client_c/src/MeterMain.c, with the helpers of http_utils.c.         *)
(*                                                                         *)
(* security_onboard.json names up to two credential files.  Each is read   *)
(* and converted into the secure store; its file may then be deleted, and  *)
(* the onboarding file too.  The files and the store survive a reboot,     *)
(* everything else does not, and the device may reboot between any two     *)
(* operations on them.  The file system and the secure store fail, and the *)
(* freed names are overwritten, at most Budget times.                      *)
(***************************************************************************)
EXTENDS Integers

CONSTANTS
  Refs,        \* the credentials security_onboard.json names
  delete_ref,  \* its delete_ref_files is true
  no_delete,   \* its no_delete_onboard_file is true
  Budget       \* bound: how often each fault may strike

\* io      a file cannot be opened, read or deleted
\* store   a credential cannot be converted and stored
\* freed   memory released by json_value_free is overwritten before its use
\* reboot  the device restarts
Faults == {"io", "store", "freed", "reboot"}

ASSUME ConstantsAssumption ==
  /\ Refs \subseteq {"ca", "psk"}
  /\ delete_ref \in BOOLEAN /\ no_delete \in BOOLEAN
  /\ Budget \in [Faults -> Nat]

VARIABLES
  pc,           \* where the main thread is
  files,        \* the files in flash
  store,        \* the credentials in the secure store
  file_buffer,  \* global file_buffer: what it holds
  ca_file_name, psk_file_name,  \* locals: "null", "named" or "garbage"
  success,      \* local of onboard_security
  faultless,    \* no fault has struck since a boot with every credential file
  left          \* what is left of Budget

ram   == <<pc, file_buffer, ca_file_name, psk_file_name, success>>
flash == <<files, store>>
vars  == <<ram, flash, faultless, left>>

\* security_onboard.json is "onboard", or "not_object" when what it holds is no
\* JSON object.
Files   == {"onboard", "not_object", "ca", "psk", "config"}
Buffers == Files \cup {"zeros", "part"}
Points  == {"read_onboard", "import_ca", "unlink_ca", "import_psk", "unlink_psk",
            "unlink_onboard", "read_config", "configured", "stopped"}

Init ==
  /\ pc = "read_onboard" /\ file_buffer = "zeros"
  /\ ca_file_name = "null" /\ psk_file_name = "null" /\ success = FALSE
  /\ files \in {Refs \cup {"onboard", "config"}, Refs \cup {"onboard"}, {"config"},
                {"not_object", "config"}}
  /\ store = {}
  /\ faultless = TRUE /\ left = Budget

NoFault  == UNCHANGED <<faultless, left>>
Fault(f) == left[f] > 0 /\ left' = [left EXCEPT ![f] = @ - 1] /\ faultless' = FALSE

\* read_file_to_buffer: name is one of Files, or "garbage" which is no file.
\* A read that fails half way leaves part of the file behind.  Mutated: the
\* tail of what was read before stays in the buffer.
ReadOk_NotTerminated(name) ==
  /\ name \in files /\ NoFault
  /\ file_buffer' = IF file_buffer = "zeros" THEN name ELSE "overlaid"
ReadOk(name) ==
  name \in files /\ file_buffer' = name /\ NoFault
ReadFails(name) ==
  \/ name \notin files /\ UNCHANGED file_buffer /\ NoFault
  \/ name \in files /\ file_buffer' \in {file_buffer, "part"} /\ Fault("io")

\* qapi_FS_Unlink, whose status nobody looks at.
Unlink(name) ==
  \/ files' = files \ {name} /\ NoFault
  \/ UNCHANGED files /\ Fault("io")

\* The file that is used for a name.  json_value_free has released the memory
\* of both names before their first use.
Target(name, cred) == IF name = "named" THEN cred ELSE "garbage"

\* The released memory of a name is used for something else.
Overwrite ==
  /\ pc \in {"import_ca", "unlink_ca", "import_psk", "unlink_psk"}
  /\ Fault("freed")
  /\ \/ ca_file_name = "named" /\ ca_file_name' = "garbage" /\ UNCHANGED psk_file_name
     \/ psk_file_name = "named" /\ psk_file_name' = "garbage" /\ UNCHANGED ca_file_name
  /\ UNCHANGED <<pc, file_buffer, success, flash>>

OnboardFile == IF "onboard" \in files THEN "onboard" ELSE "not_object"

\* onboard_security up to the parsed flags and names.  Without the file, or
\* with one it cannot read or that is no object, the meter goes on without
\* onboarding.
ReadOnboard ==
  /\ pc = "read_onboard"
  /\ \/ /\ ReadOk("onboard")
        /\ pc' = "import_ca" /\ success' = TRUE
        /\ ca_file_name'  = IF "ca" \in Refs THEN "named" ELSE "null"
        /\ psk_file_name' = IF "psk" \in Refs THEN "named" ELSE "null"
     \/ /\ \/ OnboardFile = "not_object" /\ ReadOk(OnboardFile)
           \/ ReadFails(OnboardFile)
        /\ pc' = "read_config"
        /\ UNCHANGED <<ca_file_name, psk_file_name, success>>
  /\ UNCHANGED flash

\* A failed import is remembered.
ImportFailed == success' = FALSE

\* Mutated: the status of the import is not looked at.
UnlinkDue_AnyStatus(stored) == delete_ref
UnlinkDue(stored) == delete_ref /\ stored

\* store_pem_ca_list and store_psk_list: read the file, convert and store it.
Import(cred, name, unlink, next) ==
  LET file == Target(name, cred) IN
  \/ /\ name = "null"
     /\ pc' = next /\ NoFault /\ UNCHANGED <<file_buffer, store, success>>
  \/ /\ name # "null" /\ ReadOk(file)
     /\ store' = store \cup {cred} /\ UNCHANGED success
     /\ pc' = IF UnlinkDue(TRUE) THEN unlink ELSE next
  \/ /\ name # "null"
     /\ ReadFails(file) \/ (file \in files /\ file_buffer' = file /\ Fault("store"))
     /\ ImportFailed /\ UNCHANGED store
     /\ pc' = IF UnlinkDue(FALSE) THEN unlink ELSE next

ImportCa ==
  /\ pc = "import_ca"
  /\ Import("ca", ca_file_name, "unlink_ca", "import_psk")
  /\ UNCHANGED <<ca_file_name, psk_file_name, files>>

ImportPsk ==
  /\ pc = "import_psk"
  /\ Import("psk", psk_file_name, "unlink_psk", "unlink_onboard")
  /\ UNCHANGED <<ca_file_name, psk_file_name, files>>

\* The source file of a stored credential is deleted.
UnlinkRef(cred, name, next) ==
  /\ Unlink(Target(name, cred))
  /\ pc' = next
  /\ UNCHANGED <<file_buffer, ca_file_name, psk_file_name, success, store>>

UnlinkCa  == pc = "unlink_ca"  /\ UnlinkRef("ca", ca_file_name, "import_psk")
UnlinkPsk == pc = "unlink_psk" /\ UnlinkRef("psk", psk_file_name, "unlink_onboard")

\* Mutated: the onboarding file goes whatever became of the imports.
WillDelete_Always == ~ no_delete

\* Mutated: nodelete is taken the other way round.
WillDelete_Inverted == no_delete /\ success

\* The onboarding file goes when every import succeeded.
WillDelete == ~ no_delete /\ success

UnlinkOnboard ==
  /\ pc = "unlink_onboard"
  /\ IF WillDelete THEN Unlink("onboard") ELSE NoFault /\ UNCHANGED files
  /\ pc' = "read_config"
  /\ UNCHANGED <<file_buffer, ca_file_name, psk_file_name, success, store>>

\* run_ae reads the configuration without looking at the status, and parses
\* whatever file_buffer holds: only http_config.json has the mandatory keys.
ReadConfig ==
  /\ pc = "read_config"
  /\ ReadOk("config") \/ ReadFails("config")
  /\ pc' = IF file_buffer' = "config" THEN "configured" ELSE "stopped"
  /\ UNCHANGED <<ca_file_name, psk_file_name, success, flash>>

Onboard == \/ ReadOnboard \/ ImportCa \/ UnlinkCa \/ ImportPsk \/ UnlinkPsk
           \/ UnlinkOnboard \/ ReadConfig

\* The device restarts: by power loss at any time.
Reboot ==
  /\ left["reboot"] > 0 /\ left' = [left EXCEPT !["reboot"] = @ - 1]
  /\ pc' = "read_onboard" /\ file_buffer' = "zeros"
  /\ ca_file_name' = "null" /\ psk_file_name' = "null" /\ success' = FALSE
  /\ faultless' = (Refs \subseteq files)
  /\ UNCHANGED flash

Next == Onboard \/ Overwrite \/ Reboot
           \/ (pc \in {"configured", "stopped"} /\ UNCHANGED vars)

Spec == Init /\ [][Next]_vars

-----------------------------------------------------------------------------
(***************************************************************************)
(* Properties.                                                             *)
(***************************************************************************)
TypeOK ==
  /\ pc \in Points /\ files \subseteq Files /\ store \subseteq {"ca", "psk"}
  /\ file_buffer \in Buffers
  /\ ca_file_name \in {"null", "named", "garbage"}
  /\ psk_file_name \in {"null", "named", "garbage"}
  /\ success \in BOOLEAN /\ faultless \in BOOLEAN /\ left \in [Faults -> Nat]

\* A credential is never lost: as long as the onboarding file asks for it, it
\* is in its file or in the secure store, whatever fails and whenever the
\* device restarts.
CredentialsKept ==
  "onboard" \in files => \A cred \in Refs : cred \in files \/ cred \in store

\* The onboarding file disappears only when there is nothing left to onboard.
\* (A device delivered without one has nothing to onboard either.)
DeletedWhenDone ==
  [][("onboard" \in files /\ "onboard" \notin files') => Refs \subseteq store]_vars

\* The onboarding file is deleted after it has been processed
\* (MeterMain.c:79): once a boot that finds every credential file and meets
\* with no fault is past onboarding, it is gone.  A boot cut short may leave it
\* without a credential file; no import of it can succeed then, and it stays.
DeletedAfterProcessing ==
  (pc = "configured" /\ faultless /\ ~ no_delete) => "onboard" \notin files

-----------------------------------------------------------------------------
(***************************************************************************)
(* What the proofs need besides.                                           *)
(***************************************************************************)

\* A name is there exactly when the onboarding file has it.
NamesAreRead ==
  pc \in {"import_ca", "unlink_ca", "import_psk", "unlink_psk", "unlink_onboard"} =>
    /\ ca_file_name = "null" <=> "ca" \notin Refs
    /\ psk_file_name = "null" <=> "psk" \notin Refs

\* What success, and being about to delete a file, says of the store.
SuccessMeansStored ==
  /\ pc = "unlink_ca" => "ca" \in store
  /\ pc = "unlink_psk" => "psk" \in store
  /\ (success /\ pc \in {"unlink_ca", "import_psk", "unlink_psk", "unlink_onboard"})
       => "ca" \in store \/ "ca" \notin Refs
  /\ (success /\ pc \in {"unlink_psk", "unlink_onboard"})
       => "psk" \in store \/ "psk" \notin Refs

IInv == TypeOK /\ NamesAreRead /\ SuccessMeansStored /\ CredentialsKept

\* As long as no fault has struck, every file a pending import needs is there,
\* the imports so far have succeeded, and the onboarding file is gone after them.
FaultlessSucceeds ==
  faultless =>
    /\ ca_file_name # "garbage" /\ psk_file_name # "garbage"
    /\ (pc = "import_ca" \/ (pc = "read_onboard" /\ "onboard" \in files)) => Refs \subseteq files
    /\ pc \in {"unlink_ca", "import_psk"} => Refs \subseteq files \cup {"ca"}
    /\ pc \in {"import_ca", "unlink_ca", "import_psk", "unlink_psk", "unlink_onboard"} => success
    /\ (pc \in {"read_config", "configured"} /\ ~ no_delete) => "onboard" \notin files

=============================================================================
