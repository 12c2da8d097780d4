--------------------------- MODULE OnboardingProofs ---------------------------
(***************************************************************************)
(* Proofs about Onboarding, for any onboarding file and any number of      *)
(* faults and restarts.                                                    *)
(***************************************************************************)
EXTENDS Onboarding, TLAPS

USE DEF Faults

\* Spending a fault keeps the budget a budget.
LEMMA SpendType ==
  ASSUME TypeOK, NEW f \in Faults, left[f] > 0, left' = [left EXCEPT ![f] = @ - 1]
  PROVE  left' \in [Faults -> Nat]
<1>1. left \in [Faults -> Nat] /\ left[f] - 1 \in Nat
  BY DEF TypeOK
<1> QED
  BY <1>1

\* What the operators that spend a fault, or none, leave typed.
LEMMA FaultType ==
  ASSUME ConstantsAssumption, TypeOK, NEW f \in Faults, NoFault \/ Fault(f)
  PROVE  left' \in [Faults -> Nat] /\ faultless' \in BOOLEAN
<1>1. CASE NoFault
  BY <1>1 DEF NoFault, TypeOK
<1>2. CASE Fault(f)
  BY <1>2, SpendType DEF Fault
<1> QED
  BY <1>1, <1>2

\* read_file_to_buffer leaves in file_buffer only what file_buffer may hold.
LEMMA ReadType ==
  ASSUME ConstantsAssumption, TypeOK, NEW name \in Files \cup {"garbage"},
         ReadOk(name) \/ ReadFails(name)
  PROVE  /\ file_buffer' \in Buffers
         /\ left' \in [Faults -> Nat] /\ faultless' \in BOOLEAN
<1>1. NoFault \/ Fault("io")
  BY DEF ReadOk, ReadFails
<1>2. left' \in [Faults -> Nat] /\ faultless' \in BOOLEAN
  BY <1>1, FaultType
<1>3. file_buffer' \in Buffers
  BY DEF ReadOk, ReadFails, TypeOK, Buffers, Files
<1> QED
  BY <1>2, <1>3

\* Deleting a file deletes at most that file.
LEMMA UnlinkType ==
  ASSUME ConstantsAssumption, TypeOK, NEW name, Unlink(name)
  PROVE  /\ files' \subseteq files /\ files \ {name} \subseteq files'
         /\ left' \in [Faults -> Nat] /\ faultless' \in BOOLEAN
<1>1. NoFault \/ Fault("io")
  BY DEF Unlink
<1>2. left' \in [Faults -> Nat] /\ faultless' \in BOOLEAN
  BY <1>1, FaultType
<1> QED
  BY <1>2 DEF Unlink

\* One import: the outcome is stored, or not remembered as a success.
LEMMA ImportStep ==
  ASSUME ConstantsAssumption, TypeOK,
         NEW cred \in {"ca", "psk"}, NEW name \in {"null", "named", "garbage"},
         NEW unlink, NEW next, Import(cred, name, unlink, next)
  PROVE  /\ file_buffer' \in Buffers
         /\ left' \in [Faults -> Nat] /\ faultless' \in BOOLEAN
         /\ \/ name = "null" /\ pc' = next /\ UNCHANGED <<store, success>>
            \/ pc' \in {unlink, next} /\ store' = store \cup {cred} /\ UNCHANGED success
            \/ pc' = next /\ UNCHANGED store /\ success' = FALSE
<1> DEFINE file == Target(name, cred)
<1>1. file \in Files \cup {"garbage"} /\ (file \in files => file \in Files)
  BY DEF Target, Files, TypeOK
<1>2. CASE name = "null" /\ pc' = next /\ NoFault /\ UNCHANGED <<file_buffer, store, success>>
  <2>1. left' \in [Faults -> Nat] /\ faultless' \in BOOLEAN
    BY <1>2, FaultType
  <2> QED
    BY <1>2, <2>1 DEF TypeOK
<1>3. CASE /\ name # "null" /\ ReadOk(file)
           /\ store' = store \cup {cred} /\ UNCHANGED success
           /\ pc' = IF UnlinkDue(TRUE) THEN unlink ELSE next
  BY <1>1, <1>3, ReadType
<1>4. CASE /\ name # "null"
           /\ ReadFails(file) \/ (file \in files /\ file_buffer' = file /\ Fault("store"))
           /\ ImportFailed /\ UNCHANGED store
           /\ pc' = IF UnlinkDue(FALSE) THEN unlink ELSE next
  <2>1. pc' = next /\ success' = FALSE
    BY <1>4 DEF UnlinkDue, ImportFailed
  <2>2. CASE ReadFails(file)
    BY <1>1, <1>4, <2>1, <2>2, ReadType
  <2>3. CASE file \in files /\ file_buffer' = file /\ Fault("store")
    <3>1. left' \in [Faults -> Nat] /\ faultless' \in BOOLEAN
      BY <2>3, FaultType
    <3> QED
      BY <1>1, <1>4, <2>1, <2>3, <3>1 DEF Buffers
  <2> QED
    BY <1>4, <2>2, <2>3
<1> QED
  BY <1>2, <1>3, <1>4 DEF Import

\* Every step keeps the inductive invariant.
LEMMA InvStep ==
  ASSUME ConstantsAssumption, IInv, [Next]_vars
  PROVE  IInv'
<1> USE DEF IInv
<1>1. CASE UNCHANGED vars
  BY <1>1 DEF vars, ram, flash, TypeOK, NamesAreRead, SuccessMeansStored, CredentialsKept
<1>2. CASE ReadOnboard
  <2>1. file_buffer' \in Buffers /\ left' \in [Faults -> Nat] /\ faultless' \in BOOLEAN
    BY <1>2, ReadType DEF ReadOnboard, OnboardFile, Files
  <2> QED
    BY <1>2, <2>1 DEF ReadOnboard, flash, TypeOK, Points, NamesAreRead,
                      SuccessMeansStored, CredentialsKept
<1>3. CASE ImportCa
  <2>1. /\ file_buffer' \in Buffers
        /\ left' \in [Faults -> Nat] /\ faultless' \in BOOLEAN
        /\ \/ ca_file_name = "null" /\ pc' = "import_psk" /\ UNCHANGED <<store, success>>
           \/ /\ pc' \in {"unlink_ca", "import_psk"}
              /\ store' = store \cup {"ca"} /\ UNCHANGED success
           \/ pc' = "import_psk" /\ UNCHANGED store /\ success' = FALSE
    BY <1>3, ImportStep DEF ImportCa, TypeOK
  <2> QED
    BY <1>3, <2>1 DEF ImportCa, TypeOK, Points, NamesAreRead,
                      SuccessMeansStored, CredentialsKept
<1>4. CASE ImportPsk
  <2>1. /\ file_buffer' \in Buffers
        /\ left' \in [Faults -> Nat] /\ faultless' \in BOOLEAN
        /\ \/ psk_file_name = "null" /\ pc' = "unlink_onboard" /\ UNCHANGED <<store, success>>
           \/ /\ pc' \in {"unlink_psk", "unlink_onboard"}
              /\ store' = store \cup {"psk"} /\ UNCHANGED success
           \/ pc' = "unlink_onboard" /\ UNCHANGED store /\ success' = FALSE
    BY <1>4, ImportStep DEF ImportPsk, TypeOK
  <2>2. TypeOK' /\ NamesAreRead' /\ CredentialsKept'
    BY <1>4, <2>1 DEF ImportPsk, TypeOK, Points, NamesAreRead, CredentialsKept
  <2>3. pc = "import_psk" /\ (ca_file_name = "null" <=> "ca" \notin Refs)
        /\ (psk_file_name = "null" <=> "psk" \notin Refs)
    BY <1>4 DEF ImportPsk, NamesAreRead
  <2>4. SuccessMeansStored'
    BY <2>1, <2>3 DEF SuccessMeansStored, TypeOK
  <2> QED
    BY <2>2, <2>4
<1>5. CASE UnlinkCa
  <2>1. \/ Unlink("ca") \/ Unlink("garbage")
    BY <1>5 DEF UnlinkCa, UnlinkRef, Target
  <2>2. /\ files' \subseteq files /\ files \ {"ca", "garbage"} \subseteq files'
        /\ left' \in [Faults -> Nat] /\ faultless' \in BOOLEAN
    BY <2>1, UnlinkType
  <2> QED
    BY <1>5, <2>2 DEF UnlinkCa, UnlinkRef, TypeOK, Points, Files, NamesAreRead,
                      SuccessMeansStored, CredentialsKept
<1>6. CASE UnlinkPsk
  <2>1. \/ Unlink("psk") \/ Unlink("garbage")
    BY <1>6 DEF UnlinkPsk, UnlinkRef, Target
  <2>2. /\ files' \subseteq files /\ files \ {"psk", "garbage"} \subseteq files'
        /\ left' \in [Faults -> Nat] /\ faultless' \in BOOLEAN
    BY <2>1, UnlinkType
  <2> QED
    BY <1>6, <2>2 DEF UnlinkPsk, UnlinkRef, TypeOK, Points, Files, NamesAreRead,
                      SuccessMeansStored, CredentialsKept, ConstantsAssumption
<1>7. CASE UnlinkOnboard
  <2>1. Unlink("onboard") \/ (NoFault /\ UNCHANGED files)
    BY <1>7 DEF UnlinkOnboard
  <2>2. /\ files' \subseteq files /\ files \ {"onboard"} \subseteq files'
        /\ left' \in [Faults -> Nat] /\ faultless' \in BOOLEAN
    BY <2>1, UnlinkType, FaultType
  <2> QED
    BY <1>7, <2>2 DEF UnlinkOnboard, TypeOK, Points, NamesAreRead,
                      SuccessMeansStored, CredentialsKept, ConstantsAssumption
<1>8. CASE ReadConfig
  <2>1. file_buffer' \in Buffers /\ left' \in [Faults -> Nat] /\ faultless' \in BOOLEAN
    BY <1>8, ReadType DEF ReadConfig, Files
  <2> QED
    BY <1>8, <2>1 DEF ReadConfig, flash, TypeOK, Points, NamesAreRead,
                      SuccessMeansStored, CredentialsKept
<1>9. CASE Overwrite
  <2>1. left' \in [Faults -> Nat] /\ faultless' \in BOOLEAN
    BY <1>9, FaultType DEF Overwrite
  <2> QED
    BY <1>9, <2>1 DEF Overwrite, flash, TypeOK, NamesAreRead,
                      SuccessMeansStored, CredentialsKept
<1>10. CASE Reboot
  <2>1. left' \in [Faults -> Nat]
    BY <1>10, SpendType DEF Reboot
  <2> QED
    BY <1>10, <2>1 DEF Reboot, flash, TypeOK, Points, Buffers, NamesAreRead,
                       SuccessMeansStored, CredentialsKept
<1> QED
  BY <1>1, <1>2, <1>3, <1>4, <1>5, <1>6, <1>7, <1>8, <1>9, <1>10 DEF Next, Onboard

\* A device as it leaves the factory satisfies the inductive invariant.
LEMMA InvInit == ASSUME ConstantsAssumption, Init PROVE IInv
BY DEF ConstantsAssumption, Init, IInv, TypeOK, Points, Files, Buffers, NamesAreRead,
       SuccessMeansStored, CredentialsKept

\* The inductive invariant holds throughout.
THEOREM Invariance == Spec => []IInv
<1>1. Init => IInv
  BY InvInit, ConstantsAssumption
<1>2. IInv /\ [Next]_vars => IInv'
  BY InvStep, ConstantsAssumption
<1> QED
  BY <1>1, <1>2, PTL DEF Spec

\* No credential is lost, whatever fails and whenever the device restarts:
\* onboard_security deletes a source file only after its import succeeded.
THEOREM NoCredentialIsLost == Spec => []CredentialsKept
<1>1. IInv => CredentialsKept
  BY DEF IInv
<1> QED
  BY <1>1, Invariance, PTL

\* onboard_security deletes the onboarding file only when every credential
\* it names is in the secure store.
THEOREM OnboardFileIsKept == Spec => DeletedWhenDone
<1> DEFINE Step == ("onboard" \in files /\ "onboard" \notin files') => Refs \subseteq store
<1>1. IInv /\ [Next]_vars => [Step]_vars
  <2> SUFFICES ASSUME IInv, Next, "onboard" \in files, "onboard" \notin files'
               PROVE  Refs \subseteq store
    OBVIOUS
  <2>1. UnlinkOnboard
    <3>1. \A name : Unlink(name) /\ name # "onboard" => "onboard" \in files'
      BY DEF Unlink
    <3>2. Target(ca_file_name, "ca") # "onboard" /\ Target(psk_file_name, "psk") # "onboard"
      BY DEF Target
    <3>3. ~ UnlinkCa /\ ~ UnlinkPsk
      BY <3>1, <3>2 DEF UnlinkCa, UnlinkPsk, UnlinkRef
    <3> QED
      BY <3>3 DEF Next, Onboard, ReadOnboard, ImportCa, ImportPsk, ReadConfig, Overwrite,
                  Reboot, flash, vars
  <2>2. success /\ pc = "unlink_onboard"
    BY <2>1 DEF UnlinkOnboard, WillDelete
  <2> QED
    BY <2>2, ConstantsAssumption DEF ConstantsAssumption, IInv, SuccessMeansStored
<1> QED
  BY <1>1, Invariance, PTL DEF Spec, DeletedWhenDone

\* An import of a file that is there fails only by a fault.
LEMMA FaultlessImport ==
  ASSUME NEW cred \in {"ca", "psk"}, NEW name \in {"null", "named"}, NEW unlink, NEW next,
         name = "named" => cred \in files, Import(cred, name, unlink, next)
  PROVE  /\ faultless' => faultless /\ UNCHANGED success
         /\ pc' \in {unlink, next}
<1> DEFINE file == Target(name, cred)
<1>1. name # "null" => file = cred /\ file \in files
  BY DEF Target
<1>2. NoFault => UNCHANGED faultless
  BY DEF NoFault
<1>3. \A f : Fault(f) => ~ faultless'
  BY DEF Fault
<1>4. CASE name = "null" /\ pc' = next /\ NoFault /\ UNCHANGED <<file_buffer, store, success>>
  BY <1>2, <1>4
<1>5. CASE /\ name # "null" /\ ReadOk(file)
           /\ store' = store \cup {cred} /\ UNCHANGED success
           /\ pc' = IF UnlinkDue(TRUE) THEN unlink ELSE next
  BY <1>2, <1>5 DEF ReadOk
<1>6. CASE /\ name # "null"
           /\ ReadFails(file) \/ (file \in files /\ file_buffer' = file /\ Fault("store"))
           /\ ImportFailed /\ UNCHANGED store
           /\ pc' = IF UnlinkDue(FALSE) THEN unlink ELSE next
  <2>1. ~ faultless'
    BY <1>1, <1>3, <1>6 DEF ReadFails
  <2> QED
    BY <1>6, <2>1
<1> QED
  BY <1>4, <1>5, <1>6 DEF Import

\* Every step keeps FaultlessSucceeds.
LEMMA FaultlessStep ==
  ASSUME ConstantsAssumption, IInv, FaultlessSucceeds, [Next]_vars
  PROVE  FaultlessSucceeds'
<1> USE DEF IInv
<1>1. CASE UNCHANGED vars
  BY <1>1 DEF vars, ram, flash, FaultlessSucceeds
<1>2. CASE ReadOnboard
  <2>1. CASE /\ ReadOk("onboard")
             /\ pc' = "import_ca" /\ success' = TRUE
             /\ ca_file_name'  = IF "ca" \in Refs THEN "named" ELSE "null"
             /\ psk_file_name' = IF "psk" \in Refs THEN "named" ELSE "null"
    BY <1>2, <2>1 DEF ReadOnboard, ReadOk, NoFault, flash, FaultlessSucceeds
  <2>2. CASE /\ \/ OnboardFile = "not_object" /\ ReadOk(OnboardFile)
                \/ ReadFails(OnboardFile)
             /\ pc' = "read_config"
             /\ UNCHANGED <<ca_file_name, psk_file_name, success>>
    <3>1. ("onboard" \notin files /\ NoFault) \/ Fault("io")
      BY <2>2 DEF ReadOk, ReadFails, OnboardFile
    <3> QED
      BY <1>2, <2>2, <3>1 DEF ReadOnboard, NoFault, Fault, flash, FaultlessSucceeds
  <2> QED
    BY <1>2, <2>1, <2>2 DEF ReadOnboard
<1>3. CASE ImportCa
  <2>1. CASE ca_file_name = "garbage" \/ ~ faultless
    <3>1. ~ faultless
      BY <2>1 DEF FaultlessSucceeds
    <3>2. ~ faultless'
      BY <1>3, <3>1 DEF ImportCa, Import, ReadOk, ReadFails, NoFault, Fault
    <3> QED
      BY <3>2 DEF FaultlessSucceeds
  <2>2. CASE ca_file_name # "garbage" /\ faultless
    <3>1. ca_file_name \in {"null", "named"}
      BY <2>2 DEF TypeOK
    <3>2. ca_file_name = "named" => "ca" \in files
      BY <1>3, <2>2 DEF ImportCa, NamesAreRead, FaultlessSucceeds
    <3>3. /\ faultless' => UNCHANGED success
          /\ pc' \in {"unlink_ca", "import_psk"}
      BY <1>3, <3>1, <3>2, FaultlessImport DEF ImportCa
    <3> QED
      BY <1>3, <2>2, <3>3 DEF ImportCa, FaultlessSucceeds
  <2> QED
    BY <2>1, <2>2
<1>4. CASE ImportPsk
  <2>1. CASE psk_file_name = "garbage" \/ ~ faultless
    <3>1. ~ faultless
      BY <2>1 DEF FaultlessSucceeds
    <3>2. ~ faultless'
      BY <1>4, <3>1 DEF ImportPsk, Import, ReadOk, ReadFails, NoFault, Fault
    <3> QED
      BY <3>2 DEF FaultlessSucceeds
  <2>2. CASE psk_file_name # "garbage" /\ faultless
    <3>1. psk_file_name \in {"null", "named"}
      BY <2>2 DEF TypeOK
    <3>2. psk_file_name = "named" => "psk" \in files
      BY <1>4, <2>2 DEF ImportPsk, NamesAreRead, FaultlessSucceeds
    <3>3. /\ faultless' => UNCHANGED success
          /\ pc' \in {"unlink_psk", "unlink_onboard"}
      BY <1>4, <3>1, <3>2, FaultlessImport DEF ImportPsk
    <3> QED
      BY <1>4, <2>2, <3>3 DEF ImportPsk, FaultlessSucceeds
  <2> QED
    BY <2>1, <2>2
<1>5. CASE UnlinkCa
  BY <1>5 DEF UnlinkCa, UnlinkRef, Target, Unlink, NoFault, Fault, FaultlessSucceeds
<1>6. CASE UnlinkPsk
  BY <1>6 DEF UnlinkPsk, UnlinkRef, Target, Unlink, NoFault, Fault, FaultlessSucceeds
<1>7. CASE UnlinkOnboard
  BY <1>7 DEF UnlinkOnboard, WillDelete, Unlink, NoFault, Fault, FaultlessSucceeds
<1>8. CASE ReadConfig
  BY <1>8 DEF ReadConfig, ReadOk, ReadFails, NoFault, Fault, flash, FaultlessSucceeds
<1>9. CASE Overwrite
  BY <1>9 DEF Overwrite, Fault, flash, FaultlessSucceeds
<1>10. CASE Reboot
  BY <1>10 DEF Reboot, flash, FaultlessSucceeds
<1> QED
  BY <1>1, <1>2, <1>3, <1>4, <1>5, <1>6, <1>7, <1>8, <1>9, <1>10 DEF Next, Onboard

\* Every variable of the onboarding keeps its type: file_buffer, too, holds a
\* whole file, a part of one or nothing.
THEOREM TypeCorrect == Spec => []TypeOK
<1>1. IInv => TypeOK
  BY DEF IInv
<1> QED
  BY <1>1, Invariance, PTL

\* A boot that finds every credential file and meets with no fault leaves no
\* onboarding file behind (onboard_security, MeterMain.c:303-310).
THEOREM ProcessedIsDeleted == Spec => []DeletedAfterProcessing
<1>1. Init => FaultlessSucceeds
  BY ConstantsAssumption DEF ConstantsAssumption, Init, FaultlessSucceeds
<1>2. IInv /\ FaultlessSucceeds /\ [Next]_vars => FaultlessSucceeds'
  BY FaultlessStep, ConstantsAssumption
<1>3. FaultlessSucceeds => DeletedAfterProcessing
  BY DEF FaultlessSucceeds, DeletedAfterProcessing
<1> QED
  BY <1>1, <1>2, <1>3, Invariance, PTL DEF Spec

=============================================================================
