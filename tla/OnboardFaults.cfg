SPECIFICATION Spec
CONSTANTS
  Refs = {"ca", "psk"}
  delete_ref = TRUE
  no_delete = FALSE
  Budget <- FaultyBudget
INVARIANTS
  TypeOK
  CredentialsKept
  DeletedAfterProcessing
PROPERTIES
  DeletedWhenDone
