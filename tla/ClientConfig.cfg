SPECIFICATION Spec
CONSTANTS
  Texts = {"default", "other"}
  Numbers = {2, 5, 10, 1000000}
  Passwords <- MCPasswords
  Defaults <- MCDefaults
  CommandLines <- MCCommandLines
INVARIANTS
  TypeOK
  SavedIsReadBack
  PasswordIsKnown
  BufferFits
