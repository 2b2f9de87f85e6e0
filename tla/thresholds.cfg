SPECIFICATION Spec
CONSTANTS
  None = None
  Fields <- MCFields
  Values <- MCValues
  ValidValues <- MCValid
  Defaults <- MCDefaults
  Updates <- MCUpdates
  Clients = {c1, c2, c3}
SYMMETRY MCSymmetry
INVARIANTS
  TypeOK
  StoredIsValid
PROPERTIES
  OnlyUpdatesChange
  OnlyOvertakenFieldsRevert
