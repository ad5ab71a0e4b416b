CONSTANTS
  ann = ann  bob = bob  d1 = d1  d2 = d2  r1 = r1  r2 = r2
  Words <- TwoWords
  Displays <- OneDisplay
  Slots <- TwoSlots
  MaxUsers = 2
SPECIFICATION AccountsSpec
SYMMETRY Interchangeable
INVARIANTS AccountsTypeOK EmailsDistinct AccountsInv
PROPERTIES CredentialsOpen
