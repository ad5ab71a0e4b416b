CONSTANTS
  ann = ann  bob = bob  cat = cat  r1 = r1  r2 = r2
  Users <- ThreeUsers
  Slots <- TwoSlots
  Enabled <- RowOps
  MaxRows = 2
SPECIFICATION Spec
SYMMETRY Interchangeable
PROPERTY OnlyTheEntitled
