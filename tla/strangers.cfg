CONSTANTS
  ann = ann  bob = bob  cat = cat  r1 = r1  r2 = r2
  Users <- TwoUsers
  Slots <- TwoSlots
  Enabled <- ConsentOps
  MaxRows = 3
SPECIFICATION Spec
SYMMETRY Interchangeable
INVARIANTS OneOpeningMessage NoReceiptBeforeConsent StrangersAreNotCounted
