CONSTANTS
  ann = ann  bob = bob  cat = cat  r1 = r1  r2 = r2
  Users <- TwoUsers
  Slots <- TwoSlots
  Enabled <- LockingOps
  MaxRows = 3
SPECIFICATION FairSpec
PROPERTY EveryRequestAnswered
