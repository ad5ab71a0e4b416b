CONSTANTS
  ann = ann  bob = bob  cat = cat  r1 = r1  r2 = r2
  Users <- TwoUsers
  Slots <- TwoSlots
  Enabled <- AllOps
  MaxRows = 2
SPECIFICATION Spec
SYMMETRY Interchangeable
INVARIANTS TypeOK OneRowPerPair NoFriendshipPredatesBlock EventsFollowCommits CoreInv
PROPERTIES RequestLifecycle ConsentKept
