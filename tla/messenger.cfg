CONSTANTS
  me = me  ann = ann  bob = bob  r1 = r1  r2 = r2  Nobody = Nobody
  Users <- TwoUsers
  Me <- me
  Slots <- TwoSlots
  MaxRows = 3  MaxLoads = 2  MaxEvents = 2  MaxTurns = 2
SPECIFICATION MessengerSpec
SYMMETRY Interchangeable
INVARIANTS MessengerTypeOK WindowIsCurrent NothingUnnoticed TicksAreTrue
CHECK_DEADLOCK FALSE
