CONSTANTS
  ann = ann  bob = bob  r1 = r1  r2 = r2  Nobody = Nobody
  Users <- TwoUsers
  Slots <- TwoSlots
SPECIFICATION SessionSpec
INVARIANTS SessionTypeOK CookiesAreTheUsers SessionInv
PROPERTIES ExpiryIsSilent RequestsSettle
