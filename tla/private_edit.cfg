CONSTANTS
  ann = ann  bob = bob  cat = cat  r1 = r1  r2 = r2
  Users <- TwoUsers
  Requests <- OneRequest
  MaxPosts = 1  MaxIds = 2
SPECIFICATION Spec
INVARIANT PrivateStaysHome
