CONSTANTS
  me = me  ann = ann  r1 = r1  r2 = r2
  Users <- TwoUsers
  Requests <- TwoRequests
  Me <- me
  Nowhere = Nowhere
  Views <- FeedAndProfile
  Already <- TwoPosts
  PageSize = 1  MaxPosts = 3  MaxIds = 3
  MaxLoads = 2  MaxInbox = 2  MaxTurns = 3
SPECIFICATION PagesSpec
SYMMETRY Interchangeable
INVARIANTS PagesTypeOK NoDuplicates MirrorsServer
CHECK_DEADLOCK FALSE
