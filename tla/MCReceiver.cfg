CONSTANTS
  c1 = c1
  c2 = c2
  p1 = p1
  p2 = p2
  p3 = p3
  p4 = p4
  p5 = p5
  p6 = p6
  Channels <- MCChannels
  Posts <- MCPosts
  Body <- MCBody
  KeepAlive <- MCKeepAlive
  Plan <- MCPlan
  Kind <- MCKind
  Charset <- MCCharset
  MaxFailures = 1
  MaxLosses = 1
  MaxCrashes = 1
SPECIFICATION FairSpec
INVARIANTS
  TypeOK
  PostsTrue
PROPERTIES
  ImplementsService
  EveryPostAnswered
CHECK_DEADLOCK FALSE
