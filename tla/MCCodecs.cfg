SPECIFICATION CodecSpec
CONSTANTS
  Bits = 3
  Addresses <- MCAddresses
  Requests <- MCRequests
  Literal <- MCLiteral
  Frames <- MCFrames
  Queries <- MCQueries
  Tables <- MCTables
  Lists <- MCLists
INVARIANTS SameTarget HeadCarried QuestionsAgree ListsDecide
CHECK_DEADLOCK FALSE
