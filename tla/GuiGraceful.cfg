SPECIFICATION Spec
CONSTANTS
  fox = fox
  owl = owl
  Words = {fox, owl}
  Blank = blank
  NoText = none
  MaxU64 = 9
  MaxI32 = 9
  Ids = {1, 2, 3}
  Names = {fox, owl}
  Trees <- PlainTrees
  Alphabet <- MCAlphabet
  Matches <- MCMatches
  ResultLimit = 2
  Unsupported = {owl}
  MaxChildren = 1
  Requests <- StopRequests
  MaxRequests = 2
  Keys <- NoKeys
  MaxKeys = 0
  Slots = 32
  EventSlots = 64
  Faults = {}
INVARIANTS
  StopsGracefully
