SPECIFICATION FairSpec
CONSTANTS
  fox = fox
  owl = owl
  Words = {fox, owl}
  Blank = blank
  NoText = none
  MaxU64 = 9
  MaxI32 = 9
  Ids = {1, 2, 3}
  Names = {fox, owl}
  Trees <- MCTrees
  Alphabet <- MCAlphabet
  Matches <- MCMatches
  ResultLimit = 2
  Unsupported = {owl}
  MaxChildren = 2
  Requests <- ClientRequests
  MaxRequests = 2
  Keys <- UserKeys
  MaxKeys = 2
  Slots = 1
  EventSlots = 1
  Faults <- AllFaults
INVARIANTS
  TypeOK
  FirstIdWins
  WindowAgrees
  ChildrenAreOwned
  SuccessIsClean
PROPERTIES
  EnterHidesOnLaunch
  ProcessEnds
  FinishedAreReaped
