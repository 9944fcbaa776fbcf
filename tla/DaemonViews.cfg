SPECIFICATION Spec
CONSTANTS
  alice = alice
  bob = bob
  carol = carol
  fox = fox
  owl = owl
  Words = {fox, owl}
  Blank = blank
  NoText = none
  MaxU64 = 9
  Clients = {alice, bob}
  Foreign = {}
  Slow = {}
  RequestId <- MCRequestId
  Frames <- StateFrames
  Capacity = 2
  Results <- MCResults
  UiOutcome <- Window
  UiEvents <- KeyPresses
  MaxUiEvents = 2
  MaxI32 = 9
  MultiThreaded = FALSE
  AcceptFaults = FALSE
  Signals = FALSE
INVARIANTS
  
  UiInSync
  GenerationIdentifiesView
PROPERTIES
  ShutdownIsLast
  ArrowsFollow
  ImplementsService
