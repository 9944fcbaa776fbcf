SPECIFICATION Spec
CONSTANTS
  alice = alice
  bob = bob
  carol = carol
  fox = fox
  owl = owl
  Words = {fox, owl}
  Blank = blank
  NoText = none
  MaxU64 = 9
  Clients = {alice, bob}
  Foreign = {}
  Slow = {alice, bob}
  RequestId <- MCRequestId
  Frames <- ProtocolFrames
  Capacity = 1
  Results <- MCResults
  UiOutcome <- Window
  UiEvents <- NoEvents
  MaxUiEvents = 0
  MaxI32 = 9
  MultiThreaded = TRUE
  AcceptFaults = TRUE
  Signals = TRUE
INVARIANTS
  TypeOK
  RefusedWasNotRouted
  NothingLeftBehind
  
PROPERTIES
  ImplementsService
