SPECIFICATION Spec
CONSTANTS
  alice = alice
  bob = bob
  carol = carol
  fox = fox
  owl = owl
  Words = {fox, owl}
  Blank = blank
  NoText = none
  MaxU64 = 9
  Clients = {alice, bob}
  Foreign = {}
  Slow = {}
  RequestId <- MCRequestId
  Frames <- FarFrames
  Capacity = 1
  Results <- MCResults
  UiOutcome <- Reliable
  UiEvents <- KeyPresses
  MaxUiEvents = 2
  MaxI32 = 1
  MultiThreaded = FALSE
  AcceptFaults = FALSE
  Signals = FALSE
PROPERTIES
  ArrowsFollow
