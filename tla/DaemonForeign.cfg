SPECIFICATION Spec
CONSTANTS
  alice = alice
  bob = bob
  carol = carol
  fox = fox
  owl = owl
  Words = {fox, owl}
  Blank = blank
  NoText = none
  MaxU64 = 9
  Clients = {alice, bob, carol}
  Foreign = {carol}
  Slow = {alice, bob}
  RequestId <- MCRequestId
  Frames <- StopFrames
  Capacity = 1
  Results <- MCResults
  UiOutcome <- Reliable
  UiEvents <- NoEvents
  MaxUiEvents = 0
  MaxI32 = 9
  MultiThreaded = TRUE
  AcceptFaults = FALSE
  Signals = TRUE
INVARIANTS
  RoutedAtMostOnce
