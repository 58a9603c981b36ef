\* One thread schedules. An identifier is used by the client or by callbacks.
SPECIFICATION Spec
CONSTANTS
  Objects = {o1, o2, o3}
  None = None
  Calls <- OwnedCalls
  Schedulers <- MainOnly
  SetupOutcomes = {TRUE, FALSE}
  EventNewOutcomes = {TRUE}
  EventAddOutcomes = {TRUE, FALSE}
  CallbackBlocks = TRUE
SYMMETRY ObjectSymmetry
INVARIANTS
  TypeOK NoUseAfterFree OwnCallbackFinished UniqueIds
  TeardownClean SingleShotFiresOnce
PROPERTIES LoopEndsForAReason ImplementsDispatcher
