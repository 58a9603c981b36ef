\* Teardown and cancel return, armed timers fire.
SPECIFICATION OrderedSpec
CONSTANTS
  Objects = {o1, o2}
  None = None
  Calls <- OwnedCalls
  Schedulers <- MainOnly
  SetupOutcomes = {TRUE}
  EventNewOutcomes = {TRUE}
  EventAddOutcomes = {TRUE, FALSE}
  CallbackBlocks = TRUE
PROPERTIES
  TeardownReturns CancelReturns TimerFires
