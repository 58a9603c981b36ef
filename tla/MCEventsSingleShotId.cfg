\* A one-shot event scheduled with a non-NULL id pointer.
SPECIFICATION Spec
CONSTANTS
  Objects = {o1}
  None = None
  Calls <- SingleShotWithId
  Schedulers <- MainOnly
  SetupOutcomes = {TRUE}
  EventNewOutcomes = {TRUE}
  EventAddOutcomes = {TRUE}
  CallbackBlocks = TRUE
INVARIANT SingleShotFiresOnce
