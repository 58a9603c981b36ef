\* Client and callbacks schedule at the same time. Nobody keeps an identifier.
SPECIFICATION Spec
CONSTANTS
  Objects = {o1, o2, o3}
  None = None
  Calls <- AnonymousCalls
  Schedulers = {"main", "loop"}
  SetupOutcomes = {TRUE}
  EventNewOutcomes = {TRUE}
  EventAddOutcomes = {TRUE, FALSE}
  CallbackBlocks = TRUE
SYMMETRY ObjectSymmetry
INVARIANTS
  NoUseAfterFree TeardownClean
