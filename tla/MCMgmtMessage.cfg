\* Frames of all kinds and lengths, complete and cut off.
SPECIFICATION Spec
CONSTANTS
  Frames <- SomeFrames
  Requests <- SomeRequests
INVARIANTS
  TypeOK InBounds GivenAsCounted StatusTellsCompleteness EitherKindFits SentIsAccepted
