\* Numbers that are accepted or refused against what the messages say.
SPECIFICATION Spec
CONSTANTS
  Argvs <- NumberLines
  W32 = 1024
  W64 = 4096
INVARIANT NumbersAsExpected
