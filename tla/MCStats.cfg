\* Every command line, odd gaps, fast and slow networks; one fault of any kind.
SPECIFICATION FairSpec
CONSTANTS
  Reader = reader
  NoCallback = NoCallback
  Sessions <- AllSessions
  AllLimit = 5
  Width = 16
  MaxFaults = 1
INVARIANTS
  TypeOK TimelyAttribution CompleteReport RequestTypeSetBeforeUse SocketOutlivesReader
PROPERTIES
  GapKept Terminates
