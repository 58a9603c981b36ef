\* A network that answers one gap later than the sleeps of main allow for.
SPECIFICATION Spec
CONSTANTS
  Reader = reader
  NoCallback = NoCallback
  Sessions <- SlowNetwork
  AllLimit = 5
  Width = 16
  MaxFaults = 0
INVARIANT AttributionCorrect
