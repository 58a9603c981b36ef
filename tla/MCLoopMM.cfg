\* Command lines of all three programs.
SPECIFICATION Spec
CONSTANTS
  Argvs <- CommandLines
  W32 = 1024
  W64 = 4096
INVARIANTS
  TypeOK AddressesAsGiven SettingsAsGiven RefusedForAReason SendsSelected
