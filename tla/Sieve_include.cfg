\* A default script that includes a personal one, for two recipients.
SPECIFICATION Spec
CONSTANTS
  alice = alice
  bob = bob
  None = None
  Addr = {alice, bob}
  Path = {"siv.bc", "default.bc"}
  Script = {"common"}
  Program <- Programs
  MaxRcpt = 2
  MaxUploads = 0
INVARIANT IncludesAreOwn
