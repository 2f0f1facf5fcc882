\* A module adds a header in a cell of one recipient only.
SPECIFICATION Spec
CONSTANTS
  Addr = {alice, bob}
  NMods = 1
  NRcpt = 2
  MaxCalls = 1
INVARIANT PrivateHeadersStayPrivate
