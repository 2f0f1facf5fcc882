\* Two recipients and two modules; any cells, addresses, calls and failures.
SPECIFICATION Spec
CONSTANTS
  Addr = {alice, bob, carol}
  NMods = 2
  NRcpt = 2
  MaxCalls = 3
INVARIANTS
  TypeOK
  NobodyElseIsDeleted
  DeletedAreGone
  AddedArrive
  FailedRunsAddNobody
  CommonHeadersAreApplied
