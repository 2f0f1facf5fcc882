\* Two threads, a list with a sub-list, one address; twice a call fails, the
\* daemon dies or a key expires.
SPECIFICATION Spec
CONSTANTS
  None = None
  Worker = {w1, w2}
  List = {"main-L", "sub-L"}
  Email = {alice}
  Sublists <- OneSublist
  MaxComplaints = 3
  MaxChanges = 1
  MaxLosses = 2
INVARIANTS
  TypeOK
  ToldOnce
  NotRemovedAgain
  NoneLeft
PROPERTY ComplaintsEnd
