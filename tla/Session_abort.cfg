\* A message is aborted and another one begins.
SPECIFICATION Spec
CONSTANTS
  Null = Null
  MaxMsg = 2
INVARIANT AbortEndsTheMessageOnly
