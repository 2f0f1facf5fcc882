\* A module that rejects at the end of the message ends the daemon.
SPECIFICATION Spec
CONSTANTS
  a1 = a1
  a2 = a2
  Addr = {a1, a2}
  NMods = 2
  MaxRcpt = 2
  Equal <- BlockThenSieveEqual
  Status <- RcptAndBody
  Can <- PlainThenSieve
  Dynamic = {2}
  Never = {FALSE}
  Start <- AnyClient
INVARIANT BodyVerdictIsAnswered
