\* The first recipient accepts, a later one rejects at the headers.
SPECIFICATION Spec
CONSTANTS
  a1 = a1
  a2 = a2
  Addr = {a1, a2}
  NMods = 2
  MaxRcpt = 2
  Equal <- BlockThenSieveEqual
  Status <- HeadersThenAny
  Can <- PlainThenSieve
  Dynamic = {2}
  Never = {FALSE}
  Start <- PrdrClient
INVARIANT DisagreementIsAnswered
