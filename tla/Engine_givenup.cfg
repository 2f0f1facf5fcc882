\* mod_sieve alone: the first recipient's script needs the body, the last one's not.
SPECIFICATION Spec
CONSTANTS
  a1 = a1
  a2 = a2
  Addr = {a1, a2}
  NMods = 1
  MaxRcpt = 2
  Equal <- SieveEqual
  Status <- JustRcpt
  Can <- JustSieve
  Dynamic = {1}
  Never = {FALSE}
  Start <- PrdrClient
INVARIANT GivenUpInTime
