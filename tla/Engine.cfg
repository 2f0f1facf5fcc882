\* Any client, any sender, any answers of the modules.
SPECIFICATION Spec
CONSTANTS
  a1 = a1
  a2 = a2
  Addr = {a1, a2}
  NMods = 2
  MaxRcpt = 3
  Equal <- SharedThenSieveEqual
  Status <- HeadersThenAny
  Can <- PlainThenSieve
  Dynamic = {2}
  Never = {TRUE, FALSE}
  Start <- AnyMessage
INVARIANTS TypeOK SameCellsAsFirst ShownToEveryCell BodyIsThere
PROPERTIES OneReplyForAll OneVerdict MessageOfConnection CallbackEnds
