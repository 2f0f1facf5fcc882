\* Any configuration of the small modules, any number of messages.
SPECIFICATION Spec
CONSTANTS
  rene = rene
  office = office
  anna = anna
  Addr = {rene, office, anna}
  Blocked = rene
  Postmaster = office
  Order <- Build
  Tables <- Exports
  Delay <- Seconds
  Sections <- AnySection
  MaxRcpt = 2
INVARIANTS TypeOK Paced TimersAreFreed Admitted
PROPERTY CallbacksEnd
