\* Any scripts for two recipients, which may change once during the message.
SPECIFICATION Spec
CONSTANTS
  alice = alice
  bob = bob
  None = None
  Addr = {alice, bob}
  Path = {"siv.bc", "default.bc"}
  Script = {"sorting", "branching", "polite", "common"}
  Program <- Programs
  MaxRcpt = 3
  MaxUploads = 1
INVARIANTS
  TypeOK
  OneFilePerCell
  NothingSentBeforeTheEnd
  SentWhole
  
  MailedOnce
 
