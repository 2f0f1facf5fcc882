\* Every order of callbacks that libmilter allows, over three messages.
SPECIFICATION Spec
CONSTANTS
  Null = Null
  MaxMsg = 3
INVARIANTS TypeOK ModulesAreReady BytesAreCurrent RecipientsAreCurrent
           BodyIsCurrent NothingLeaks
