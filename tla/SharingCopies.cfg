CONSTANTS
  Users <- People
  Owners <- JustAlice
  Names <- WordNames
  Forms <- TwoForms
  Requests = {a1, b1}
  Words = {scarf, hat}
  OfAlice = {a1}
  SentBy <- AlicesAndBobs
  MaxPatterns = 2
  MaxWritten = 1
  MaxLinks = 1
  MaxStored = 3
  MaxSaves = 1
  MaxImages = 1
SPECIFICATION Spec
SYMMETRY Interchangeable
CHECK_DEADLOCK FALSE
INVARIANTS
  OnlyInvitedReceive
  CopiesAreWhole
  CopiesAreIndependent
PROPERTIES
  ReceivedStandAlone
