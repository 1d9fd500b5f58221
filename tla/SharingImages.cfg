CONSTANTS
  Users <- People
  Owners <- JustAlice
  Names <- WordNames
  Forms <- OneForm
  Requests = {a1, b1}
  Words = {scarf}
  OfAlice = {a1}
  SentBy <- AlicesAndBobs
  MaxPatterns = 2
  MaxWritten = 1
  MaxLinks = 1
  MaxStored = 3
  MaxSaves = 0
  MaxImages = 1
SPECIFICATION Spec
CHECK_DEADLOCK FALSE
PROPERTIES
  CopiesHaveImages
