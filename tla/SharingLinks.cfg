CONSTANTS
  Users <- AliceAndBob
  Owners <- AliceAndBob
  Names <- WordNames
  Forms <- OneForm
  Requests = {a1, b1, b2}
  Words = {scarf}
  OfAlice = {a1}
  SentBy <- AlicesAndBobs
  MaxPatterns = 3
  MaxWritten = 1
  MaxLinks = 2
  MaxStored = 4
  MaxSaves = 0
  MaxImages = 0
SPECIFICATION Spec
SYMMETRY Interchangeable
CHECK_DEADLOCK FALSE
INVARIANTS
  TypeOK
  LinksAreReused
  SavedOnce
