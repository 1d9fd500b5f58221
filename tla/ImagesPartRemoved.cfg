CONSTANTS
  Forms <- OfTwoParts
  Requests = {r1}
  r1 = r1
  MaxImages = 2
  MaxKeys = 3
  MaxSaves = 2
SPECIFICATION Spec
CHECK_DEADLOCK FALSE
PROPERTIES
  SavesKeepImages
