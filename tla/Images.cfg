CONSTANTS
  Forms <- AnyPartChanges
  Requests = {r1, r2}
  r1 = r1
  r2 = r2
  MaxImages = 1
  MaxKeys = 3
  MaxSaves = 3
SPECIFICATION Spec
SYMMETRY Interchangeable
CHECK_DEADLOCK FALSE
INVARIANTS
  TypeOK
  LimitHolds
  RowsHaveBytes
  NoOrphans
  ImagesStayWithPart
PROPERTIES
  SavesKeepImagesInPlace
