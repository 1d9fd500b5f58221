CONSTANTS
  Users = {"ann", "bob"}
  Abbreviations = {"sc", "dc"}
  Nobody = "nobody"
  Requests = {"r1", "r2"}
  Releases <- TwoReleases
  MaxCrashes = 2
  MaxStops = 2
  MaxIds = 3
SPECIFICATION Spec
CHECK_DEADLOCK FALSE
INVARIANTS
  TypeOK
  MigrationsOnceInOrder
  ServingIsReady
PROPERTIES
  ImplementsLibrary
  OnlyOwnStitchesChange
  ServesInTheEnd
  ShutdownEnds
