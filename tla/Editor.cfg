CONSTANTS
  Users = {"ann"}
  Abbreviations = {"sc", "dc"}
  Nobody = "nobody"
  Libraries <- AfterUpgrade
  Patterns <- NoneOrThreeRows
  MaxClicks = 2
  MaxChanges = 1
  MaxSaves = 2
SPECIFICATION Spec
CHECK_DEADLOCK FALSE
INVARIANTS
  TypeOK
  FormsKeepSelections
PROPERTIES
  SavedAsShown
