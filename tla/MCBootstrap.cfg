SPECIFICATION Spec
CONSTANTS
  Given = "given"
  Default = "default"
  ServedRows = {"row"}
  MaxStarts = 3
INVARIANTS
  TypeOK
  UsableMeansSeeded
PROPERTIES
  RefinesInstallation
  StartsKeepData
  EmptyIsInstalled
CHECK_DEADLOCK FALSE
