SPECIFICATION Spec
CONSTANTS
  Given = "given"
  Default = "default"
  ServedRows = {"row"}
  MaxStarts = 2
INVARIANT RestartedServerWorks
CHECK_DEADLOCK FALSE
