SPECIFICATION Spec
CONSTANTS
  Unset = Unset
  Rules <- MCRules
  Subjects <- MCSubjects
  Resources <- MCResources
  Actions = {"read", "*"}
  MaxPolicies = 2
INVARIANTS
  EvaluatorsAgree
  DecisionIsSettled
CHECK_DEADLOCK FALSE
