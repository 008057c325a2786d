SPECIFICATION Spec
CONSTANTS
  u1 = u1
  u2 = u2
  r1 = r1
  r2 = r2
  Unset = Unset
  Users <- TwoUsers
  Resources <- TwoResources
  Seed = u1
  Types = {"printer"}
  Actions = {"print", "*"}
  Departments = {"", "IT"}
  Names <- RuleNames
  Profiles <- ThreeProfiles
  Drafts <- MixedDrafts
  MaxPolicies = 2
INVARIANTS
  TypeOK
  RulesInOrder
  AccessIsSettled
PROPERTIES
  RevokeNeverWidens
  GrantIsScoped
  DeletionKeepsAnAdmin
CHECK_DEADLOCK FALSE
