SPECIFICATION Spec
CONSTANTS
  u1 = u1
  u2 = u2
  r1 = r1
  r2 = r2
  Unset = Unset
  Users <- TwoUsers
  Resources <- OneResource
  Seed = u1
  Types = {"printer"}
  Actions = {"print", "read"}
  Departments = {"", "IT"}
  Names <- RuleNames
  Profiles <- TwoProfiles
  Drafts <- SeedDrafts
  MaxPolicies = 1
PROPERTY DeletionNeverWidens
CHECK_DEADLOCK FALSE
