SPECIFICATION AuditSpec
CONSTANTS
  u1 = u1
  u2 = u2
  r1 = r1
  Unset = Unset
  Users <- TwoUsers
  Resources <- OneResource
  Seed = u1
  Types = {"printer"}
  Actions = {"print"}
  Departments = {"", "IT"}
  Names <- RuleNames
  Profiles <- ThreeProfiles
  Drafts <- SeedDrafts
  MaxPolicies = 1
  MaxEvents = 4
  MaxFaults = 1
INVARIANT JournalIsTrue
PROPERTY JournalOnlyGrows
CHECK_DEADLOCK FALSE
