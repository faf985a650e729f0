\* Two clients, three rules on offer, at most three calls in a behaviour.
SPECIFICATION Spec
CONSTANTS
  Client = {c1, c2}
  From <- MCFrom
  Canon <- MCCanon
  Anywhere = "any"
  Offered <- MCOffered
  AllowToggle = TRUE
  MaxRules = 4
  MaxNumber = 2
  MaxCalls = 3
SYMMETRY ClientSymmetry
INVARIANTS
  TypeOK
  AppliedTableIsListed
  BootFileIsTable
PROPERTIES
  SavedChangeSurvives
  NoLostUpdate
