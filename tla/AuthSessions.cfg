\* Two requests at once. Two rotations, two user ids after the first, and a
\* limit of one failure.
SPECIFICATION Spec
CONSTANTS
  Pinned = FALSE
  WithAdmin = FALSE
  Handler = {h1, h2}
  Name = {"admin", "bob"}
  Admin = "admin"
  Password = {"p", "q"}
  Limit = 1
  MaxId = 3
  MaxSecret = 3
  MaxCookies = 2
SYMMETRY HandlerSymmetry
INVARIANTS
  TypeOK
  AdministratorStays
  GuessesAreBounded
  RotatedTokensAreRefused
PROPERTIES
  PasswordOfCallerOnly
