SPECIFICATION FairSpec
CONSTANTS
  h1 = h1
  h2 = h2
  p = p
  q = q
  Handlers <- MCHandlers
  Ids = {1, 2}
  Names = {"user"}
  Passwords <- MCPasswords
  Uploads <- MCUploads
  Renewed <- MCRenewed
  CheckHours = 24
  AutoRenew = TRUE
  Warn = 1
  SessionAge = 2
  MaxTime = 2
  MaxOps = 2
INVARIANTS
  PasswordsAgree
  OneRowPerName
PROPERTIES
  DeletedUnlessRaced
  ShownStatusSettles
