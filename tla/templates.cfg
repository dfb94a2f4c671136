CONSTANTS
  app1 = app1
  app2 = app2
  old = old
  new = new
  other = other
  x = x
  xSpaced = xSpaced
  spaces = spaces
  y = y
  b1 = b1
  b2 = b2
  Scopes = {app1, app2}
  Global = Global
  Texts = {x, xSpaced, spaces, y}
  Names = {x, y}
  Blank = Blank
  Bodies = {b1, b2}
  Unlabelled = Unlabelled
  NoBody = NoBody
  NoSeed = NoSeed
  Seeders = {old, new, other}
  Trimmed <- MCTrimmed
  GlobalTemplates <- MCGlobalTemplates
  ScopeOf <- MCScopeOf
  Seeds <- MCSeeds
  Unstorable <- MCUnstorable
SPECIFICATION Spec
INVARIANTS
  TypeOK
  NoOrphans
  SeedsStand
PROPERTIES
  ForeignStand
  SeededIsListed
