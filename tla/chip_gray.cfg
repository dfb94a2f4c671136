CONSTANTS
  v1 = v1
  v2 = v2
  v1Spaced = v1Spaced
  spaces = spaces
  Blank = Blank
  Callbacks = {"color", "value", "remove"}
  Values = {v1, v2}
  Colors <- MCColors
  Rgbs <- MCRgbs
  Alphas <- MCAlphas
  Drafts <- MCDrafts
  Trimmed <- MCTrimmed
SPECIFICATION Spec
INVARIANTS
  GrayWithoutColor
