SPECIFICATION Spec
CONSTANTS
  e1 = e1
  e2 = e2
  r1 = r1
  r2 = r2
  Orig = Orig
  None = None
  Editors <- TwoEditors
  Regions <- TwoRegions
  MaxTodos = 1
  Plans <- ShortPlans
  Edits <- FewEdits
  Guesses <- TemplateGuess
  MaxRetries = 1
  MaxOps = 0
  DockerFaults = FALSE
INVARIANT SuccessMeansLanded
\* Every task has ended and the last container request was made.
CHECK_DEADLOCK FALSE
