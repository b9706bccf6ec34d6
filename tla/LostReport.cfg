SPECIFICATION Spec
CONSTANTS
  e1 = e1
  e2 = e2
  r1 = r1
  r2 = r2
  Orig = Orig
  None = None
  Editors <- OneEditor
  Regions <- TwoRegions
  MaxTodos = 2
  Plans <- MixedPlans
  Edits <- FewEdits
  Guesses <- TemplateGuess
  MaxRetries = 1
  MaxOps = 0
  DockerFaults = FALSE
INVARIANT ErrorMeansUntouched
\* Every task has ended and the last container request was made.
CHECK_DEADLOCK FALSE
