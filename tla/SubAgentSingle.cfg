SPECIFICATION FairSpec
CONSTANTS
  e1 = e1
  e2 = e2
  r1 = r1
  r2 = r2
  Orig = Orig
  None = None
  Editors <- OneEditor
  Regions <- TwoRegions
  MaxTodos = 2
  Plans <- MixedPlans
  Edits <- FewEdits
  Guesses <- TemplateGuess
  MaxRetries = 3
  MaxOps = 3
  DockerFaults = TRUE
INVARIANT TypeOK
INVARIANT SuccessMeansLanded
PROPERTY ImplementsContract
PROPERTY Terminates
\* Every task has ended and the last container request was made.
CHECK_DEADLOCK FALSE
