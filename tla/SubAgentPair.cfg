SPECIFICATION Spec
CONSTANTS
  e1 = e1
  e2 = e2
  r1 = r1
  r2 = r2
  Orig = Orig
  None = None
  Editors <- TwoEditors
  Regions <- TwoRegions
  MaxTodos = 1
  Plans <- ShortPlans
  Edits <- MoreEdits
  Guesses <- TemplateGuess
  MaxRetries = 2
  MaxOps = 1
  DockerFaults = FALSE
INVARIANT ResultsFollowPlan
INVARIANT RejectedLeavesNoTrace
\* Every task has ended and the last container request was made.
CHECK_DEADLOCK FALSE
