\* Claims that the code refutes; with -continue TLC reports each.
CONSTANTS
  r1 = r1
  r2 = r2
  None = None
  Runs = {r1, r2}
  PERSONAS <- MCPersonas
  DEMO_PROJECTS <- MCProjects
  DEMO_BUGS <- MCBugs
  ProjectOf <- MCProjectOf
  StepsOf <- MCStepsOf
  DuplicateOf <- MCDuplicateOf
  MaxBugs = 3
  MaxEvents = 2
SPECIFICATION Spec
CHECK_DEADLOCK FALSE
INVARIANTS
  ReportedBugsAreWhole
  OneBugPerTitle
  SafeToReRun
