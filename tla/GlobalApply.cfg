SPECIFICATION FairSpec
CONSTANTS
  Sizes = {1, 2}
  Managers = {1, 2}
  OneOutput = {2}
  Releases = 2
  PlanStyles = {"plain"}
  Styles <- MCStyles
  MaxEdits <- MCEdits
  MaxMoves <- MCMoves
INVARIANTS StrayStopsCommands SuccessIsComplete ResultAccepted
PROPERTIES EveryApplyAnswers LooksAreFresh
CHECK_DEADLOCK FALSE
