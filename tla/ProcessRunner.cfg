SPECIFICATION FairRunnerSpec
CONSTANTS
  Procs = {child, a}
  Child = child
  Session = session
  Pid1 = init
  Reaper = init
INVARIANTS ConfirmedMeansGone GroupDoesNotOutlive
PROPERTY EveryCallSettles
CHECK_DEADLOCK FALSE
