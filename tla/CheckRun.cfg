SPECIFICATION Spec
CONSTANTS
  N = 2
  WritesFail = TRUE
INVARIANTS PackagesEndOnce RecordIsTrue ZeroMeansDone ScreenIsGivenBack
