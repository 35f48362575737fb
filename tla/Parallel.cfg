SPECIFICATION FairSpec
CONSTANTS
  Cmds = {t1, t2, t3, t4}
  NoCmd = NoCmd
  MaxAsync = 3
  Jobs <- SomeJobs
  OSFailures = TRUE
  SigChldIgnored = FALSE
INVARIANTS TypeOK SlotOwnership JobsBound SlotForEveryJob SuccessIsComplete RecordedIsFresh NothingLeftBehind
PROPERTIES NoStartAfterFailure Termination
CHECK_DEADLOCK FALSE
