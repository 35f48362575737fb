SPECIFICATION FairSystemSpec
CONSTANTS
  Cmds = {1, 2}
  NoCmd = NoCmd
  MaxAsync = 2
  OSFailures = TRUE
  SigChldIgnored = FALSE
  MaxTasks = 2
  n1 = n1
  x1 = x1
  x2 = x2
  x3 = x3
  Nodes = {n1, x1, x2, x3}
  NodeLists <- SomeLists
  Customs = {TRUE, FALSE}
  Servers = {n1}
  Requests <- AllRequests
  Straying <- StrayRequests
  NoRequest = NoRequest
  NoServer = NoServer
  MaxJobs = 1
  NodeFailures = TRUE
INVARIANTS SystemTypeOK CurlOwnership AnswersAreTrue GivenUpOnlyAfterAll SuccessIsComplete NothingLeftBehind AtRest AnswerIsWhole FailureHasCause
PROPERTIES Termination RequestsEnd
CHECK_DEADLOCK FALSE
