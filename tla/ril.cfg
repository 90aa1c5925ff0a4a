SPECIFICATION Spec
CONSTANTS
  c1 = c1
  Boot = Boot
  Caller <- Connections
  RegTask = {1, 2, 3}
  Client <- OneClient
  MaxConn = 2
  Programs <- Asked
  MaxRequests = 3
  Retries = 2
  Attempts = 1
  Losses = 1
INVARIANTS OffIsIdle AnswersInOrder
PROPERTIES RequestsRunInOrder RequestsAnswered AcknowledgedRuns
CHECK_DEADLOCK FALSE
