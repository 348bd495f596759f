CONSTANTS
  MaxWorker = 2
  Pids = {1, 2}
  MaxWait = 2
  MaxTerms = 1
  ChangesCredentials = TRUE
SPECIFICATION Spec
PROPERTIES NoRunaways
CHECK_DEADLOCK FALSE
