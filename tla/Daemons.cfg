CONSTANTS
  MaxWorker = 2
  Pids = {1, 2, 3}
  MaxWait = 2
  MaxTerms = 2
  ChangesCredentials = TRUE
SPECIFICATION DaemonSpec
INVARIANTS DaemonTypeOK WorkersBounded CountAgrees EveryChildKnown FinishesAlone OneDaemonPerFile
PROPERTIES ShutdownEnds DeadWorkerReplaced
CHECK_DEADLOCK FALSE
