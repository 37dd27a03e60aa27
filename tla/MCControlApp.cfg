CONSTANTS
  Signal = {"SIGINT", "SIGTERM"}
  Command <- MCCommand
  MaxSeq = 2
  MaxInbox = 2
  MaxSignals = 3
SPECIFICATION FairSpec
INVARIANTS TypeOK NoSignalForgotten AlarmIsForASignal AtMostOneAfterDeinit OkMeansApplied
PROPERTY Terminates
CHECK_DEADLOCK FALSE
