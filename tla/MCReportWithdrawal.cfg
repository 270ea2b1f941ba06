SPECIFICATION FairSpec
CONSTANTS
  Extended = FALSE
  Life = {"active"}
  Hour = 2
  Gap = 2
  MaxTime = 2
  MaxEdits = 3
  MaxReportFaults = 1
PROPERTY WithdrawalArrives
CHECK_DEADLOCK FALSE
