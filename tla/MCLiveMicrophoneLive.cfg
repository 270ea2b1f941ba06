CONSTANTS
  ann = ann
  Person = {ann}
  Nobody = Nobody
  MaxToken = 1
  MaxGo = 1
  MaxAsk = 0
  Faulty = {"stall", "crash", "stop", "answer", "gateway"}
  MaxFault = 1
SPECIFICATION FairSpec
PROPERTIES AirReleased
CHECK_DEADLOCK FALSE
