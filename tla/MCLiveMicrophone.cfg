CONSTANTS
  ann = ann
  Person = {ann}
  Nobody = Nobody
  MaxToken = 1
  MaxGo = 1
  MaxAsk = 1
  Faulty = {"stall", "crash", "stop", "answer", "gateway"}
  MaxFault = 1
SPECIFICATION Spec
INVARIANTS TypeOK OneTakePerGo DepartureKeepsMode
CHECK_DEADLOCK FALSE
