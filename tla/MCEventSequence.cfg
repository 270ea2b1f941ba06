CONSTANTS
  Count = 2
  Aborting = {2}
  Staged = {TRUE, FALSE}
  MaxTry = 2
  Faulty = {"crash", "stop", "answer", "content"}
  MaxFault = 1
SPECIFICATION FairSpec
INVARIANTS TypeOK AiredAsRecorded AbortRemoves
PROPERTIES SequenceEnds
