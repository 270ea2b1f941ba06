CONSTANTS
  a1 = a1  l1 = l1  l2 = l2  m1 = m1  c1 = c1
  Routine = {a1}
  Leader = {l1}
  Manual = {c1}
  Side = {c1}
  NoDecision = NoDecision
  TargetDepth = 1
  QueueCap = 1
  Page = 8
  Faulty = {"crash", "stop", "ack", "answer", "channel"}
  MaxFault = 1
SPECIFICATION FairSpec
PROPERTIES IntentResolved LoggedStartIsRecorded
