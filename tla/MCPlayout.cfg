CONSTANTS
  a1 = a1  l1 = l1  l2 = l2  m1 = m1  c1 = c1
  Routine = {}
  Leader = {l1, l2}
  Manual = {m1}
  Side = {}
  NoDecision = NoDecision
  TargetDepth = 1
  QueueCap = 1
  Page = 8
  Faulty = {"crash", "stop", "record", "ack", "answer"}
  MaxFault = 2
SPECIFICATION Spec
INVARIANTS
  TypeOK StartedWasAired NoFalseVanish RefillSubmitsOnce
  NothingTwice ManualIdentifies
PROPERTIES StartedIsFinal
