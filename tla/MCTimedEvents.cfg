CONSTANTS
  id = id  ad = ad
  Event <- OneEvent
  Count = 2
  EventOf <- Repeats
  Due <- RepeatsAt
  Hard = {}
  Cuts = {}
  Once = {}
  Early <- Punctual
  Late <- Patient
  Lead = 0
  Background = FALSE
  MaxTime = 2
  MaxRevision = 2
  Faulty = {"crash"}
  MaxFault = 1
SPECIFICATION Spec
INVARIANTS TypeOK WithdrawnIsRemoved
PROPERTIES CancellationSurvivesEdits ReservedIsNotMissed
