CONSTANTS
  SwitchCommand = {1}
  Mode = {"CALENDAR", "SIMPLE"}
  MaxSwitchEdits = 1
  MaxSwitchFaults = 1
  ListenerRequest = {1}
  Depth = 2
  Refilled = {TRUE}
  MaxRows = 2
  MaxProgramEdits = 1
  MaxCrashes = 0
  MaxOutages = 1
  u1 = u1
  u2 = u2
  d1 = d1
  d2 = d2
  o1 = o1
  o2 = o2
  Upload = {u1}
  MaxRequests = 3
  MaxMediaFaults = 1
  ProducerDraft = {d1, d2}
  MaxOrders = 3
  MaxDeaths = 1
  Occ = {o1}
  File = {o1}
  Framed = {o1}
  MaxEdits = 1
  MaxStops = 1
  MaxAsks = 2
  MaxCentralFaults = 1
  Parts = {"switch", "lookahead", "media", "production", "bulletin", "central", "report"}
  Extended = TRUE
  Life = {"active"}
  Hour = 2
  Gap = 2
  MaxTime = 2
  MaxReportEdits = 1
  MaxReportFaults = 1
SPECIFICATION FairSpec
PROPERTY WorkEnds
CHECK_DEADLOCK FALSE
