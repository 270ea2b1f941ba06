CONSTANTS
  u1 = u1
  u2 = u2
  d1 = d1
  d2 = d2
  o1 = o1
  o2 = o2
  Parts = {"stations", "upgrades", "media", "production", "bulletin", "central", "report", "switch", "lookahead"}
  Overlap = FALSE
  MaxStationRequests = 3
  MaxStationFaults = 1
  MaxCommands = 2
  MaxUpgradeFaults = 1
  Upload = {u1, u2}
  MaxMediaRequests = 4
  MaxMediaFaults = 1
  ProducerDraft = {d1, d2}
  MaxOrders = 4
  MaxDeaths = 1
  Occ = {o1, o2}
  File = {o1}
  Framed = {o1}
  MaxEdits = 1
  MaxStops = 0
  MaxAsks = 3
  MaxCentralFaults = 1
  SwitchCommand = {1, 2}
  Mode = {"CALENDAR", "SIMPLE"}
  MaxSwitchEdits = 0
  MaxSwitchFaults = 1
  ListenerRequest = {1}
  Depth = 2
  Refilled = {TRUE}
  MaxRows = 3
  MaxProgramEdits = 1
  MaxCrashes = 1
  MaxOutages = 0
  Extended = TRUE
  Life = {"active", "retired"}
  Hour = 2
  Gap = 2
  MaxTime = 3
  MaxReportEdits = 1
  MaxReportFaults = 1
SPECIFICATION Spec
INVARIANT TypeOK
INVARIANT StationsSafe
INVARIANT MigratesOnce
INVARIANT PaidOnce
INVARIANT OneIdentity
INVARIANT ServerAgrees
INVARIANT SwitchIsSafe
INVARIANT PlayedOnce
INVARIANT AiredOnce
PROPERTY ImplementsInstallation
PROPERTY StepsPermitted
CHECK_DEADLOCK FALSE
