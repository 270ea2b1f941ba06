CONSTANTS
  id = id  ad = ad
  Event <- TwoEvents
  Count = 2
  EventOf <- OneEach
  Due <- SameTime
  Hard = {id}
  Cuts = {id}
  Once = {id, ad}
  Early <- EarlyBy
  Late <- LateBy
  Lead = 0
  Background = TRUE
  MaxTime = 2
  MaxRevision = 1
  Faulty = {"crash", "stop", "answer"}
  MaxFault = 1
SPECIFICATION FairSpec
PROPERTIES PlayingEnds PlayedOnlySettles
