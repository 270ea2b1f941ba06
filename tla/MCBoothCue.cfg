CONSTANTS
  e1 = e1
  e2 = e2
  s = s
  Entry = {e1, e2}
  Search = s
  Armed = {TRUE, FALSE}
  MaxPlay = 2
  MaxEdit = 1
  MaxSwitch = 1
  MaxFault = 1
SPECIFICATION FairSpec
PROPERTY PendingStartResolves
INVARIANT TypeOK
INVARIANT RotationEarned
INVARIANT AutomaticStartIsCurrent
ACTION_CONSTRAINTS WebBetweenJudgements OneDisturbance
CHECK_DEADLOCK FALSE
