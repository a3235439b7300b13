SPECIFICATION ThreeMfSpec
CONSTANTS
  Printed = {m1, m2}
  Plate = {i1}
  DailyLimit = 1
  LastDay = 2
  Kills = 1
  Refreshes = 1
PROPERTY KeepsTheRest
CHECK_DEADLOCK FALSE
