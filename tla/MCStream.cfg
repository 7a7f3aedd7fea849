SPECIFICATION Spec
CHECK_DEADLOCK FALSE
CONSTANTS
  MaxEvents = 3
  MaxChanges = 2
  MaxDrops = 1
INVARIANTS TypeOK NoGap
PROPERTIES WatchEnds PanelSettles
