SPECIFICATION Spec
CONSTANTS
  Tasks = {t1}
  MaxBoots = 1
  MaxFaults = 0
PROPERTIES
  CancelStopsTask
CHECK_DEADLOCK FALSE
