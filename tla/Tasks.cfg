SPECIFICATION FairSpec
CONSTANTS
  Tasks = {t1}
  MaxBoots = 3
  MaxFaults = 2
INVARIANTS RunsAtMostOnce PendingCancelIsFinal DoneMeansDelivered NotedTaskIsOver RunningRowHasRunner
  WakeupNotLost
PROPERTIES LifecycleSpec DueTaskIsClaimed RunningTaskSettles
CHECK_DEADLOCK FALSE
