SPECIFICATION FairSpec
CONSTANTS
  feed = feed
  idle = idle
  live = live
  off = off
  Serv = {feed, idle}
  Grp = {live, off}
  Groups <- MCGroups
  Members <- MCMembers
  Confs <- MCConfs
  Conn = {c1, c2}
  Proc = {p1, p2}
  SpawnDelay = 1
  StatsPeriod = 1
  RestartDeadline = 2
  RestartTime = 1
  MaxOut = 1
  MaxFaults = 1
  None = None
INVARIANTS ServicesSound OneInstance
PROPERTIES AdminStopSticks ServiceLives
CHECK_DEADLOCK FALSE
