SPECIFICATION FairSpec
CONSTANTS
  a = a
  b = b
  c = c
  Routers = {a, b, c}
  Subnets <- LineSubnets
  Links <- LineLinks
  Local <- LineLocal
  Dist <- LineDist
  INFINITY = 3
  MaxEntries = 3
  MaxStarts = 1
  MaxDowns = 1
  MaxBacklog = 1
  Exits = {}
  Reorder = FALSE
  Lossy = FALSE
  Toward <- LineToward
PROPERTIES CutRoutesPurged
CHECK_DEADLOCK FALSE
