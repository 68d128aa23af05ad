SPECIFICATION FairSpec
CONSTANTS
  a = a
  b = b
  c = c
  Routers = {a, b, c}
  Subnets <- LineSubnets
  Links <- LineLinks
  Local <- LineLocal
  Dist <- LineDist
  INFINITY = 4
  MaxEntries = 3
  MaxStarts = 1
  MaxDowns = 0
  MaxBacklog = 1
  Exits = {c}
  Reorder = FALSE
  Lossy = FALSE
  Toward <- LineToward
PROPERTIES Converges GoneRoutesPurged
CHECK_DEADLOCK FALSE
