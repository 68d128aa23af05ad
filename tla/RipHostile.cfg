SPECIFICATION Spec
CONSTANTS
  a = a
  b = b
  c = c
  Routers = {a, b, c}
  Subnets <- LineSubnets
  Links <- LineLinks
  Local <- LineLocal
  Dist <- LineDist
  INFINITY = 4
  MaxEntries = 3
  MaxStarts = 2
  MaxDowns = 0
  MaxBacklog = 1
  Exits = {c}
  Reorder = TRUE
  Lossy = TRUE
  Toward <- LineToward
INVARIANTS TypeOK RoutesAreTimed NeverTooGood RoutesPointHome
CHECK_DEADLOCK FALSE
