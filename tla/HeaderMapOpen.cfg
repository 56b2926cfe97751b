SPECIFICATION Spec
CONSTANTS
  h = h
  g = g
  t1 = t1
  t2 = t2
  Nobody = Nobody
  Threads = {t1, t2}
  Maps = {h, g}
  Keys = {1, 2}
  Vals = {1, 2}
  Secrets = {2}
  MaxPairs = 1
  MaxLong = 2
  MaxChanges = 2
  Worlds <- OpenWorlds
PROPERTIES ThreadSafe
CHECK_DEADLOCK FALSE
