CONSTANTS
  c1 = c1
  c2 = c2
  p1 = p1
  d1 = d1
  d2 = d2
  a = a
  b = b
  Caches = {c1}
  Dmas = {p1}
  Dirs = {d1}
  Addr = {a, b}
  Accesses <- OneReplaces
  Home <- OneHome
  CacheEntries = 1
  MaxOutstanding = 1
  LineWords = 1
  Values = {0, 1}
SPECIFICATION Spec
INVARIANT NoInvalidTransition
CHECK_DEADLOCK FALSE
