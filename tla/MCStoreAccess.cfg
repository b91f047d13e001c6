SPECIFICATION MCSpec
CONSTANTS
  c1 = c1  c2 = c2  c3 = c3  s1 = s1  s2 = s2  n = n  m = m  h = h  i = i
  Cluster <- MCCluster
  NameOf <- MCName
  ScopeOf <- MCScope
  Separated = {m}
  Hyphenated <- MCHyphenated
  Seeds = {c1}
  Collector = collector
  Menu = menu
  TTL = 1
  MaxTime = 2
INVARIANTS TypeOK FetchReachesCluster ServedIsFresh SilentSearchIsComplete
PROPERTY CallsReturn
