SPECIFICATION FairSpec
CONSTANTS
  g1 = g1
  g2 = g2
  good = good
  other = other
  bad = bad
  NoRegexp = NoRegexp
  NoOne = NoOne
  Goroutines <- MCGoroutines
  Patterns <- MCPatterns
  Compilable <- MCCompilable
INVARIANTS
  TypeOK
  NoDataRace
  RightRegexp
  CompiledAtMostOnceEach
PROPERTIES
  ImplementsCompileOnce
  CacheOnlyGrows
  EveryCallReturns
