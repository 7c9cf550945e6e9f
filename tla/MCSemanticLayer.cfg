SPECIFICATION Spec
CONSTANTS
  a = a
  b = b
  c = c
  d = d
  foreign = foreign
  Concepts = {a, b, c, d, foreign}
  ScopeOf <- MCScopeOf
  Claims <- MCClaims
  Seeds <- MCSeeds
  Hops = {2}
  Limits = {2, 5}
  NoConcept = NoConcept
  m = m
  Memories = {m}
  Paths = {p}
  Summarizers = {s1, s2}
  NodeRanks = {1, 2}
  Origins = {o}
  Digests = {d1}
  Deltas = {2}
  MaxDirty = 3
  Nothing = Nothing
  Graphs <- MCGraphs
  MaxWrites = 3
  MaxReaders = 2
SYMMETRY MCSymmetry
INVARIANTS
  TypeOK
  ExpansionsAreExact
  DirtyCountsAreExact
PROPERTIES
  ProvenanceIsKept
