CONSTANTS
  g1 = g1
  g2 = g2
  g3 = g3
  g4 = g4
  r1 = r1
  r2 = r2
  a = a
  b = b
  c = c
  Token <- MCToken
  Run <- MCRun
  CommandId <- MCCommandId
SYMMETRY MCSymmetry
SPECIFICATION SessionSpec
INVARIANTS
    CacheTruth
    CommandOnce
PROPERTIES
    ExtendsDecided
