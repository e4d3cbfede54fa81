SPECIFICATION Spec
CONSTANTS
  c1 = c1
  c2 = c2
  c3 = c3
  k1 = k1
  k2 = k2
  k3 = k3
  k4 = k4
  k5 = k5
  b1 = b1
  b2 = b2
  None = None
  Conns <- MCConns
  Keys <- MCKeys
  Buckets <- MCBuckets
  Hash <- MCHash
  Pairs <- MCPairs
  Junk = Junk
SYMMETRY Symmetry
INVARIANTS ChainsAgree LookupFindsYoungest NoDanglingPointer
PROPERTY Refines
