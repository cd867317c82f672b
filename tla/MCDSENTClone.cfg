\* Result::clone of a composite result: the copy constructor copies the
\* sub-results of the new object, not of the original.
CONSTANTS
  a1 = a1
  c1 = c1
  c2 = c2
  k1 = k1
  Atomics <- MCAtomics
  Composites <- MCOneComposite
  Fresh <- MCFresh
  Producers <- MCProducers
  Values <- MCValues
  Nums <- MCNums
  MaxSubs = 1
  MaxValue = 1
SPECIFICATION Spec
PROPERTY CloneKeepsSum
\* Results are built and changed without end; no state is final.
CHECK_DEADLOCK FALSE
