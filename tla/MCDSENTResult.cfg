\* The result tree: calculateSum against the path-sum reference, and the
\* totals print() reports at every detail level.
CONSTANTS
  a1 = a1
  c1 = c1
  c2 = c2
  k1 = k1
  Atomics <- MCAtomics
  Composites <- MCComposites
  Fresh <- MCFresh
  Producers <- MCProducers
  Values <- MCValues
  Nums <- MCNums
  MaxSubs = 2
  MaxValue = 2
SPECIFICATION Spec
INVARIANT TypeOK
INVARIANT SumMatchesPaths
INVARIANT PrintPreservesTotal
INVARIANT EnergyReportComplete
\* Results are built and changed without end; no state is final.
CHECK_DEADLOCK FALSE
