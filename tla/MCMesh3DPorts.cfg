\* Port count declared for each router versus the channels wired to it,
\* over meshes that are one router wide in x or y.
CONSTANTS
  KRange <- MCThinRange
  NRange <- MCThinRange
  SRange <- MCThinRange
SPECIFICATION Spec
INVARIANT PortCountMatchesWiring
CHECK_DEADLOCK FALSE
