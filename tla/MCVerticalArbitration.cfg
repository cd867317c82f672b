\* One column of a 3-layer stack with its up and down buses.
CONSTANTS
  S = 3
  Buses <- MCBuses
SPECIFICATION Spec
INVARIANT TypeOK
PROPERTY BusRefinement
PROPERTY NoStarvation
