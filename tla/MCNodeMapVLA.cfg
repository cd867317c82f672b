\* The default preset on a network with a spare node.
CONSTANTS
  ShaderCounts = {1, 2}
  MemCounts = {1, 2}
  ExtraCounts = {0, 1}
  ConfigMaps <- MCDefaultPreset
  OOBValues <- MCNoNodeRead
SPECIFICATION Spec
INVARIANT PresetWithinArray
\* _CreateNodeMap returns (or asserts) after its last loop.
CHECK_DEADLOCK FALSE
