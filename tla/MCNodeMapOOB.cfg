\* Sorted memory_node_map lists: does shader placement stay inside
\* memory_node?
CONSTANTS
  ShaderCounts = {1, 2}
  MemCounts = {1, 2}
  ExtraCounts = {0}
  ConfigMaps <- MCSortedConfigs
  OOBValues <- MCAnyRead
SPECIFICATION Spec
INVARIANT MemoryNodeReadInBounds
\* _CreateNodeMap returns (or asserts) after its last loop.
CHECK_DEADLOCK FALSE
