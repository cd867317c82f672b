\* The node map for 1..3 shader cores, 1..2 memory partitions, networks with
\* 0 or 1 spare node, both use_map settings, the default preset and every
\* sorted memory_node_map; a read past memory_node returns no node id.
CONSTANTS
  ShaderCounts = {1, 2, 3}
  MemCounts = {1, 2}
  ExtraCounts = {0, 1}
  ConfigMaps <- MCSortedConfigs
  OOBValues <- MCNoNodeRead
SPECIFICATION Spec
INVARIANTS
  TypeOK
  NodeMapBijection
\* _CreateNodeMap returns (or asserts) after its last loop.
CHECK_DEADLOCK FALSE
