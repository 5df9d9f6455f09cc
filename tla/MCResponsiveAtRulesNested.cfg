CONSTANTS
  InputTrees <- MCNestedTrees
  ScreenConfigs <- MCScreenConfigs
  ArrayIndexValue <- MCArrayIndexValue
  Separator <- MCSeparator
  NoNode = NoNode

SPECIFICATION Spec



INVARIANT ResponsiveBlocksUnwrapped

\* The pass ends: it is done or it has thrown.
CHECK_DEADLOCK FALSE
