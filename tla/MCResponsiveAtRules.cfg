CONSTANTS
  InputTrees <- MCInputTrees
  ScreenConfigs <- MCScreenConfigs
  ArrayIndexValue <- MCArrayIndexValue
  Separator <- MCSeparator
  NoNode = NoNode

SPECIFICATION Spec

INVARIANT TypeOK

PROPERTY ExpansionRefinement

\* The pass ends: it is done or it has thrown.
CHECK_DEADLOCK FALSE
