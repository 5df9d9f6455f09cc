\* Breakpoints named by their pixel width, declared widest first.
CONSTANTS
  InputTrees <- MCInputTrees
  ScreenConfigs <- MCNumericScreenConfigs
  ArrayIndexValue <- MCNumericArrayIndexValue
  Separator <- MCSeparator
  NoNode = NoNode

SPECIFICATION Spec

INVARIANT BreakpointsInDeclaredOrder

\* The pass ends: it is done or it has thrown.
CHECK_DEADLOCK FALSE
