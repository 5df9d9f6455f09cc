\* The stylesheets of MCResponsiveAtRules, one of which has a responsive
\* rule whose selector has no class.
CONSTANTS
  InputTrees <- MCInputTrees
  ScreenConfigs <- MCScreenConfigs
  ArrayIndexValue <- MCArrayIndexValue
  Separator <- MCSeparator
  NoNode = NoNode

SPECIFICATION Spec

INVARIANT SelectorErrorIsLocal

\* The pass ends: it is done or it has thrown.
CHECK_DEADLOCK FALSE
