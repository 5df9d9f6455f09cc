CONSTANTS
  Generated <- MCGenerated
  InputTrees <- MCInputTrees
  ScreenConfigs <- MCScreenConfigs
  ArrayIndexValue <- MCArrayIndexValue
  Separator <- MCSeparator
  NoSource = NoSource
  NoNode = NoNode

SPECIFICATION Spec

INVARIANT TypeOK
INVARIANT WalkVisitsInputOnce

PROPERTY SubstitutionRefinement
PROPERTY FeaturesRefinement

\* A build ends: it is done or one of its passes has thrown.
CHECK_DEADLOCK FALSE
