\* Stylesheets that name the same category in two markers.
CONSTANTS
  Generated <- MCGenerated
  InputTrees <- MCDuplicateTrees
  NoSource = NoSource
  NoNode = NoNode

SPECIFICATION Spec

PROPERTY SubstitutionRefinement

\* The pass ends: it is done or it has thrown.
CHECK_DEADLOCK FALSE
