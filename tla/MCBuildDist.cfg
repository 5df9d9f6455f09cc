CONSTANTS
  base = base
  components = components
  utilities = utilities
  tailwind = tailwind
  Builds <- MCBuilds

SYMMETRY BuildSymmetry

SPECIFICATION Spec

INVARIANT FinishedOnlyWhenComplete

\* The process ends: once it has exited no step is possible.
CHECK_DEADLOCK FALSE
