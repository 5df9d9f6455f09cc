CONSTANTS
  v1 = v1
  v2 = v2
  Versions = {v1, v2}
  CssOf <- MCCssOf
  InlineCss = "absent"
  MaxBuilds = 3
  MaxEdits = 2
SPECIFICATION Spec
INVARIANT TypeOK
INVARIANT ConfigStableWithinProcess
CHECK_DEADLOCK FALSE
