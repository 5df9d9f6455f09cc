CONSTANTS
  f1 = f1
  f2 = f2
  Files = {f1, f2}
  CodeOf <- MCCodeOf
  Layouts <- MCLayouts
  Imported <- MCImported
  Generated <- MCGenerated
  Configs <- MCConfigs
SPECIFICATION Spec
INVARIANT TypeOK
INVARIANT UsedClassesKept
INVARIANT DirectivesResolved
CHECK_DEADLOCK FALSE
