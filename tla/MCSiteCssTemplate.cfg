CONSTANTS
  f1 = f1
  f2 = f2
  Files = {f1, f2}
  CodeOf <- MCCodeOf
  Layouts <- MCLayoutsTemplate
  Imported <- MCImported
  Generated <- MCGenerated
  Configs <- MCConfigs
SPECIFICATION Spec
INVARIANT UsedClassesKept
CHECK_DEADLOCK FALSE
