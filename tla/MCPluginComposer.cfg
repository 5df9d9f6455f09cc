CONSTANTS
  CorePlugins <- MCCorePlugins
  UserPlugins <- MCUserPlugins
  Palette <- MCPalette
  Configs <- MCAllConfigs

SPECIFICATION Spec

INVARIANT ComposedAsSpecified

\* Composition ends: the plugins have run or configuration has thrown.
CHECK_DEADLOCK FALSE
